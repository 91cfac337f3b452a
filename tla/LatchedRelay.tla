---------------------------- MODULE LatchedRelay ----------------------------
(***************************************************************************)
(* What the controller promises about its relay, whatever its tasks do     *)
(* (class comment of protection_core.h, docs/fault-management.md): a fault *)
(* opens the relay and is kept, with its first cause, until it is cleared; *)
(* clearing a fault never closes the relay, a later and separate decision  *)
(* does.                                                                   *)
(***************************************************************************)
CONSTANT Causes            \* the fault codes, NONE excluded

VARIABLES
  permit,                  \* the relay may be closed
  latch                    \* the latched cause, or NONE

Init == permit = FALSE /\ latch = "NONE"

Allow == latch = "NONE" /\ permit' = TRUE /\ UNCHANGED latch

Inhibit == permit' = FALSE /\ UNCHANGED latch

Trip(cause) == latch = "NONE" /\ latch' = cause /\ permit' = FALSE

\* A reset, or the restart of the controller.
Clear == latch # "NONE" /\ ~permit /\ latch' = "NONE" /\ permit' = FALSE

Next == Allow \/ Inhibit \/ Clear \/ \E cause \in Causes : Trip(cause)

Spec == Init /\ [][Next]_<<permit, latch>>
=============================================================================
