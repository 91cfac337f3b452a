---------------------------- MODULE MCProtection ----------------------------
(***************************************************************************)
(* ProtectionMachine on a clock of a dozen ticks, so that every age wraps. *)
(***************************************************************************)
EXTENDS ProtectionMachine

Reading(valid, voltage, power) ==
  [valid |-> valid, voltage |-> voltage, power |-> power]

\* A failed read, no mains, each power band.
MCReadings ==
  {Reading(FALSE, 0, 0), Reading(TRUE, 0, 0), Reading(TRUE, 1, 1),
   Reading(TRUE, 1, 2), Reading(TRUE, 1, 3)}

\* Elapsed is the unsigned subtraction of the C++ code.
ASSUME \A now, then \in Millis : Elapsed(now, then) = (now - then) % Wrap

\* SignedBefore is the sign bit of that subtraction.
ASSUME \A t, ref \in Millis :
  SignedBefore(t, ref) <=> (t - ref) % Wrap \in Half .. Wrap - 1
=============================================================================
