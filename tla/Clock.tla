------------------------------- MODULE Clock -------------------------------
(***************************************************************************)
(* millis(), an unsigned counter that wraps, as the tasks use it: stamps   *)
(* are stored, and their age is an unsigned subtraction.  (ProtectionCore, *)
(* which also compares stamps as signed numbers, has its own range.)       *)
(***************************************************************************)
EXTENDS Integers

CONSTANT
  Wrap  \* the range of millis(): 2^32

ASSUME ClockAssumption == Wrap \in Nat \ {0}

Millis == 0 .. Wrap - 1

\* Faulty variant: signed subtraction.
ElapsedBug(now, then) == now - then

\* static_cast<uint32_t>(now - then)
Elapsed(now, then) == IF then <= now THEN now - then ELSE (now - then) + Wrap

\* One tick of millis().
Later(now) == IF now = Wrap - 1 THEN 0 ELSE now + 1
=============================================================================
