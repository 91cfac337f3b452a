---------------------------- MODULE MCController ----------------------------
(***************************************************************************)
(* Controller with short queues and a clock of a few ticks.                *)
(***************************************************************************)
EXTENDS Controller

Reading(valid, power) == [valid |-> valid, voltage |-> 1, power |-> power]

\* What closes the relay and what trips it.
MCFewReadings == {Reading(TRUE, 1), Reading(TRUE, 2)}

\* What closes the relay: only a lock failure trips it.
MCGoodReadings == {Reading(TRUE, 1)}
=============================================================================
