----------------------------- MODULE MCNetwork -----------------------------
(***************************************************************************)
(* Network with short intervals and two states of the protection core.     *)
(***************************************************************************)
EXTENDS Network

Report(state, fault) == [state |-> state, fault |-> fault]
MCReports == {Report("NORMAL", "NONE"), Report("FAULT", "OVERPOWER")}
MCOneReport == {Report("NORMAL", "NONE")}
=============================================================================
