----------------------------- MODULE MCWatchdog -----------------------------
(***************************************************************************)
(* Watchdog with one supervised task beside WatchdogTask itself; the clock *)
(* wraps just after the longest time a silent task may go unnoticed.       *)
(***************************************************************************)
EXTENDS Watchdog
=============================================================================
