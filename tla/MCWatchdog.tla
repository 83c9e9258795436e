----------------------------- MODULE MCWatchdog -----------------------------
(* Small instances of Watchdog for TLC: the constants are the cfg's. *)
EXTENDS Watchdog
=============================================================================
