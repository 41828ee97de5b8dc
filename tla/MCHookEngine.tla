---------------------------- MODULE MCHookEngine ----------------------------
(* HookEngine with a queue that can hold a watchdog request and a forced   *)
(* one at once, and a WM_QUIT behind them; HookWatchdog on ticks of four   *)
(* bits.                                                                   *)
EXTENDS HookEngine, HookWatchdog
=============================================================================
