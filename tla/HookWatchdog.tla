---------------------------- MODULE HookWatchdog ----------------------------
(***************************************************************************)
(* The arithmetic of hyperkey-core/src/watchdog.rs on unsigned ticks of a  *)
(* fixed width.  The hook callback stamps a heartbeat while the watchdog   *)
(* thread, which reads the clock before it reads the stamp, decides; so a  *)
(* stamp may be later than `now`.                                          *)
(*                                                                         *)
(* HookEngine has the decision as the two values of `beat`.                *)
(***************************************************************************)
EXTENDS Naturals, TLAPS

CONSTANTS TickLimit,    \* one more than the greatest tick, 2^64 in the code
          DeadAfter     \* dead_after_milliseconds

ASSUME TicksAssumption ==
    /\ TickLimit \in Nat \ {0}
    /\ DeadAfter \in 1..(TickLimit - 1)

Ticks == 0..(TickLimit - 1)

SaturatingSub(now, stamp) == IF now >= stamp THEN now - stamp ELSE 0

Tick(now, stamp) ==
    IF SaturatingSub(now, stamp) >= DeadAfter
    THEN "ReinstallHook" ELSE "SendProbe"

---------------------------------------------------------------------------

(* A hook is taken for dead exactly when its last beat is DeadAfter or     *)
(* more in the past; a beat stamped after the clock was read, or a clock   *)
(* that went back, is never taken for an old one.                          *)
THEOREM DeadMeansOldBeat ==
    ASSUME NEW now \in Ticks, NEW stamp \in Ticks
    PROVE  Tick(now, stamp) = "ReinstallHook" <=> stamp + DeadAfter <= now
<1>1. now \in Nat /\ stamp \in Nat /\ DeadAfter \in Nat /\ DeadAfter > 0
  BY TicksAssumption DEF Ticks
<1>2. CASE now >= stamp
  <2>1. Tick(now, stamp) = "ReinstallHook" <=> now - stamp >= DeadAfter
    BY <1>2 DEF Tick, SaturatingSub
  <2> QED  BY <1>1, <1>2, <2>1
<1>3. CASE ~(now >= stamp)
  <2>1. Tick(now, stamp) = "SendProbe"
    BY <1>1, <1>3 DEF Tick, SaturatingSub
  <2> QED  BY <1>1, <1>3, <2>1
<1> QED  BY <1>2, <1>3
=============================================================================
