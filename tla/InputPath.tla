----------------------------- MODULE InputPath ------------------------------
(***************************************************************************)
(* The path of a key event through hyperkey: the low-level hook callback   *)
(* with the trigger machine and the modifier synthesizer behind the mutex  *)
(* `shared`, the control calls that take the same mutex (configure,        *)
(* emergency_disable, reconcile), and the hook being attached, removed by  *)
(* Windows, reinstalled and detached by the hook thread, and the session   *)
(* being locked and unlocked.                                              *)
(*                                                                         *)
(* Two sets describe the world outside: `physical` are the keys the user   *)
(* holds, `down` the keys the rest of the system sees down.  A generated   *)
(* left Ctrl and a physical left Ctrl are the same key to the system.      *)
(*                                                                         *)
(* A callback that calls SendInput is three steps: the machine moves and   *)
(* `shared` stays held (`call` names the event), the send takes effect,    *)
(* and the callback returns, forwarding or swallowing the event.  From the *)
(* first to the last nobody else can take `shared`, but a nested callback  *)
(* can run on the same thread, and Windows can give up on the hook.  A     *)
(* rolled-back send is one step: an event between the send and its         *)
(* roll-back changes what the same event before or after both would.       *)
(***************************************************************************)
EXTENDS TriggerMachine, ModifierSynth, FiniteSets

CONSTANTS TriggerKeys,      \* keys that may be configured as the trigger
          OrdinaryKeys,     \* other keys that are no output modifier
          Modifiers,        \* Control, Alt, Shift: left physical keys too
          ModifierLists,    \* the lists that may be configured
          Faults,           \* subset of AllFaults the environment may show
          NoCall            \* no callback is inside SendInput

Keys == TriggerKeys \cup OrdinaryKeys \cup Modifiers

(* nested:   a real event reaches the callback while the same thread is    *)
(*           inside SendInput                                              *)
(* hookloss: Windows removes the hook silently                             *)
(* install:  SetWindowsHookEx may fail                                     *)
(* panic:    the callback may panic                                        *)
(* session:  the session may be locked, and no event reaches the hook then *)
AllFaults == {"nested", "hookloss", "install", "panic", "session"}

ASSUME KeysAssumption ==
    /\ TriggerKeys \cap (OrdinaryKeys \cup Modifiers) = {}
    /\ OrdinaryKeys \cap Modifiers = {}
    /\ TriggerKeys # {}

ASSUME ModifierListsAssumption ==
    /\ ModifierLists # {}
    /\ \A ms \in ModifierLists :
          /\ ms \in Seq(Modifiers)
          /\ Len(ms) >= 1

ASSUME FaultsAssumption == Faults \subseteq AllFaults

(* send:     decided, nothing sent yet                                     *)
(* sent:     the synthesizer answered Ok; rejected: it answered Err        *)
(* let_go is no program state: the modifiers that nested events have       *)
(* lifted since the send.                                                  *)
Calls == [key: Keys,
          decision: {"PressAndForward", "ReleaseAndSuppress", "ReplayTrigger"},
          stage: {"send", "sent", "rejected"},
          let_go: SUBSET Modifiers]

ASSUME NoCallAssumption == NoCall \notin Calls

VARIABLES
    phase,              \* Shared.machine.phase
    trigger,            \* Shared.trigger
    output_modifiers,   \* Shared.output_modifiers
    pressed,            \* ModifierSynthesizer.pressed_modifiers
    call,               \* the callback holding `shared` around SendInput
    pump,               \* where the hook thread is
    hook,               \* whether Windows delivers events to the callback
    status,             \* Lifecycle.status
    posted,             \* a WM_REINSTALL_HOOK is queued
    session,            \* here, away (locked), or back and not reconciled
    physical,           \* keys the user holds
    down                \* keys the system sees down

shared == <<phase, trigger, output_modifiers, pressed>>
thread == <<pump, hook, posted>>
vars == <<phase, trigger, output_modifiers, pressed, call, pump, hook,
          status, posted, session, physical, down>>

Pumps == {"down", "starting", "up", "unhooked", "reinstalling", "exiting"}

TypeOK ==
    /\ phase \in Phases
    /\ trigger \in TriggerKeys
    /\ output_modifiers \in ModifierLists
    /\ pressed \subseteq Modifiers
    /\ call \in Calls \cup {NoCall}
    /\ pump \in Pumps
    /\ hook \in {"attached", "detached"}
    /\ status \in {"Stopped", "Starting", "Running", "Failed"}
    /\ posted \in BOOLEAN
    /\ session \in {"here", "away", "back"}
    /\ physical \subseteq Keys
    /\ down \subseteq Keys

Configured == Members(output_modifiers)

(* The hook may be attached later, while keys are held.                    *)
Init ==
    /\ phase = "Idle"
    /\ trigger \in TriggerKeys
    /\ output_modifiers \in ModifierLists
    /\ pressed = {}
    /\ call = NoCall
    /\ pump = "down"
    /\ hook = "detached"
    /\ status = "Stopped"
    /\ posted = FALSE
    /\ session = "here"
    /\ physical = {}
    /\ down = {}

---------------------------------------------------------------------------
(* The user and Windows.                                                   *)

Apply(keys, k, transition) ==
    IF transition = "Down" THEN keys \cup {k} ELSE keys \ {k}

(* A held key repeats its Down; only a held key comes Up.                  *)
UserMoves(k, transition) ==
    /\ transition = "Up" => k \in physical
    /\ physical' = Apply(physical, k, transition)

(* Without a hook, and on the lock screen, an event reaches the system     *)
(* directly.  Windows passes no event on while a callback handles one.     *)
UnhookedEvent(k, transition) ==
    /\ \/ hook = "detached"
       \/ session = "away" /\ call = NoCall
    /\ UserMoves(k, transition)
    /\ down' = Apply(down, k, transition)
    /\ UNCHANGED <<shared, call, thread, status, session>>

(* The event of the callback that is inside SendInput.                     *)
CallTransition ==
    IF call.decision = "PressAndForward" THEN "Down" ELSE "Up"

(* Windows removes a hook that stalls.  The event the callback is holding  *)
(* then goes on without its answer.                                        *)
HookRemoved ==
    /\ "hookloss" \in Faults
    /\ hook = "attached"
    /\ hook' = "detached"
    /\ down' = IF call = NoCall THEN down ELSE Apply(down, call.key, CallTransition)
    /\ UNCHANGED <<shared, call, pump, status, posted, session, physical>>

Lock ==
    /\ "session" \in Faults
    /\ session # "away"
    /\ session' = "away"
    /\ UNCHANGED <<shared, call, thread, status, physical, down>>

Unlock ==
    /\ session = "away"
    /\ session' = "back"
    /\ UNCHANGED <<shared, call, thread, status, physical, down>>

---------------------------------------------------------------------------
(* The hook callback.                                                      *)

Real(k, transition) ==
    [key |-> k, transition |-> transition, is_synthetic |-> FALSE]

Decided(k, transition) == Process(phase, Real(k, transition), trigger)

(* dispatch_hook_event up to the decision.                                 *)
Dispatched(k, transition, decisions) ==
    /\ hook = "attached"
    /\ session # "away"
    /\ call = NoCall
    /\ UserMoves(k, transition)
    /\ Decided(k, transition).decision \in decisions
    /\ phase' = Decided(k, transition).phase

ForwardEvent(k, transition) ==
    /\ Dispatched(k, transition, {"PassThrough", "Forward"})
    /\ down' = Apply(down, k, transition)
    /\ UNCHANGED <<trigger, output_modifiers, pressed, call, thread, status, session>>

SuppressEvent(k, transition) ==
    /\ Dispatched(k, transition, {"Suppress"})
    /\ UNCHANGED <<trigger, output_modifiers, pressed, call, thread, status,
                   session, down>>

BeginSend(k, transition) ==
    /\ Dispatched(k, transition,
                  {"PressAndForward", "ReleaseAndSuppress", "ReplayTrigger"})
    /\ call' = [key |-> k, decision |-> Decided(k, transition).decision,
                stage |-> "send", let_go |-> {}]
    /\ UNCHANGED <<trigger, output_modifiers, pressed, thread, status, session, down>>

InCall(decision, stage) ==
    /\ call # NoCall
    /\ call.decision = decision
    /\ call.stage = stage

(* The synthesizer's method has returned r to the callback.                *)
Answered(r) ==
    /\ pressed' = r.pressed
    /\ down' = r.down
    /\ call' = [call EXCEPT !.stage = IF r.result = "Ok" THEN "sent" ELSE "rejected",
                            !.let_go = {}]
    /\ UNCHANGED <<phase, trigger, output_modifiers, thread, status, session, physical>>

SendPress ==
    /\ InCall("PressAndForward", "send")
    /\ \E r \in TryPress(pressed, down, output_modifiers) : Answered(r)

SendRelease ==
    /\ InCall("ReleaseAndSuppress", "send")
    /\ \E r \in TryRelease(pressed, down, output_modifiers) : Answered(r)

(* Seeded fault: the replayed trigger is tracked as if it were held.       *)
SendReplayTracked ==
    /\ InCall("ReplayTrigger", "send")
    /\ Answered(Outcome(pressed \cup {trigger}, down \cup {trigger}, "Ok"))

SendReplay ==
    /\ InCall("ReplayTrigger", "send")
    /\ \E r \in ReplayTrigger(pressed, down, trigger) : Answered(r)

(* The modifiers are down before the key goes through.  Windows no longer  *)
(* listens to a hook it has removed.                                       *)
ForwardPressed ==
    /\ InCall("PressAndForward", "sent")
    /\ call' = NoCall
    /\ down' = IF hook = "attached" THEN down \cup {call.key} ELSE down
    /\ UNCHANGED <<shared, thread, status, session, physical>>

SwallowSent ==
    /\ InCall("ReleaseAndSuppress", "sent") \/ InCall("ReplayTrigger", "sent")
    /\ call' = NoCall
    /\ UNCHANGED <<shared, thread, status, session, physical, down>>

(* Seeded fault: a rejected press does not take the machine back to Idle.  *)
SwallowRejectedStaysActive ==
    /\ call # NoCall
    /\ call.stage = "rejected"
    /\ call' = NoCall
    /\ status' = "Failed"
    /\ UNCHANGED <<shared, thread, session, physical, down>>

(* A rejected press takes the machine back to Idle; the event is swallowed *)
(* whatever was rejected.                                                  *)
SwallowRejected ==
    /\ call # NoCall
    /\ call.stage = "rejected"
    /\ call' = NoCall
    /\ phase' = IF call.decision = "PressAndForward" THEN "Idle" ELSE phase
    /\ status' = "Failed"
    /\ UNCHANGED <<trigger, output_modifiers, pressed, thread, session, physical, down>>

(* A real event in a nested callback finds `shared` held by its own thread *)
(* and is forwarded without the machine seeing it.                         *)
NestedEvent(k, transition) ==
    /\ "nested" \in Faults
    /\ hook = "attached"
    /\ session # "away"
    /\ call # NoCall
    /\ UserMoves(k, transition)
    /\ down' = Apply(down, k, transition)
    /\ call' = [call EXCEPT !.let_go =
                   IF call.stage = "send" \/ k \notin Modifiers THEN @
                   ELSE IF transition = "Up" THEN @ \cup {k} ELSE @ \ {k}]
    /\ UNCHANGED <<shared, thread, status, session>>

(* Seeded fault: the machine goes Idle and the modifiers stay down.        *)
ResetMachineOnly ==
    /\ call = NoCall
    /\ phase' = "Idle"
    /\ UNCHANGED <<trigger, output_modifiers, pressed, call, down>>

(* reset_shared_state, the body of emergency_disable and reconcile; the    *)
(* caller must be able to take `shared`.                                   *)
ResetShared ==
    /\ call = NoCall
    /\ phase' = "Idle"
    /\ \E r \in ReleaseTracked(pressed, down, output_modifiers) :
          /\ pressed' = r.pressed
          /\ down' = r.down
    /\ UNCHANGED <<trigger, output_modifiers, call>>

(* hook_callback catches a panic of the dispatch: everything is released,  *)
(* the status becomes Failed and the event passes through.                 *)
CallbackPanics(k, transition) ==
    /\ "panic" \in Faults
    /\ hook = "attached"
    /\ session # "away"
    /\ UserMoves(k, transition)
    /\ call = NoCall
    /\ phase' = "Idle"
    /\ \E r \in ReleaseTracked(pressed, down, output_modifiers) :
          /\ pressed' = r.pressed
          /\ down' = Apply(r.down, k, transition)
    /\ status' = "Failed"
    /\ UNCHANGED <<trigger, output_modifiers, call, thread, session>>

(* The same around the send.  After an Ok nothing is left that can panic.  *)
SendPanics ==
    /\ "panic" \in Faults
    /\ call # NoCall
    /\ call.stage # "sent"
    /\ call' = NoCall
    /\ phase' = "Idle"
    /\ \E r \in ReleaseTracked(pressed, down, output_modifiers) :
          /\ pressed' = r.pressed
          /\ down' = IF hook = "attached"
                     THEN Apply(r.down, call.key, CallTransition)
                     ELSE r.down
    /\ status' = "Failed"
    /\ UNCHANGED <<trigger, output_modifiers, thread, session, physical>>

---------------------------------------------------------------------------
(* Control calls from the app's threads.                                   *)

(* Seeded fault: the old layer is not released before the new one is set.  *)
ConfigureHeld(new_trigger, new_modifiers) ==
    /\ call = NoCall
    /\ phase' = "Idle"
    /\ trigger' = new_trigger
    /\ output_modifiers' = new_modifiers
    /\ UNCHANGED <<pressed, down, call, thread, status, session, physical>>

Configure(new_trigger, new_modifiers) ==
    /\ call = NoCall
    /\ \E r \in ReleaseTracked(pressed, down, output_modifiers) :
          /\ pressed' = r.pressed
          /\ down' = r.down
    /\ phase' = "Idle"
    /\ trigger' = new_trigger
    /\ output_modifiers' = new_modifiers
    /\ UNCHANGED <<call, thread, status, session, physical>>

(* Seeded fault: the reset does not wait for the callback to return.       *)
EmergencyDisableUnlocked ==
    /\ phase' = "Idle"
    /\ \E r \in ReleaseTracked(pressed, down, output_modifiers) :
          /\ pressed' = r.pressed
          /\ down' = r.down
    /\ UNCHANGED <<trigger, output_modifiers, call, thread, status, session, physical>>

(* emergency_disable, reconcile for a display change or a resume, and the  *)
(* same call inside stop.                                                  *)
EmergencyDisable ==
    /\ ResetShared
    /\ UNCHANGED <<thread, status, session, physical>>

(* Windows tells the app of a lock and of an unlock, and it reconciles.    *)
Reconcile ==
    /\ session # "here"
    /\ ResetShared
    /\ session' = IF session = "back" THEN "here" ELSE session
    /\ UNCHANGED <<thread, status, physical>>

(* The watchdog and restart_hook ask only a Running engine.                *)
PostReinstall ==
    /\ status = "Running"
    /\ posted' = TRUE
    /\ UNCHANGED <<shared, call, pump, hook, status, session, physical, down>>

---------------------------------------------------------------------------
(* The hook thread outside the callback.                                   *)

(* start does not reset the machine: it relies on the last exit having     *)
(* done so.                                                                *)
StartHookThread ==
    /\ pump = "down"
    /\ pump' = "starting"
    /\ status' = "Starting"
    /\ UNCHANGED <<shared, call, hook, posted, session, physical, down>>

InstallHook ==
    /\ pump = "starting"
    /\ pump' = "up"
    /\ hook' = "attached"
    /\ status' = "Running"
    /\ UNCHANGED <<shared, call, posted, session, physical, down>>

InstallFails ==
    /\ "install" \in Faults
    /\ pump \in {"starting", "reinstalling"}
    /\ pump' = "exiting"
    /\ status' = "Failed"
    /\ UNCHANGED <<shared, call, hook, posted, session, physical, down>>

(* reinstall_hook: a request that is not forced is dropped when the hook   *)
(* beat again after it was posted.                                         *)
DropReinstall ==
    /\ pump = "up"
    /\ call = NoCall
    /\ posted
    /\ posted' = FALSE
    /\ UNCHANGED <<shared, call, pump, hook, status, session, physical, down>>

ReinstallUnhook ==
    /\ pump = "up"
    /\ call = NoCall
    /\ posted
    /\ posted' = FALSE
    /\ pump' = "unhooked"
    /\ hook' = "detached"
    /\ UNCHANGED <<shared, call, status, session, physical, down>>

(* Seeded fault: the hook is installed again over the old machine state.   *)
ReinstallKeepsState ==
    /\ pump = "unhooked"
    /\ pump' = "reinstalling"
    /\ UNCHANGED <<shared, call, hook, posted, status, session, physical, down>>

ReinstallReset ==
    /\ pump = "unhooked"
    /\ ResetShared
    /\ pump' = "reinstalling"
    /\ UNCHANGED <<hook, posted, status, session, physical>>

(* The status is left as it is: a callback may have failed it meanwhile.   *)
ReinstallHook ==
    /\ pump = "reinstalling"
    /\ pump' = "up"
    /\ hook' = "attached"
    /\ UNCHANGED <<shared, call, status, posted, session, physical, down>>

(* stop, WM_QUIT or a failed GetMessage ends the pump; the hook goes with  *)
(* it and hook_thread_main resets the shared state.  The thread is then    *)
(* Stopped if that was asked for, and Failed if not.                       *)
PumpEnds ==
    /\ pump = "up"
    /\ call = NoCall
    /\ pump' = "exiting"
    /\ hook' = "detached"
    /\ UNCHANGED <<shared, call, status, posted, session, physical, down>>

HookThreadExits ==
    /\ pump = "exiting"
    /\ ResetShared
    /\ pump' = "down"
    /\ posted' = FALSE
    /\ status' \in {"Stopped", "Failed"}
    /\ UNCHANGED <<hook, session, physical>>

---------------------------------------------------------------------------

KeyEvent(k, transition) ==
    \/ UnhookedEvent(k, transition)
    \/ ForwardEvent(k, transition)
    \/ SuppressEvent(k, transition)
    \/ BeginSend(k, transition)
    \/ NestedEvent(k, transition)
    \/ CallbackPanics(k, transition)

FinishSend ==
    \/ SendPress
    \/ SendRelease
    \/ SendReplay
    \/ ForwardPressed
    \/ SwallowSent
    \/ SwallowRejected

HookThread ==
    \/ StartHookThread
    \/ InstallHook
    \/ InstallFails
    \/ DropReinstall
    \/ ReinstallUnhook
    \/ ReinstallReset
    \/ ReinstallHook
    \/ PumpEnds
    \/ HookThreadExits

Next ==
    \/ \E k \in Keys, transition \in Transitions : KeyEvent(k, transition)
    \/ FinishSend
    \/ SendPanics
    \/ HookRemoved
    \/ Lock
    \/ Unlock
    \/ \E t \in TriggerKeys, ms \in ModifierLists : Configure(t, ms)
    \/ EmergencyDisable
    \/ Reconcile
    \/ PostReinstall
    \/ HookThread

Spec == Init /\ [][Next]_vars

(* A callback inside SendInput returns, the hook thread runs, and the      *)
(* watchdog keeps asking while the hook is gone.  A queued request is not  *)
(* dropped for ever then: without the hook there is no new heartbeat.  The *)
(* app handles the notice of a lock and of an unlock.                      *)
Fairness ==
    /\ WF_vars(FinishSend)
    /\ WF_vars(Reconcile)
    /\ WF_vars(hook = "detached" /\ PostReinstall)
    /\ SF_vars(hook = "detached" /\ ReinstallUnhook)
    /\ WF_vars(ReinstallReset)
    /\ WF_vars(ReinstallHook)
    /\ WF_vars(HookThreadExits)

FairSpec == Spec /\ Fairness

---------------------------------------------------------------------------
(* Properties.                                                             *)

(* The tracked set is the whole layer while the layer is active and empty  *)
(* otherwise, also across rejected sends, resets and reconfiguration; only *)
(* until the send of a callback takes effect does it lag behind the phase. *)
LayerTracked ==
    pressed = IF \/ call = NoCall /\ phase = "HyperActive"
                 \/ InCall("PressAndForward", "sent")
                 \/ InCall("ReleaseAndSuppress", "send")
              THEN Configured
              ELSE {}

(* When the callback forwards the key that activates the layer, every      *)
(* configured modifier is down, except those the user himself let go of,   *)
(* in nested events, since the send: no control call, reset, reinstall or  *)
(* rebinding of another thread comes between the send and the forward, and *)
(* a send that Windows cut short is never followed by the forward.         *)
ChordCarriesLayer ==
    [][/\ InCall("PressAndForward", "sent")
       /\ hook = "attached"
       /\ call' = NoCall
       => Configured \ call.let_go \subseteq down']_vars

(* No modifier stays down in the system unless the layer tracks it or the  *)
(* user holds it: the worst failure CONTRIBUTING.md names.  Assumes that   *)
(* sends are accepted and no event is nested.                              *)
NoStuckModifier == down \cap Modifiers \subseteq pressed \cup physical

(* A key that is never the trigger is not left down after the user lets go *)
(* of it, whatever the machine, the hook and the control calls do.         *)
NoStuckOrdinary == down \cap OrdinaryKeys \subseteq physical

(* With the hook attached, the machine leaves Idle only while the trigger  *)
(* is physically held: every way of losing sight of the trigger (removal,  *)
(* reinstall, exit, rebinding, the lock screen) resets the machine before  *)
(* events are relied on again.                                             *)
LayerNeedsTrigger ==
    hook = "attached" /\ session = "here" /\ phase # "Idle" => trigger \in physical

(* While the hook stays attached and the session is not locked the system  *)
(* never sees the trigger go down; a tap is only ever seen as a complete   *)
(* replay.                                                                 *)
TriggerHidden ==
    [][/\ hook = "attached" /\ hook' = "attached"
       /\ session # "away"
       /\ trigger' = trigger
       /\ trigger \in down'
       => trigger \in down]_vars

(* A layer whose trigger the user has let go of is released in the end,    *)
(* even when Windows removed the hook, or the release happened on the lock *)
(* screen, and was never seen.                                             *)
LayerReleased ==
    (pressed # {} /\ trigger \notin physical)
        ~> (pressed = {} \/ trigger \in physical)

(* The generated modifiers keep the promise of ModifierLayer.              *)
Layer == INSTANCE ModifierLayer WITH
            Layers <- {Members(ms) : ms \in ModifierLists},
            held <- pressed,
            config <- Configured,
            user <- IF session # "here" THEN "unknown"
                    ELSE IF trigger \in physical THEN "holding" ELSE "away",
            rising <- InCall("PressAndForward", "send"),
            hook <- hook

ImplementsLayer == Layer!Spec

(* engine.rs on suppressing the trigger's Up: "The physical key-down was   *)
(* already suppressed".  If so, no trigger key can stay down once the      *)
(* callback is done.                                                       *)
NoStuckTrigger == call = NoCall => down \cap TriggerKeys \subseteq physical
=============================================================================
