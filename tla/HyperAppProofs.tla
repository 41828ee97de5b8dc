--------------------------- MODULE HyperAppProofs ---------------------------
(***************************************************************************)
(* Proofs about HyperApp, for any keys, modifiers, first settings and      *)
(* number of messages, whatever effect fails and whenever the process is   *)
(* killed.                                                                 *)
(***************************************************************************)
EXTENDS HyperApp, TLAPS

(* Everything but the engine.                                              *)
app == <<step, todo, settings, configured, shown, diagnostic_message, flags,
         disk, user>>

---------------------------------------------------------------------------
(* Type correctness.                                                       *)

(* The fields of a settings value.                                         *)
LEMMA SettingsFields ==
    \A s \in Settings : s.enabled \in BOOLEAN /\ s.launch_at_startup \in BOOLEAN
  BY DEF Settings

LEMMA InitTypes == Init => TypeOK
<1> SUFFICES ASSUME Init
             PROVE  TypeOK
  OBVIOUS
<1>1. file \in Settings
  BY FirstSettingsAssumption DEF Init
<1>2. /\ configured \in {InputOf(s) : s \in Settings} /\ wanted \in BOOLEAN
      /\ settings \in Settings
  BY FirstSettingsAssumption, SettingsFields DEF Init
<1>3. EngineTypeOK
  BY DEF Init, EngineInit, EngineTypeOK, Calls, EngineStatuses
<1>4. budget \in 0..MaxMessages
  BY MaxMessagesAssumption DEF Init
<1> QED  BY <1>1, <1>2, <1>3, <1>4 DEF Init, TypeOK, EngineStatuses, Steps

(* What the engine does is what EngineLayer lets it do.                    *)
LEMMA EngineTypes == EngineTypeOK /\ [EngineNext]_engine => EngineTypeOK'
<1> SUFFICES ASSUME EngineTypeOK, [EngineNext]_engine
             PROVE  EngineTypeOK'
  OBVIOUS
<1> USE DEF EngineTypeOK, Calls, EngineStatuses
<1>1. CASE UNCHANGED engine
  BY <1>1 DEF engine
<1>2. CASE StartCall \/ StartRefused \/ StartReturns \/ StopCall
  BY <1>2 DEF StartCall, StartRefused, StartReturns, StopCall
<1>3. CASE StopReturns \/ UndoReturns
  BY <1>3 DEF StopReturns, UndoReturns
<1>4. CASE EngineMoves
  BY <1>4 DEF EngineMoves, HookInstalled, HookFails, StartGivesUp, StartUndone,
              UndoneFails, StopRequested, StopSettles, StopGivesUp, LateRunning
<1> QED  BY <1>1, <1>2, <1>3, <1>4 DEF EngineNext

(* The effects that leave the engine alone.                                *)
LEMMA EffectTypes ==
    ASSUME TypeOK,
           \/ Launch \/ BootLoad \/ BootRegister \/ BootTray
           \/ SaveSettings \/ ApplyStartup \/ ConfigureEngine
           \/ FinishUpdate \/ Tick \/ KeyReleased \/ OutsideWrites
    PROVE  TypeOK'
<1> USE DEF TypeOK, EngineTypeOK, engine, shown, flags, disk, user
<1>1. CASE Launch
  BY <1>1 DEF Launch, Steps
<1>2. CASE BootRegister
  BY <1>2, SettingsFields DEF BootRegister, RunValueFollows, Steps
<1>3. CASE BootTray
  <2>1. tray' \in BOOLEAN \cup {NoTray}
    BY <1>3 DEF BootTray
  <2>2. diagnostic_message' \in {"none", "failed", "note"}
    BY <1>3 DEF BootTray
  <2> QED  BY <1>3, <2>1, <2>2 DEF BootTray, Steps
<1>4. CASE SaveSettings
  <2>1. file' \in Settings /\ settings' = settings /\ banner' \in BOOLEAN
    BY <1>4 DEF SaveSettings, Store!Commit, Store!Refuse
  <2> QED  BY <1>4, <2>1 DEF SaveSettings
<1>5. CASE ApplyStartup
  BY <1>5, SettingsFields DEF ApplyStartup, RunValueFollows
<1>6. CASE ConfigureEngine
  BY <1>6 DEF ConfigureEngine
<1>7. CASE FinishUpdate
  BY <1>7 DEF FinishUpdate, RefreshTray, Steps
<1>8. CASE Tick
  BY <1>8 DEF Tick, RefreshTray
<1>9. CASE KeyReleased
  BY <1>9 DEF KeyReleased
<1>10. CASE BootLoad
  <2>1. settings' \in Settings /\ file' \in Settings /\ banner' \in BOOLEAN
    BY <1>10, FirstSettingsAssumption DEF BootLoad, Store!Load, Store!LoadFails
  <2>2. configured' \in {InputOf(s) : s \in Settings} /\ wanted' \in BOOLEAN
    BY <1>10, <2>1, SettingsFields DEF BootLoad
  <2> QED  BY <1>10, <2>1, <2>2 DEF BootLoad, Steps
<1>11. CASE OutsideWrites
  BY <1>11 DEF OutsideWrites, Store!OutsideWrites
<1> QED
  BY <1>1, <1>2, <1>3, <1>4, <1>5, <1>6, <1>7, <1>8, <1>9, <1>10, <1>11

(* A change of the settings.                                               *)
LEMMA UpdateTypes ==
    ASSUME TypeOK, NEW new_settings \in Settings, NEW persist \in SUBSET {"save"},
           UpdateSettings(new_settings, persist),
           held' \in Triggers \cup {NoKey}, wanted' \in BOOLEAN,
           budget' \in 0..MaxMessages
    PROVE  TypeOK'
  BY DEF TypeOK, EngineTypeOK, UpdateSettings, Changes, Effects, Steps,
         engine, shown, flags, disk

(* A message costs one of the user's budget.                               *)
LEMMA BudgetTypes == TypeOK /\ UserActs => budget' \in 0..MaxMessages
  BY MaxMessagesAssumption DEF TypeOK, UserActs

LEMMA MessageTypes == TypeOK /\ (UserMessage \/ DropState) => TypeOK'
<1> SUFFICES ASSUME TypeOK, UserMessage \/ DropState
             PROVE  TypeOK'
  OBVIOUS
<1>1. ASSUME NEW b \in BOOLEAN, EnabledToggled(b) \/ LaunchAtStartupToggled(b)
      PROVE  TypeOK'
  <2>1. [settings EXCEPT !.enabled = b] \in Settings
        /\ [settings EXCEPT !.launch_at_startup = b] \in Settings
    BY DEF TypeOK, Settings
  <2> QED
    BY <1>1, <2>1, BudgetTypes, UpdateTypes
       DEF EnabledToggled, LaunchAtStartupToggled, TypeOK
<1>2. ASSUME NEW m \in OutputModifiers, NEW b \in BOOLEAN, ModifierToggled(m, b)
      PROVE  TypeOK'
  <2> DEFINE modifiers == IF b THEN settings.output_modifiers \cup {m}
                               ELSE settings.output_modifiers \ {m}
  <2>1. modifiers \in (SUBSET OutputModifiers) \ {{}}
    <3>1. settings.output_modifiers \subseteq OutputModifiers
      BY DEF TypeOK, Settings
    <3>2. modifiers # {}
      BY <1>2 DEF ModifierToggled
    <3>3. modifiers \subseteq OutputModifiers
      BY <3>1
    <3> QED  BY <3>2, <3>3
  <2>2. [settings EXCEPT !.output_modifiers = modifiers] \in Settings
    BY <2>1 DEF TypeOK, Settings
  <2> QED  BY <1>2, <2>2, BudgetTypes, UpdateTypes DEF ModifierToggled, TypeOK
<1>3. CASE LaunchToTrayToggled \/ EmergencyDisable
  <2>1. [settings EXCEPT !.enabled = FALSE] \in Settings /\ settings \in Settings
    BY DEF TypeOK, Settings
  <2> QED
    BY <1>3, <2>1, BudgetTypes, UpdateTypes
       DEF LaunchToTrayToggled, EmergencyDisable, TypeOK
<1>4. CASE StartTriggerCapture \/ CancelCapture
  BY <1>4, BudgetTypes
     DEF StartTriggerCapture, CancelCapture, TypeOK, EngineTypeOK, engine, shown,
         flags, disk
<1>5. ASSUME NEW k \in Triggers, ActivateCapture(k)
      PROVE  TypeOK'
  BY <1>5, BudgetTypes
     DEF ActivateCapture, TypeOK, EngineTypeOK, engine, shown, flags, disk
<1>6. ASSUME NEW k \in Triggers, CaptureTriggerKey(k)
      PROVE  TypeOK'
  <2>1. CASE UpdateSettings([settings EXCEPT !.trigger = k], {"save"})
    <3>1. [settings EXCEPT !.trigger = k] \in Settings
      BY DEF TypeOK, Settings
    <3> QED  BY <1>6, <2>1, <3>1, BudgetTypes, UpdateTypes DEF CaptureTriggerKey, TypeOK
  <2>2. CASE UNCHANGED <<engine, step, todo, settings, configured, shown,
                         diagnostic_message, flags, disk>>
    BY <1>6, <2>2, BudgetTypes
       DEF CaptureTriggerKey, TypeOK, EngineTypeOK, engine, shown, flags, disk
  <2> QED  BY <1>6, <2>1, <2>2 DEF CaptureTriggerKey
<1>7. CASE RestartHookOnly
  BY <1>7, BudgetTypes
     DEF RestartHookOnly, TypeOK, EngineTypeOK, engine, shown, flags, disk
<1>8. CASE RestartEngine \/ Quit \/ DropState
  <2>1. EngineTypeOK' /\ step' \in Steps
    BY <1>8, EngineTypes DEF RestartEngine, Quit, DropState, EngineNext, TypeOK, Steps
  <2>2. CASE RestartEngine
    BY <2>1, <2>2, BudgetTypes DEF RestartEngine, TypeOK, shown, flags, disk
  <2>3. CASE Quit
    BY <2>1, <2>3, BudgetTypes DEF Quit, TypeOK, shown, disk
  <2>4. CASE DropState
    BY <2>1, <2>4 DEF DropState, TypeOK, shown, flags, disk, user
  <2> QED  BY <1>8, <2>2, <2>3, <2>4
<1> QED
  BY <1>1, <1>2, <1>3, <1>4, <1>5, <1>6, <1>7, <1>8 DEF UserMessage

(* A call that begins, or returns, and the end of the process.             *)
LEMMA CallTypes ==
    ASSUME TypeOK,
           \/ BootStart \/ BootStarted \/ StartEngine \/ EngineStarted
           \/ StopEngine \/ EngineStopped \/ RestartStopped \/ RestartStart
           \/ RestartStarted \/ QuitStopped \/ Exit \/ Killed
    PROVE  TypeOK'
<1> USE DEF shown, flags, disk, user
<1>1. ASSUME NEW waiting \in Steps, NEW done \in Steps, NEW success \in {"none", "note"},
             Start(waiting, done, success)
      PROVE  /\ EngineTypeOK' /\ step' \in Steps
             /\ diagnostic_message' \in {"none", "failed", "note"}
  <2>1. EngineTypeOK'
    BY <1>1, EngineTypes DEF Start, StartIgnored, EngineNext, TypeOK
  <2>2. step' \in Steps /\ diagnostic_message' \in {"none", "failed", "note"}
    BY <1>1 DEF Start, Report, TypeOK
  <2> QED  BY <2>1, <2>2
<1>2. CallReturns => EngineTypeOK'
  BY EngineTypes DEF CallReturns, EngineNext, TypeOK
<1>3. StopCall => EngineTypeOK'
  BY EngineTypes DEF EngineNext, TypeOK
<1>4. CASE BootStart
  <2>1. CASE settings.enabled
    BY <1>1, <1>4, <2>1 DEF BootStart, Steps, TypeOK
  <2>2. CASE ~settings.enabled
    BY <1>4, <2>2 DEF BootStart, Steps, TypeOK, engine, EngineTypeOK
  <2> QED  BY <2>1, <2>2
<1>5. CASE StartEngine
  BY <1>1, <1>5 DEF StartEngine, Steps, TypeOK
<1>6. CASE RestartStart
  BY <1>1, <1>6 DEF RestartStart, Steps, TypeOK
<1>7. CASE BootStarted \/ EngineStarted \/ EngineStopped \/ RestartStopped \/ RestartStarted
  BY <1>2, <1>7
     DEF BootStarted, EngineStarted, EngineStopped, RestartStopped,
         RestartStarted, Report, Steps, TypeOK
<1>8. CASE QuitStopped
  BY <1>2, <1>8 DEF QuitStopped, Steps, TypeOK
<1>9. CASE StopEngine
  BY <1>3, <1>9 DEF StopEngine, Steps, TypeOK
<1>10. CASE ProcessGone
  BY <1>10, FirstSettingsAssumption
     DEF ProcessGone, TypeOK, EngineTypeOK, Calls, EngineStatuses, Effects, Steps
<1> QED
  BY <1>4, <1>5, <1>6, <1>7, <1>8, <1>9, <1>10 DEF Exit, Killed

LEMMA NextTypes == TypeOK /\ [Next]_vars => TypeOK'
<1>1. TypeOK /\ EngineAlone(EngineMoves) => TypeOK'
  <2> SUFFICES ASSUME TypeOK, EngineAlone(EngineMoves)
               PROVE  TypeOK'
    OBVIOUS
  <2>1. EngineTypeOK'
    BY EngineTypes DEF EngineAlone, EngineNext, TypeOK
  <2> QED  BY <2>1 DEF EngineAlone, TypeOK, shown, flags, disk, user
<1>2. TypeOK /\ UNCHANGED vars => TypeOK'
  BY DEF TypeOK, EngineTypeOK, vars, engine, shown, flags, disk, user
<1> QED
  BY <1>1, <1>2, EffectTypes, MessageTypes, CallTypes DEF Next, AppStep, AppReturns

(* Type correctness: the settings in memory and in the file are always     *)
(* values settings.rs accepts, with a trigger of the allowlist and at      *)
(* least one modifier.                                                     *)
THEOREM AppTypeCorrect == Spec => []TypeOK
  BY InitTypes, NextTypes, PTL DEF Spec

---------------------------------------------------------------------------
(* Memory against the engine's configuration and the registration.         *)

(* What is not yet configured is still to do.                              *)
CInv ==
    step \notin {"down", "boot_load"} =>
       \/ configured = InputOf(settings)
       \/ step = "update" /\ "configure" \in todo

(* What is not yet registered is still to do, or has been reported.        *)
RInv ==
    step \notin {"down", "boot_load", "boot_register"} /\ ~startup_error =>
       \/ registry = settings.launch_at_startup
       \/ step = "update" /\ "register" \in todo

Apart == CInv /\ RInv

(* A step that neither begins nor carries out a change of the settings.    *)
LEMMA QuietKeepsApart ==
    ASSUME Apart,
           step \notin {"down", "boot_load", "boot_register"},
           step = "update" => todo = {},
           step' \notin {"boot_register", "update"},
           UNCHANGED <<settings, configured, registry, startup_error>>
    PROVE  Apart'
  BY DEF Apart, CInv, RInv, InputOf

LEMMA UpdateKeepsApart ==
    ASSUME Apart, NEW new_settings, NEW persist,
           step = "idle", UpdateSettings(new_settings, persist)
    PROVE  Apart'
<1>1. configured = InputOf(settings)
      /\ (~startup_error => registry = settings.launch_at_startup)
  BY DEF Apart, CInv, RInv
<1>2. /\ "configure" \in todo' \/ InputOf(new_settings) = InputOf(settings)
      /\ "register" \in todo'
           \/ new_settings.launch_at_startup = settings.launch_at_startup
  BY DEF UpdateSettings, Changes
<1>3. step' = "update" /\ settings' = new_settings /\ InputOf(settings)' = InputOf(new_settings)
      /\ UNCHANGED <<configured, registry, startup_error>>
  BY DEF UpdateSettings, flags, disk, InputOf
<1> QED  BY <1>1, <1>2, <1>3 DEF Apart, CInv, RInv

LEMMA EffectsKeepApart ==
    ASSUME TypeOK, Apart,
           \/ Launch \/ BootLoad \/ BootRegister \/ SaveSettings
           \/ ApplyStartup \/ ConfigureEngine \/ OutsideWrites
    PROVE  Apart'
<1> USE DEF Apart, CInv, RInv, InputOf, shown, flags, disk, user
<1>1. CASE Launch
  BY <1>1 DEF Launch
<1>2. CASE BootRegister
  BY <1>2 DEF BootRegister, RunValueFollows
<1>3. CASE SaveSettings
  BY <1>3 DEF SaveSettings, Store!Commit, Store!Refuse
<1>4. CASE ApplyStartup
  BY <1>4 DEF ApplyStartup, RunValueFollows
<1>5. CASE ConfigureEngine
  BY <1>5 DEF ConfigureEngine
<1>6. CASE BootLoad
  BY <1>6 DEF BootLoad
<1>7. CASE OutsideWrites
  <2>1. step = "down" /\ step' = "down"
    BY <1>7 DEF OutsideWrites, Store!OutsideWrites, FilePhase
  <2> QED  BY <2>1
<1> QED  BY <1>1, <1>2, <1>3, <1>4, <1>5, <1>6, <1>7

LEMMA MessagesKeepApart == Apart /\ UserMessage => Apart'
<1> SUFFICES ASSUME Apart, UserMessage
             PROVE  Apart'
  OBVIOUS
<1>1. step = "idle"
  BY DEF UserMessage, UserActs, EnabledToggled, LaunchAtStartupToggled,
         ModifierToggled, LaunchToTrayToggled, EmergencyDisable,
         StartTriggerCapture, CancelCapture, ActivateCapture, CaptureTriggerKey,
         RestartHookOnly, RestartEngine, Quit
<1>2. \/ \E s, persist : UpdateSettings(s, persist)
      \/ /\ step' \in {"idle", "restart_stop", "quit_stop"}
         /\ UNCHANGED <<settings, configured, registry, startup_error>>
  <2>1. CASE \E b \in BOOLEAN : EnabledToggled(b) \/ LaunchAtStartupToggled(b)
    BY <2>1 DEF EnabledToggled, LaunchAtStartupToggled
  <2>2. CASE \E m \in OutputModifiers, b \in BOOLEAN : ModifierToggled(m, b)
    BY <2>2 DEF ModifierToggled
  <2>3. CASE LaunchToTrayToggled \/ EmergencyDisable
    BY <2>3 DEF LaunchToTrayToggled, EmergencyDisable
  <2>4. CASE \E k \in Triggers : CaptureTriggerKey(k)
    BY <1>1, <2>4 DEF CaptureTriggerKey, flags, disk
  <2>5. CASE StartTriggerCapture \/ CancelCapture \/ \E k \in Triggers : ActivateCapture(k)
    BY <1>1, <2>5 DEF StartTriggerCapture, CancelCapture, ActivateCapture, disk
  <2>6. CASE RestartHookOnly \/ RestartEngine \/ Quit
    BY <1>1, <2>6 DEF RestartHookOnly, RestartEngine, Quit, flags, disk
  <2> QED  BY <2>1, <2>2, <2>3, <2>4, <2>5, <2>6 DEF UserMessage
<1> QED  BY <1>1, <1>2, UpdateKeepsApart, QuietKeepsApart

LEMMA NextKeepsApart == TypeOK /\ Apart /\ [Next]_vars => Apart'
<1> SUFFICES ASSUME TypeOK, Apart, [Next]_vars
             PROVE  Apart'
  OBVIOUS
<1> USE DEF shown, flags, disk, user
<1>1. CASE BootStart \/ BootStarted \/ BootTray
  BY <1>1, QuietKeepsApart DEF BootStart, BootStarted, BootTray, Start
<1>2. CASE StartEngine \/ StopEngine
  BY <1>2, QuietKeepsApart DEF StartEngine, StopEngine, Start
<1>3. CASE EngineStarted \/ EngineStopped \/ FinishUpdate
  BY <1>3, QuietKeepsApart DEF EngineStarted, EngineStopped, FinishUpdate
<1>4. CASE RestartStopped \/ RestartStart \/ RestartStarted
  BY <1>4, QuietKeepsApart DEF RestartStopped, RestartStart, RestartStarted, Start
<1>5. CASE QuitStopped \/ DropState \/ Tick \/ KeyReleased
  BY <1>5, QuietKeepsApart DEF QuitStopped, DropState, Tick, KeyReleased
<1>6. CASE ProcessGone
  BY <1>6 DEF ProcessGone, Apart, CInv, RInv
<1>7. CASE EngineAlone(EngineMoves) \/ UNCHANGED vars
  BY <1>7 DEF EngineAlone, vars, Apart, CInv, RInv, InputOf
<1> QED
  BY <1>1, <1>2, <1>3, <1>4, <1>5, <1>6, <1>7, EffectsKeepApart, MessagesKeepApart
     DEF Next, AppStep, AppReturns, Exit, Killed

LEMMA ApartInvariant == Spec => []Apart
<1>1. Init => Apart
  BY DEF Init, Apart, CInv, RInv
<1> QED  BY <1>1, AppTypeCorrect, NextKeepsApart, PTL DEF Spec

(* Between two messages the engine's configuration is that of the settings,*)
(* also after a kill between the change of one and of the other.           *)
THEOREM SettingsReachEngine == Spec => []ConfiguredAsSet
<1>1. Apart => ConfiguredAsSet
  BY DEF Apart, CInv, ConfiguredAsSet
<1> QED  BY <1>1, ApartInvariant, PTL

(* Between two messages the Run value is as the settings say, or the window*)
(* reports that it is not.                                                 *)
THEOREM RegistrationFollows == Spec => []RegistryFollows
<1>1. Apart => RegistryFollows
  BY DEF Apart, RInv, RegistryFollows
<1> QED  BY <1>1, ApartInvariant, PTL

---------------------------------------------------------------------------
(* Settings against the status of the engine.                              *)

Waits == {"boot_wait", "start_wait", "restart_wait"}

StopWaits == {"stop_wait", "restart_stop", "quit_stop", "drop"}

(* The call in progress is the one the event loop waits for.               *)
CallAsAwaited ==
    /\ step \notin Waits \cup StopWaits => call = "none"
    /\ step \in Waits => call \in {"starting", "undoing"} \/ late
    /\ step \in StopWaits => call = "stopping"

(* The event loop starts for enabled settings, and stops for the others.   *)
CallAsSet ==
    /\ step \in Waits \cup {"restart_stop", "restart_start"} => settings.enabled
    /\ step = "stop_wait" => ~settings.enabled
    /\ step = "quit_stop" => is_quitting

(* Until a wait of a call has expired, what a finished call leaves stays.  *)
StatusAsLeft ==
    late
    \/ /\ step \in {"down", "boot_load", "boot_register", "boot_start",
                      "restart_start"}
              => status = "Stopped"
       /\ step \in {"boot_tray", "refresh", "idle"} /\ ~settings.enabled
              => status = "Stopped"
       /\ step \in {"boot_tray", "refresh"} /\ settings.enabled
              => status \in {"Running", "Failed"}
       /\ step = "idle" /\ ~is_quitting /\ settings.enabled
              => status \in {"Running", "Failed"}

EInv == CallAsAwaited /\ CallAsSet /\ StatusAsLeft

(* What a start that returned at once leaves, or what it waits in.         *)
LEMMA StartLeaves ==
    ASSUME NEW waiting, NEW done, NEW success, call = "none",
           Start(waiting, done, success)
    PROVE  \/ step' = waiting /\ call' = "starting" /\ late' = late
           \/ /\ step' = done /\ call' = "none" /\ late' = late
              /\ status' \in {"Running", "Failed"}
  BY DEF Start, StartCall, StartRefused, StartIgnored, engine

(* What a call that returns leaves.                                        *)
LEMMA ReturnLeaves ==
    ASSUME EInv, CallReturns
    PROVE  /\ call' = "none" /\ late' = late
           /\ step \in Waits => late \/ status' \in {"Running", "Failed"}
           /\ step \in StopWaits => late \/ status' = "Stopped"
  BY DEF EInv, CallAsAwaited, Waits, StopWaits, CallReturns, StartReturns,
         StopReturns, StopDone, UndoReturns, LateEnd

(* A step of the event loop that calls nothing and keeps `enabled`.        *)
LEMMA SameKeepsE ==
    ASSUME EInv, UNCHANGED engine, settings'.enabled = settings.enabled,
           is_quitting' = is_quitting,
           \/ step' = step
           \/ step \in {"boot_tray", "refresh"} /\ step' = "idle"
           \/ step = "boot_register" /\ step' = "boot_start"
    PROVE  EInv'
  BY DEF EInv, CallAsAwaited, CallAsSet, StatusAsLeft, Waits, StopWaits, engine

LEMMA MessagesKeepE == TypeOK /\ EInv /\ (UserMessage \/ KeyReleased \/ Tick) => EInv'
<1> SUFFICES ASSUME TypeOK, EInv, UserMessage \/ KeyReleased \/ Tick
             PROVE  EInv'
  OBVIOUS
<1> USE DEF shown, flags, disk, user
<1>1. step = "idle"
  BY DEF UserMessage, UserActs, EnabledToggled, LaunchAtStartupToggled,
         ModifierToggled, LaunchToTrayToggled, EmergencyDisable,
         StartTriggerCapture, CancelCapture, ActivateCapture, CaptureTriggerKey,
         RestartHookOnly, RestartEngine, Quit, KeyReleased, Tick
<1>2. \/ \E s, persist : UpdateSettings(s, persist)
      \/ UNCHANGED <<engine, step, settings, is_quitting>>
      \/ RestartEngine
      \/ Quit
  <2>1. CASE \E b \in BOOLEAN : EnabledToggled(b) \/ LaunchAtStartupToggled(b)
    BY <2>1 DEF EnabledToggled, LaunchAtStartupToggled
  <2>2. CASE \E m \in OutputModifiers, b \in BOOLEAN : ModifierToggled(m, b)
    BY <2>2 DEF ModifierToggled
  <2>3. CASE LaunchToTrayToggled \/ EmergencyDisable
    BY <2>3 DEF LaunchToTrayToggled, EmergencyDisable
  <2>4. CASE \E k \in Triggers : CaptureTriggerKey(k) \/ ActivateCapture(k)
    BY <2>4 DEF CaptureTriggerKey, ActivateCapture
  <2>5. CASE StartTriggerCapture \/ CancelCapture \/ RestartHookOnly
    BY <2>5 DEF StartTriggerCapture, CancelCapture, RestartHookOnly
  <2>6. CASE KeyReleased \/ Tick
    BY <2>6 DEF KeyReleased, Tick
  <2> QED  BY <2>1, <2>2, <2>3, <2>4, <2>5, <2>6 DEF UserMessage
<1>3. CASE \E s, persist : UpdateSettings(s, persist)
  BY <1>1, <1>3
     DEF UpdateSettings, engine, EInv, CallAsAwaited, CallAsSet, StatusAsLeft,
         Waits, StopWaits
<1>4. CASE UNCHANGED <<engine, step, settings, is_quitting>>
  BY <1>4, SameKeepsE
<1>5. CASE RestartEngine \/ Quit
  BY <1>1, <1>5
     DEF RestartEngine, Quit, StopCall, EInv, CallAsAwaited, CallAsSet,
         StatusAsLeft, Waits, StopWaits
<1> QED  BY <1>2, <1>3, <1>4, <1>5

LEMMA CallsKeepE ==
    ASSUME EInv,
           \/ BootStart \/ BootStarted \/ StartEngine \/ EngineStarted
           \/ StopEngine \/ EngineStopped \/ RestartStopped \/ RestartStart
           \/ RestartStarted \/ QuitStopped \/ DropState \/ ProcessGone
    PROVE  EInv'
<1> USE DEF shown, flags, disk, user, EInv, CallAsAwaited, CallAsSet, StatusAsLeft,
            Waits, StopWaits
<1>1. CASE BootStart
  <2>1. call = "none"
    BY <1>1 DEF BootStart
  <2>2. CASE settings.enabled
    <3>1. Start("boot_wait", "boot_tray", "none")
      BY <1>1, <2>2 DEF BootStart
    <3> QED  BY <1>1, <2>1, <2>2, <3>1, StartLeaves DEF BootStart
  <2>3. CASE ~settings.enabled
    BY <1>1, <2>3 DEF BootStart, engine
  <2> QED  BY <2>2, <2>3
<1>2. CASE StartEngine
  <2>1. call = "none" /\ Start("start_wait", "refresh", "none")
    BY <1>2 DEF StartEngine
  <2> QED  BY <1>2, <2>1, StartLeaves DEF StartEngine
<1>3. CASE RestartStart
  <2>1. call = "none" /\ Start("restart_wait", "idle", "note")
    BY <1>3 DEF RestartStart
  <2> QED  BY <1>3, <2>1, StartLeaves DEF RestartStart
<1>4. CASE BootStarted
  BY <1>4, ReturnLeaves DEF BootStarted
<1>5. CASE EngineStarted
  BY <1>5, ReturnLeaves DEF EngineStarted
<1>6. CASE EngineStopped
  BY <1>6, ReturnLeaves DEF EngineStopped
<1>7. CASE RestartStopped
  BY <1>7, ReturnLeaves DEF RestartStopped
<1>8. CASE RestartStarted
  BY <1>8, ReturnLeaves DEF RestartStarted
<1>9. CASE QuitStopped
  BY <1>9, ReturnLeaves DEF QuitStopped
<1>10. CASE StopEngine \/ DropState
  BY <1>10 DEF StopEngine, DropState, StopCall
<1>11. CASE ProcessGone
  BY <1>11 DEF ProcessGone
<1> QED
  BY <1>1, <1>2, <1>3, <1>4, <1>5, <1>6, <1>7, <1>8, <1>9, <1>10, <1>11

(* What the engine does on its own disturbs no status a call left, unless  *)
(* a wait has expired, and ends no call.                                   *)
LEMMA EngineKeepsE == EInv /\ EngineAlone(EngineMoves) => EInv'
<1> SUFFICES ASSUME EInv, EngineAlone(EngineMoves)
             PROVE  EInv'
  OBVIOUS
<1>1. UNCHANGED <<step, settings, is_quitting>>
  BY DEF EngineAlone, flags
<1>2. CASE call = "none"
  <2>1. \/ late /\ late' /\ call' = "none"
        \/ /\ call' = "none" /\ late' = late
           /\ status # "Stopped" /\ status' = "Failed"
    BY <1>2 DEF EngineAlone, EngineMoves, HookInstalled, HookFails, StartGivesUp,
                StartUndone, UndoneFails, StopRequested, StopSettles, StopGivesUp,
                LateRunning, Ending
  <2> QED
    BY <1>1, <1>2, <2>1 DEF EInv, CallAsAwaited, CallAsSet, StatusAsLeft, Waits, StopWaits
<1>3. CASE call # "none"
  <2>1. step \in Waits \cup StopWaits
    BY <1>3 DEF EInv, CallAsAwaited
  <2>2. /\ late => late'
        /\ call = "stopping" => call' = "stopping"
        /\ call' \in {call, "undoing"} \/ late'
    BY DEF EngineAlone, EngineMoves, HookInstalled, HookFails, StartGivesUp,
           StartUndone, UndoneFails, StopRequested, StopSettles, StopGivesUp,
           LateRunning
  <2> QED
    BY <1>1, <2>1, <2>2 DEF EInv, CallAsAwaited, CallAsSet, StatusAsLeft, Waits, StopWaits
<1> QED  BY <1>2, <1>3

LEMMA NextKeepsE == TypeOK /\ EInv /\ [Next]_vars => EInv'
<1> SUFFICES ASSUME TypeOK, EInv, [Next]_vars
             PROVE  EInv'
  OBVIOUS
<1> USE DEF shown, flags, disk, user
<1>1. CASE Launch \/ BootLoad
  BY <1>1
     DEF Launch, BootLoad, engine, EInv, CallAsAwaited, CallAsSet, StatusAsLeft,
         Waits, StopWaits
<1>2. CASE BootRegister \/ BootTray \/ FinishUpdate
  BY <1>2, SameKeepsE DEF BootRegister, BootTray, FinishUpdate
<1>3. CASE SaveSettings \/ ApplyStartup \/ ConfigureEngine \/ OutsideWrites
  BY <1>3, SameKeepsE
     DEF SaveSettings, Store!Commit, Store!Refuse, ApplyStartup, ConfigureEngine,
         OutsideWrites, Store!OutsideWrites
<1>4. CASE UNCHANGED vars
  BY <1>4, SameKeepsE DEF vars
<1> QED
  BY <1>1, <1>2, <1>3, <1>4, MessagesKeepE, CallsKeepE, EngineKeepsE
     DEF Next, AppStep, AppReturns, Exit, Killed

(* Between two messages an engine that is not enabled is Stopped and an    *)
(* enabled one is Running or Failed, whatever the engine did in between,   *)
(* until a wait of a call expires or the application quits.                *)
THEOREM EngineFollows == Spec => []EngineFollowsEnabled
<1>1. Init => EInv
  BY DEF Init, EngineInit, EInv, CallAsAwaited, CallAsSet, StatusAsLeft, Waits, StopWaits
<1>2. EInv => EngineFollowsEnabled
  BY DEF EInv, StatusAsLeft, EngineFollowsEnabled
<1> QED  BY <1>1, <1>2, AppTypeCorrect, NextKeepsE, PTL DEF Spec

---------------------------------------------------------------------------
(* The event loop and the settings file.                                   *)

(* Effects are left only while a change is being applied, and the file is  *)
(* thus saved before anything else comes to it.                            *)
SInv == step # "update" => todo = {}

LEMMA NextSaves == SInv /\ [Next]_vars => SInv'
<1> SUFFICES ASSUME SInv, [Next]_vars
             PROVE  SInv'
  OBVIOUS
<1>1. CASE UserMessage \/ KeyReleased \/ Tick
  <2>1. step' = "update" \/ UNCHANGED todo
    BY <1>1 DEF UserMessage, EnabledToggled, LaunchAtStartupToggled, ModifierToggled,
           LaunchToTrayToggled, EmergencyDisable, StartTriggerCapture, CancelCapture,
           ActivateCapture, CaptureTriggerKey, RestartHookOnly, RestartEngine, Quit,
           KeyReleased, Tick, UpdateSettings
  <2>2. step = "idle"
    BY <1>1 DEF UserMessage, UserActs, EnabledToggled, LaunchAtStartupToggled,
           ModifierToggled, LaunchToTrayToggled, EmergencyDisable,
           StartTriggerCapture, CancelCapture, ActivateCapture, CaptureTriggerKey,
           RestartHookOnly, RestartEngine, Quit, KeyReleased, Tick
  <2> QED  BY <2>1, <2>2 DEF SInv
<1>2. CASE SaveSettings \/ ApplyStartup \/ ConfigureEngine
  BY <1>2 DEF SaveSettings, ApplyStartup, ConfigureEngine, SInv
<1>3. CASE StartEngine \/ StopEngine
  BY <1>3 DEF StartEngine, StopEngine, SInv
<1>4. CASE ProcessGone
  BY <1>4 DEF ProcessGone, SInv
<1>5. CASE Launch \/ BootLoad \/ BootRegister \/ BootStart \/ BootTray
           \/ FinishUpdate \/ RestartStart \/ DropState
  BY <1>5 DEF Launch, BootLoad, BootRegister, BootStart, BootTray, FinishUpdate,
         RestartStart, DropState, Start, SInv
<1>6. CASE BootStarted \/ EngineStarted \/ EngineStopped \/ RestartStopped
           \/ RestartStarted \/ QuitStopped
  BY <1>6 DEF BootStarted, EngineStarted, EngineStopped, RestartStopped,
         RestartStarted, QuitStopped, SInv
<1>7. CASE EngineAlone(EngineMoves) \/ OutsideWrites \/ UNCHANGED vars
  BY <1>7 DEF EngineAlone, OutsideWrites, vars, SInv
<1> QED
  BY <1>1, <1>2, <1>3, <1>4, <1>5, <1>6, <1>7
     DEF Next, AppStep, AppReturns, Exit, Killed

(* A step that touches neither the settings nor the file.                  *)
LEMMA QuietStep ==
    ASSUME UNCHANGED <<file, settings, banner, todo>>,
           \/ step' = step
           \/ {step, step'} \cap {"down", "boot_load"} = {}
    PROVE  UNCHANGED Store!vars
  BY DEF Store!vars, FilePhase

(* A change of the settings is to be saved, or is the emergency disable.   *)
LEMMA ChangeStep ==
    ASSUME SInv, step = "idle", NEW s, UpdateSettings(s, {"save"}), s \in Settings
    PROVE  Store!Next
<1>1. FilePhase = "idle"
  BY DEF SInv, FilePhase
<1>2. settings' \in Settings /\ UNCHANGED <<file, banner>> /\ FilePhase' = "saving"
  BY DEF UpdateSettings, disk, FilePhase
<1> QED  BY <1>1, <1>2 DEF Store!Next, Store!Change

LEMMA MessageStep ==
    ASSUME TypeOK, TypeOK', SInv, UserMessage
    PROVE  [Store!Next]_Store!vars
<1> USE DEF disk
<1>1. step = "idle"
  BY DEF UserMessage, UserActs, EnabledToggled, LaunchAtStartupToggled,
         ModifierToggled, LaunchToTrayToggled, EmergencyDisable,
         StartTriggerCapture, CancelCapture, ActivateCapture, CaptureTriggerKey,
         RestartHookOnly, RestartEngine, Quit
<1>2. ASSUME NEW s, UpdateSettings(s, {"save"})
      PROVE  Store!Next
  <2>1. s \in Settings
    BY <1>2 DEF UpdateSettings, TypeOK
  <2> QED  BY <1>1, <1>2, <2>1, ChangeStep
<1>3. CASE EmergencyDisable
  <2>1. FilePhase = "idle"
    BY <1>1 DEF SInv, FilePhase
  <2>2. /\ settings' = [settings EXCEPT !.enabled = FALSE]
        /\ UNCHANGED <<file, banner>>
        /\ FilePhase' = "idle"
    BY <1>3 DEF EmergencyDisable, UpdateSettings, Changes, FilePhase
  <2> QED  BY <2>1, <2>2 DEF Store!Next, Store!EmergencyDisable
<1>4. CASE RestartEngine \/ RestartHookOnly \/ Quit \/ StartTriggerCapture \/ CancelCapture
  BY <1>1, <1>4, QuietStep
     DEF RestartEngine, RestartHookOnly, Quit, StartTriggerCapture, CancelCapture
<1>5. ASSUME NEW k \in Triggers, ActivateCapture(k) \/ CaptureTriggerKey(k)
      PROVE  [Store!Next]_Store!vars
  <2>1. CASE UNCHANGED <<step, todo, settings, disk>>
    BY <2>1, QuietStep
  <2> QED  BY <1>2, <1>5, <2>1 DEF ActivateCapture, CaptureTriggerKey
<1>6. CASE \/ LaunchToTrayToggled
           \/ \E b \in BOOLEAN : EnabledToggled(b) \/ LaunchAtStartupToggled(b)
           \/ \E m \in OutputModifiers, b \in BOOLEAN : ModifierToggled(m, b)
  BY <1>2, <1>6
     DEF LaunchToTrayToggled, EnabledToggled, LaunchAtStartupToggled, ModifierToggled
<1> QED  BY <1>3, <1>4, <1>5, <1>6 DEF UserMessage

LEMMA StoreStep ==
    ASSUME TypeOK, TypeOK', SInv, [Next]_vars
    PROVE  [Store!Next]_Store!vars
<1> USE DEF disk
<1>1. CASE Launch
  BY <1>1 DEF Launch, FilePhase, Store!Next, Store!Launch
<1>2. CASE BootLoad
  <2>1. Store!Load \/ Store!LoadFails
    BY <1>2 DEF BootLoad
  <2> QED  BY <2>1 DEF Store!Next
<1>3. CASE SaveSettings
  <2>1. Store!Commit \/ Store!Refuse
    BY <1>3 DEF SaveSettings
  <2> QED  BY <2>1 DEF Store!Next
<1>4. CASE ApplyStartup \/ ConfigureEngine
  BY <1>4
     DEF ApplyStartup, ConfigureEngine, Store!vars, FilePhase
<1>5. CASE ProcessGone /\ step # "down"
  <2>1. FilePhase # "down" /\ FilePhase' = "down"
    BY <1>5 DEF ProcessGone, FilePhase
  <2> QED  BY <1>5, <2>1 DEF ProcessGone, Store!Next, Store!Killed
<1>6. CASE OutsideWrites
  BY <1>6 DEF OutsideWrites, Store!Next
<1>7. CASE BootRegister \/ BootStart \/ BootStarted \/ BootTray
  BY <1>7, QuietStep DEF BootRegister, BootStart, BootStarted, BootTray, Start
<1>8. CASE StartEngine \/ EngineStarted \/ StopEngine \/ EngineStopped \/ FinishUpdate
  BY <1>8, QuietStep
     DEF StartEngine, EngineStarted, StopEngine, EngineStopped, FinishUpdate, Start
<1>9. CASE RestartStopped \/ RestartStart \/ RestartStarted \/ QuitStopped \/ DropState
  BY <1>9, QuietStep
     DEF RestartStopped, RestartStart, RestartStarted, QuitStopped, DropState, Start
<1>10. CASE KeyReleased \/ Tick \/ EngineAlone(EngineMoves) \/ UNCHANGED vars
  BY <1>10, QuietStep DEF KeyReleased, Tick, EngineAlone, vars
<1> QED
  BY <1>1, <1>2, <1>3, <1>4, <1>5, <1>6, <1>7, <1>8, <1>9, <1>10, MessageStep
     DEF Next, AppStep, AppReturns, Exit, Killed

(* The event loop uses the settings file as SettingsFile lets it, whatever *)
(* the user and the engine do and wherever the process is killed: what     *)
(* SettingsStoreProofs shows of the store holds of it in the application.  *)
THEOREM AppKeepsToSettingsFile == Spec => KeepsToSettingsFile
<1>1. Init => Store!Init
  BY FirstSettingsAssumption DEF Init, Store!Init, FilePhase
<1>2. Init => SInv
  BY DEF Init, SInv
<1> QED
  BY <1>1, <1>2, AppTypeCorrect, NextSaves, StoreStep, PTL
     DEF Spec, KeepsToSettingsFile, Store!Spec
=============================================================================
