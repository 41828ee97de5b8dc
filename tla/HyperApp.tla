------------------------------ MODULE HyperApp ------------------------------
(***************************************************************************)
(* The event loop of hyperkey-app/src/main.rs: one thread that turns       *)
(* messages of the window, the tray and a timer into settings, and applies *)
(* each change to four places one after the other: the settings file, the  *)
(* startup registration, the engine's configuration and the engine itself. *)
(*                                                                         *)
(* A step is one of these effects.  Between two of them the engine, which  *)
(* moves as EngineLayer says, may change its status, an effect may fail,   *)
(* and the process may be killed and launched again.                       *)
(*                                                                         *)
(* The settings file loads and saves as SettingsFile says, which           *)
(* SettingsStore implements.  Windows and focus, the order of the          *)
(* modifiers and the wording of hints are left out.                        *)
(***************************************************************************)
EXTENDS EngineLayer, Naturals

CONSTANTS
    Triggers,           \* the keys TriggerKey::try_create accepts
    ActivationKeys,     \* those that activate the focused control
    OutputModifiers,
    FirstSettings,      \* what other programs may leave in the file
    DefaultSettings,    \* what a file that cannot be used is replaced by
    NoKey,              \* no key is held
    NoTray,             \* the tray icon is absent
    MaxMessages         \* bound on what the user does

ASSUME KeysAssumption == ActivationKeys \subseteq Triggers /\ NoKey \notin Triggers

ASSUME NoTrayAssumption == NoTray \notin BOOLEAN

ASSUME MaxMessagesAssumption == MaxMessages \in Nat

VARIABLES
    step,                   \* where the event loop is, or "down"
    todo,                   \* effects update_settings has still to apply
    settings,
    configured,             \* the input configuration of the engine
    last_engine_status,
    tray,                   \* the icon: accent (TRUE), muted, or NoTray
    diagnostic_message,
    startup_error,
    capturing_trigger,
    is_quitting,
    file,                   \* what the next launch will use of settings.json
    banner,                 \* the window shows a message of the store
    registry,               \* the Run value exists
    held,                   \* the key Windows repeats
    wanted,                 \* the user's last choice of `enabled`
    budget                  \* what the user may still do

shown == <<last_engine_status, tray>>
flags == <<startup_error, capturing_trigger, is_quitting>>
disk == <<file, banner, registry>>
user == <<held, wanted, budget>>
vars == <<engine, step, todo, settings, configured, shown, diagnostic_message,
          flags, disk, user>>

Settings == [enabled: BOOLEAN, trigger: Triggers,
             output_modifiers: (SUBSET OutputModifiers) \ {{}},
             launch_at_startup: BOOLEAN]

ASSUME FirstSettingsAssumption ==
    FirstSettings \subseteq Settings /\ DefaultSettings \in Settings

InputOf(s) == [trigger |-> s.trigger, output_modifiers |-> s.output_modifiers]

Effects == {"save", "register", "configure"}

Steps == {"down", "boot_load", "boot_register", "boot_start", "boot_wait",
          "boot_tray", "idle", "update", "start_wait", "stop_wait", "refresh",
          "restart_stop", "restart_start", "restart_wait", "quit_stop", "drop"}

TypeOK ==
    /\ EngineTypeOK
    /\ step \in Steps
    /\ todo \subseteq Effects
    /\ settings \in Settings
    /\ configured \in {InputOf(s) : s \in Settings}
    /\ last_engine_status \in EngineStatuses
    /\ tray \in BOOLEAN \cup {NoTray}
    /\ diagnostic_message \in {"none", "failed", "note"}
    /\ startup_error \in BOOLEAN
    /\ capturing_trigger \in BOOLEAN
    /\ is_quitting \in BOOLEAN
    /\ file \in Settings
    /\ banner \in BOOLEAN
    /\ registry \in BOOLEAN
    /\ held \in Triggers \cup {NoKey}
    /\ wanted \in BOOLEAN
    /\ budget \in 0..MaxMessages

Init ==
    /\ EngineInit
    /\ step = "down"
    /\ todo = {}
    /\ file \in FirstSettings
    /\ banner = FALSE
    /\ settings = DefaultSettings
    /\ configured = InputOf(DefaultSettings)
    /\ last_engine_status = "Stopped"
    /\ tray = NoTray
    /\ diagnostic_message = "none"
    /\ startup_error = FALSE
    /\ capturing_trigger = FALSE
    /\ is_quitting = FALSE
    /\ registry \in BOOLEAN
    /\ held = NoKey
    /\ wanted = DefaultSettings.enabled
    /\ budget = MaxMessages

---------------------------------------------------------------------------
(* The settings file, as SettingsFile sees the event loop.                 *)

FilePhase ==
    IF step = "down" THEN "down"
    ELSE IF step = "boot_load" THEN "loading"
    ELSE IF "save" \in todo THEN "saving"
    ELSE "idle"

Store == INSTANCE SettingsFile WITH
    Values <- Settings,
    Default <- DefaultSettings,
    saved <- file,
    current <- settings,
    phase <- FilePhase,
    warned <- banner

---------------------------------------------------------------------------
(* startup::apply, and the engine calls as the event loop waits for them.  *)

RunValueFollows ==
    \/ registry' = settings.launch_at_startup /\ startup_error' = FALSE
    \/ startup_error' = TRUE /\ UNCHANGED registry

(* start finds the engine Running, or the last hook thread still alive.    *)
StartIgnored ==
    /\ call = "none"
    /\ status \in {"Running", "Failed"}
    /\ UNCHANGED engine

(* What the diagnostics say of a start that has returned; one that gave up *)
(* has called stop and returns false.                                      *)
Report(success) ==
    diagnostic_message' =
      IF status' = "Running" /\ call # "stopping" THEN success ELSE "failed"

Start(waiting, done, success) ==
    \/ StartCall /\ step' = waiting /\ UNCHANGED diagnostic_message
    \/ (StartRefused \/ StartIgnored) /\ step' = done /\ Report(success)

CallReturns == StartReturns \/ StopReturns \/ UndoReturns

---------------------------------------------------------------------------
(* boot.                                                                   *)

Launch ==
    /\ step = "down"
    /\ step' = "boot_load"
    /\ UNCHANGED <<engine, todo, settings, configured, shown,
                   diagnostic_message, flags, disk, user>>

BootLoad ==
    /\ step = "boot_load"
    /\ step' = "boot_register"
    /\ UNCHANGED <<engine, todo, shown, diagnostic_message, flags, registry,
                   held, budget>>
    /\ Store!Load \/ Store!LoadFails
    /\ configured' = InputOf(settings')
    /\ wanted' = settings'.enabled

BootRegister ==
    /\ step = "boot_register"
    /\ RunValueFollows
    /\ step' = "boot_start"
    /\ UNCHANGED <<engine, todo, settings, configured, shown,
                   diagnostic_message, capturing_trigger, is_quitting, file,
                   banner, user>>

BootStart ==
    /\ step = "boot_start"
    /\ IF settings.enabled
       THEN Start("boot_wait", "boot_tray", "none")
       ELSE step' = "boot_tray" /\ UNCHANGED <<engine, diagnostic_message>>
    /\ UNCHANGED <<todo, settings, configured, shown, flags, disk, user>>

BootStarted ==
    /\ step = "boot_wait"
    /\ CallReturns
    /\ Report("none")
    /\ step' = "boot_tray"
    /\ UNCHANGED <<todo, settings, configured, shown, flags, disk, user>>

(* Without an icon the diagnostics say so instead of anything else.        *)
BootTray ==
    /\ step = "boot_tray"
    /\ last_engine_status' = status
    /\ \/ tray' = (status = "Running") /\ UNCHANGED diagnostic_message
       \/ tray' = NoTray /\ diagnostic_message' = "note"
    /\ step' = "idle"
    /\ UNCHANGED <<engine, todo, settings, configured, flags, disk, user>>

---------------------------------------------------------------------------
(* update_settings.                                                        *)

(* Seeded fault: only a changed trigger counts as a changed configuration. *)
ChangesMissed(new_settings) ==
    {effect \in {"register", "configure"} :
       CASE effect = "register" ->
              new_settings.launch_at_startup # settings.launch_at_startup
         [] effect = "configure" -> new_settings.trigger # settings.trigger}

Changes(new_settings) ==
    {effect \in {"register", "configure"} :
       CASE effect = "register" ->
              new_settings.launch_at_startup # settings.launch_at_startup
         [] effect = "configure" -> InputOf(new_settings) # InputOf(settings)}

UpdateSettings(new_settings, persist) ==
    /\ settings' = new_settings
    /\ todo' = Changes(new_settings) \cup persist
    /\ step' = "update"
    /\ UNCHANGED <<engine, configured, shown, diagnostic_message, flags, disk>>

SaveSettings ==
    /\ step = "update"
    /\ "save" \in todo
    /\ todo' = todo \ {"save"}
    /\ UNCHANGED <<engine, step, configured, shown, diagnostic_message, flags,
                   registry, user>>
    /\ Store!Commit \/ Store!Refuse

(* Seeded fault: a failing registration is not reported.                   *)
ApplyStartupUnseen ==
    /\ step = "update"
    /\ "save" \notin todo /\ "register" \in todo
    /\ registry' \in {registry, settings.launch_at_startup}
    /\ startup_error' = FALSE
    /\ todo' = todo \ {"register"}
    /\ UNCHANGED <<engine, step, settings, configured, shown,
                   diagnostic_message, capturing_trigger, is_quitting, file,
                   banner, user>>

ApplyStartup ==
    /\ step = "update"
    /\ "save" \notin todo /\ "register" \in todo
    /\ RunValueFollows
    /\ todo' = todo \ {"register"}
    /\ UNCHANGED <<engine, step, settings, configured, shown,
                   diagnostic_message, capturing_trigger, is_quitting, file,
                   banner, user>>

ConfigureEngine ==
    /\ step = "update"
    /\ todo = {"configure"}
    /\ configured' = InputOf(settings)
    /\ todo' = {}
    /\ UNCHANGED <<engine, step, settings, shown, diagnostic_message, flags,
                   disk, user>>

StartEngine ==
    /\ step = "update"
    /\ todo = {}
    /\ settings.enabled
    /\ Start("start_wait", "refresh", "none")
    /\ UNCHANGED <<todo, settings, configured, shown, flags, disk, user>>

EngineStarted ==
    /\ step = "start_wait"
    /\ CallReturns
    /\ Report("none")
    /\ step' = "refresh"
    /\ UNCHANGED <<todo, settings, configured, shown, flags, disk, user>>

(* Seeded fault: only a Running engine is stopped.                         *)
StopEngineRunning ==
    /\ step = "update"
    /\ todo = {}
    /\ ~settings.enabled
    /\ \/ status = "Running" /\ StopCall /\ step' = "stop_wait"
       \/ status # "Running" /\ call = "none" /\ step' = "refresh" /\ UNCHANGED engine
    /\ UNCHANGED <<todo, settings, configured, shown, diagnostic_message,
                   flags, disk, user>>

StopEngine ==
    /\ step = "update"
    /\ todo = {}
    /\ ~settings.enabled
    /\ StopCall
    /\ step' = "stop_wait"
    /\ UNCHANGED <<todo, settings, configured, shown, diagnostic_message,
                   flags, disk, user>>

EngineStopped ==
    /\ step = "stop_wait"
    /\ CallReturns
    /\ diagnostic_message' = "none"
    /\ step' = "refresh"
    /\ UNCHANGED <<todo, settings, configured, shown, flags, disk, user>>

RefreshTray == tray' = IF tray = NoTray THEN NoTray ELSE status = "Running"

FinishUpdate ==
    /\ step = "refresh"
    /\ capturing_trigger' = FALSE
    /\ RefreshTray
    /\ step' = "idle"
    /\ UNCHANGED <<engine, todo, settings, configured, last_engine_status,
                   diagnostic_message, startup_error, is_quitting, disk, user>>

---------------------------------------------------------------------------
(* Messages of the window and the tray.                                    *)

UserActs == step = "idle" /\ budget > 0 /\ budget' = budget - 1

(* ToggleEnabled and EnabledToggled.                                       *)
EnabledToggled(enabled) ==
    /\ UserActs
    /\ UpdateSettings([settings EXCEPT !.enabled = enabled], {"save"})
    /\ wanted' = enabled
    /\ UNCHANGED held

(* Seeded fault: the last modifier can be switched off.                    *)
ModifierToggledOff(modifier, selected) ==
    LET modifiers == IF selected
                     THEN settings.output_modifiers \cup {modifier}
                     ELSE settings.output_modifiers \ {modifier}
    IN  /\ UserActs
        /\ UpdateSettings([settings EXCEPT !.output_modifiers = modifiers], {"save"})
        /\ UNCHANGED <<held, wanted>>

(* The last modifier stays.                                                *)
ModifierToggled(modifier, selected) ==
    LET modifiers == IF selected
                     THEN settings.output_modifiers \cup {modifier}
                     ELSE settings.output_modifiers \ {modifier}
    IN  /\ UserActs
        /\ modifiers # {}
        /\ UpdateSettings([settings EXCEPT !.output_modifiers = modifiers], {"save"})
        /\ UNCHANGED <<held, wanted>>

LaunchAtStartupToggled(launch) ==
    /\ UserActs
    /\ UpdateSettings([settings EXCEPT !.launch_at_startup = launch], {"save"})
    /\ UNCHANGED <<held, wanted>>

(* launch_to_tray matters only to the window a launch opens.               *)
LaunchToTrayToggled ==
    /\ UserActs
    /\ UpdateSettings(settings, {"save"})
    /\ UNCHANGED <<held, wanted>>

EmergencyDisable ==
    /\ UserActs
    /\ UpdateSettings([settings EXCEPT !.enabled = FALSE], {})
    /\ UNCHANGED <<held, wanted>>

StartTriggerCapture ==
    /\ UserActs
    /\ ~capturing_trigger
    /\ capturing_trigger' = TRUE
    /\ UNCHANGED <<engine, step, todo, settings, configured, shown,
                   diagnostic_message, startup_error, is_quitting, disk, held, wanted>>

CancelCapture ==
    /\ UserActs
    /\ capturing_trigger
    /\ capturing_trigger' = FALSE
    /\ UNCHANGED <<engine, step, todo, settings, configured, shown,
                   diagnostic_message, startup_error, is_quitting, disk, held, wanted>>

(* Enter or Space on the focused rebind control.                           *)
ActivateCapture(key) ==
    /\ UserActs
    /\ key \in ActivationKeys
    /\ ~capturing_trigger /\ held # key
    /\ capturing_trigger' = TRUE
    /\ held' = key
    /\ UNCHANGED <<engine, step, todo, settings, configured, shown,
                   diagnostic_message, startup_error, is_quitting, disk, wanted>>

(* Seeded fault: a rebound trigger is not saved.                           *)
CaptureUnsaved(key) ==
    /\ UserActs
    /\ capturing_trigger
    /\ held # key
    /\ held' = key
    /\ \/ UpdateSettings([settings EXCEPT !.trigger = key], {})
       \/ UNCHANGED <<engine, step, todo, settings, configured, shown,
                      diagnostic_message, flags, disk>>
    /\ UNCHANGED wanted

(* A repeated key changes nothing.  A key pressed with a modifier is seen, *)
(* but not bound.                                                          *)
CaptureTriggerKey(key) ==
    /\ UserActs
    /\ capturing_trigger
    /\ held # key
    /\ held' = key
    /\ \/ UpdateSettings([settings EXCEPT !.trigger = key], {"save"})
       \/ UNCHANGED <<engine, step, todo, settings, configured, shown,
                      diagnostic_message, flags, disk>>
    /\ UNCHANGED wanted

KeyReleased ==
    /\ step = "idle"
    /\ held # NoKey
    /\ held' = NoKey
    /\ UNCHANGED <<engine, step, todo, settings, configured, shown,
                   diagnostic_message, flags, disk, wanted, budget>>

---------------------------------------------------------------------------
(* restart_hook.                                                           *)

(* A disabled engine is not restarted, a Running one is only asked to      *)
(* reinstall its hook.                                                     *)
RestartHookOnly ==
    /\ UserActs
    /\ ~settings.enabled \/ status = "Running"
    /\ diagnostic_message' = "note"
    /\ UNCHANGED <<engine, step, todo, settings, configured, shown, flags,
                   disk, held, wanted>>

(* Also when the request could not be posted.                              *)
RestartEngine ==
    /\ UserActs
    /\ settings.enabled
    /\ StopCall
    /\ step' = "restart_stop"
    /\ UNCHANGED <<todo, settings, configured, shown, diagnostic_message,
                   flags, disk, held, wanted>>

RestartStopped ==
    /\ step = "restart_stop"
    /\ CallReturns
    /\ step' = "restart_start"
    /\ UNCHANGED <<todo, settings, configured, shown, diagnostic_message,
                   flags, disk, user>>

RestartStart ==
    /\ step = "restart_start"
    /\ Start("restart_wait", "idle", "note")
    /\ UNCHANGED <<todo, settings, configured, shown, flags, disk, user>>

(* The tray icon waits for the next tick.                                  *)
RestartStarted ==
    /\ step = "restart_wait"
    /\ CallReturns
    /\ Report("note")
    /\ step' = "idle"
    /\ UNCHANGED <<todo, settings, configured, shown, flags, disk, user>>

---------------------------------------------------------------------------
(* The status tick, every 500 ms.                                          *)

(* Seeded fault: the icon is left to the next change of a setting.         *)
TickWithoutTray ==
    /\ step = "idle"
    /\ status # last_engine_status
    /\ last_engine_status' = status
    /\ diagnostic_message' =
         IF status = "Failed" /\ diagnostic_message = "none"
         THEN "failed" ELSE diagnostic_message
    /\ UNCHANGED <<engine, step, todo, settings, configured, tray, flags, disk, user>>

(* Seeded fault: the failure is not mirrored in the diagnostics.           *)
TickSilent ==
    /\ step = "idle"
    /\ status # last_engine_status
    /\ last_engine_status' = status
    /\ RefreshTray
    /\ UNCHANGED <<engine, step, todo, settings, configured,
                   diagnostic_message, flags, disk, user>>

Tick ==
    /\ step = "idle"
    /\ status # last_engine_status
    /\ last_engine_status' = status
    /\ diagnostic_message' =
         IF status = "Failed" /\ diagnostic_message = "none"
         THEN "failed" ELSE diagnostic_message
    /\ RefreshTray
    /\ UNCHANGED <<engine, step, todo, settings, configured, flags, disk, user>>

---------------------------------------------------------------------------
(* quit, the end of the process, and the engine on its own.                *)

Quit ==
    /\ UserActs
    /\ ~is_quitting
    /\ is_quitting' = TRUE
    /\ StopCall
    /\ step' = "quit_stop"
    /\ UNCHANGED <<todo, settings, configured, shown, diagnostic_message,
                   startup_error, capturing_trigger, disk, held, wanted>>

(* The runtime exits later: messages that are already there still come.    *)
QuitStopped ==
    /\ step = "quit_stop"
    /\ CallReturns
    /\ tray' = NoTray
    /\ step' = "idle"
    /\ UNCHANGED <<todo, settings, configured, last_engine_status,
                   diagnostic_message, flags, disk, user>>

(* Dropping the state stops the engine.                                    *)
DropState ==
    /\ step = "idle"
    /\ is_quitting
    /\ StopCall
    /\ step' = "drop"
    /\ UNCHANGED <<todo, settings, configured, shown, diagnostic_message,
                   flags, disk, user>>

ProcessGone ==
    /\ call' = "none"
    /\ status' = "Stopped"
    /\ late' = FALSE
    /\ step' = "down"
    /\ todo' = {}
    /\ last_engine_status' = "Stopped"
    /\ tray' = NoTray
    /\ diagnostic_message' = "none"
    /\ startup_error' = FALSE
    /\ capturing_trigger' = FALSE
    /\ is_quitting' = FALSE
    /\ settings' = DefaultSettings
    /\ banner' = FALSE
    /\ UNCHANGED <<configured, file, registry, user>>

Exit ==
    /\ step = "drop"
    /\ StopDone
    /\ ProcessGone

Killed == step # "down" /\ ProcessGone

(* Other programs write the file while hyperkey is down.                   *)
OutsideWrites ==
    /\ file' \in FirstSettings
    /\ UNCHANGED <<engine, step, todo, configured, shown, diagnostic_message,
                   flags, registry, user>>
    /\ Store!OutsideWrites

EngineAlone(move) ==
    /\ move
    /\ UNCHANGED <<step, todo, settings, configured, shown, diagnostic_message,
                   flags, disk, user>>

---------------------------------------------------------------------------

AppStep ==
    \/ BootLoad \/ BootRegister \/ BootStart \/ BootTray
    \/ SaveSettings \/ ApplyStartup \/ ConfigureEngine
    \/ StartEngine \/ StopEngine \/ FinishUpdate
    \/ RestartStart \/ DropState

AppReturns ==
    \/ BootStarted \/ EngineStarted \/ EngineStopped
    \/ RestartStopped \/ RestartStarted \/ QuitStopped \/ Exit

UserMessage ==
    \/ \E b \in BOOLEAN : EnabledToggled(b) \/ LaunchAtStartupToggled(b)
    \/ \E m \in OutputModifiers, b \in BOOLEAN : ModifierToggled(m, b)
    \/ LaunchToTrayToggled \/ EmergencyDisable
    \/ StartTriggerCapture \/ CancelCapture
    \/ \E k \in Triggers : ActivateCapture(k) \/ CaptureTriggerKey(k)
    \/ RestartHookOnly \/ RestartEngine
    \/ Quit

Next ==
    \/ Launch \/ AppStep \/ AppReturns
    \/ UserMessage \/ KeyReleased \/ Tick
    \/ EngineAlone(EngineMoves)
    \/ Killed \/ OutsideWrites

Spec == Init /\ [][Next]_vars

(* The event loop runs and the timer ticks; the engine's calls return, as  *)
(* HookEngine shows they do: a start comes to a status, a stop settles.    *)
FairSpec ==
    /\ Spec
    /\ WF_vars(AppStep)
    /\ WF_vars(Tick)
    /\ WF_vars(EngineAlone(HookInstalled \/ StopSettles))
    /\ WF_vars(EngineAlone(UndoneFails))
    /\ SF_vars(AppReturns)

---------------------------------------------------------------------------
(* Properties.                                                             *)

(* Between two messages the engine is configured as the settings say,      *)
(* whatever failed on the way.                                             *)
ConfiguredAsSet == step = "idle" => configured = InputOf(settings)

(* Between two messages an engine that is not enabled is Stopped, and an   *)
(* enabled one is Running or Failed, unless a wait of a call expired or    *)
(* the application is quitting.                                            *)
EngineFollowsEnabled ==
    step = "idle" /\ ~late =>
       /\ ~settings.enabled => status = "Stopped"
       /\ settings.enabled /\ ~is_quitting => status \in {"Running", "Failed"}

(* Between two messages, also after a kill between the save and the        *)
(* registration, the Run value is as the settings say, or the window shows *)
(* that it could not be updated.                                           *)
RegistryFollows ==
    step = "idle" /\ ~startup_error => registry = settings.launch_at_startup

(* An engine that fails after the application saw it Running, with empty   *)
(* diagnostics, has the failure put into them, whatever is pressed before  *)
(* the next tick, unless it moves on or is disabled in time.  (A note that *)
(* is already there stays.)                                                *)
FailureReported ==
    (/\ step = "idle" /\ last_engine_status = "Running" /\ status = "Failed"
     /\ diagnostic_message = "none")
        ~> \/ diagnostic_message = "failed"
           \/ status # "Failed" \/ ~settings.enabled
           \/ step = "down"

(* The tray icon shows whether the engine is running.                      *)
TrayTrue == tray \in {NoTray, status = "Running"}

(* An icon that shows what the last tick saw is corrected when the engine  *)
(* moves on, by a tick or by a change of the settings.                     *)
TrayCatchesUp ==
    (step = "idle" /\ ~TrayTrue /\ tray = (last_engine_status = "Running"))
        ~> TrayTrue

(* main.rs: the emergency disable "deliberately does not persist           *)
(* `enabled = false`: the next launch reactivates unless the user toggles  *)
(* the setting off".                                                       *)
NextLaunchReactivates ==
    [][step # "down" /\ file.enabled /\ ~file'.enabled => ~wanted]_vars

(* The event loop loads once, saves only settings that settings.rs accepts *)
(* and one change at a time, and leaves the file to the store: it keeps    *)
(* its side of SettingsFile, whatever the engine and the user do.          *)
KeepsToSettingsFile == Store!Spec
=============================================================================
