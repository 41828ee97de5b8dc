# Hyperkey: specifications, model checks and proofs

Hyperkey turns one key (Caps Lock by default) into a layer of modifiers on
Windows: while the key is held, other keys are sent with Ctrl+Alt+Shift; a
short tap of it types the key itself. This directory holds TLA+ modules that
model the program, TLC configurations that check them on small instances, and
TLAPS proofs of the properties that matter most. `PROJECT.json` indexes the
runs, the source lines behind each definition, the hazards and the findings.

    tlc -workers 2 -config Engine.cfg MCHookEngine      # any run
    tlapm HookEngineProofs.tla                          # any *Proofs module

## 1. Inventory

| Component (source) | State | Operations | Hard part | What makes it correct |
|---|---|---|---|---|
| Trigger machine (`core/machine.rs`, `keys.rs`) | phase: Idle, TriggerHeld, HyperActive | `process_with_trigger`, `reset` | auto-repeat, Ups of keys pressed before the layer, synthetic events | the trigger never leaks, ordinary keys always come up |
| Modifier synthesizer (`input/synth.rs`) | `pressed_modifiers` | `try_press`, `try_release`, `release_all`, `try_replay_trigger`, probe | SendInput accepts a prefix; roll-back may fail too | what is down is tracked |
| Key event path (`input/engine.rs`: callback, `Shared`) | machine, trigger, modifier list, tracked set behind the mutex `shared` | `hook_callback`, `dispatch_hook_event`, `configure`, `emergency_disable`, `reconcile`, reset on reinstall and exit | Windows removes the hook silently, also under a running callback; nested callbacks inside SendInput; Ups lost on the lock screen; a panic | no stuck modifier, no layer without a held trigger |
| Engine lifecycle (`input/engine.rs`: `Lifecycle`) | status, hook thread handle and id, `stop_requested`, `hook_ready`, watchdog handle | `start`, `stop`, `restart_hook`, hook thread, watchdog thread | three threads, a message queue, bounded waits, status written and published in two steps | statuses tell the truth, threads end, a lost hook is repaired |
| Watchdog (`core/watchdog.rs`) | the tick of the last heartbeat | `heartbeat`, `reset`, `tick` | tick arithmetic at its limits | a silent hook is found, a live one left alone |
| Settings, JSON (`core/settings.rs`, `json.rs`) | none (pure) | `create…`, `with_…`, `serialize`, `parse` | tolerance: repair one value, keep the rest | nothing is lost or changed silently |
| Settings store (`app/settings_store.rs`) | `settings.json`, `.tmp`, `.bak` | `load`, `quarantine`, `save` | every file call may fail, the process may die between two | the file is whole or in the backup |
| App event loop (`app/main.rs`) | settings, banner, engine, tray state, capture mode | `update`, `update_settings`, emergency disable, restart hook, quit, `Tick` | several effects per message, partial failure, engine events from other threads | window, engine, registry and file agree |
| Session window (`app/session_window.rs`) | a hidden window | session and power notifications, relaunch message | lost or early notifications | layer released on lock, suspend, resume |
| Single instance (`app/single_instance.rs`) | a named mutex | `acquire`, `notify_existing` | a second launch before the first has its window | exactly one process, the second shows the first |
| Startup (`app/startup.rs`) | one registry value | `apply` | I/O failure | the value follows the setting or an error is shown |
| Tray, clipboard, keymap, settings view | presentation | – | stale labels | shows the engine's state |
| Installer, scripts | – | – | packaging | not part of the running program |

**How they interact.** The app's UI thread calls the engine (`start`, `stop`,
`configure`, `restart_hook`, `emergency_disable`, `reconcile`) and the store
(`load`, `save`); these calls are synchronous. The engine owns two more
threads. The *hook thread* installs the low-level keyboard hook and pumps
messages; Windows runs the hook callback on it, inside `GetMessage`. The
callback takes `shared`, lets the machine decide, and may call SendInput while
it holds the mutex. The *watchdog thread* wakes periodically, probes the hook
with a tagged synthetic event and posts `WM_REINSTALL_HOOK` when no callback
has beaten for too long. `lifecycle`, a second mutex, guards the status, the
thread handles and the subscribers. `stop` posts `WM_QUIT`. Session and power
notifications reach the app through a hidden window and end in `reconcile`,
which releases the layer and resets the machine. A second launch finds the named
mutex taken and posts a message to the same hidden window, which makes the first
process show its settings window.

## 2. Modules

| Module | Models |
|---|---|
| `TriggerMachine` | `machine.rs` as pure operators: `Process(phase, event, trigger)` is `process_with_trigger` |
| `ModifierSynth` | `synth.rs` as sets of outcomes: one outcome for each prefix SendInput may accept |
| `InputPath` | the event path: composes the two above with the mutex `shared`, the hook being attached, lost, reinstalled, detached, and the control calls |
| `ModifierLayer` | abstract specification of the layer: a rise is decided under a held trigger and an attached hook, happens whole or not at all, the layer falls whole, and no hook is attached and nothing reconfigured over it or over a rise to come |
| `HookEngine` | the lifecycle: control, hook and watchdog threads, the message queue, statuses and their publication |
| `EngineLayer` | abstract specification of the engine as the app sees it: the call in progress, the status, whether a wait has expired. Implemented by `HookEngine`, built on by `HyperApp` |
| `HookWatchdog` | the tick arithmetic of `watchdog.rs` for ticks of any width |
| `SettingsJson` | `json.rs` and the rules of `settings.rs` as pure operators |
| `SettingsRoundTrip` | a settings text loaded and saved repeatedly: what `parse` keeps, resets, reports |
| `SettingsStore` | `settings_store.rs`, one action per file call, with kills and failures |
| `SettingsFile` | abstract specification of the store as the app sees it: one saved value, replaced at one point in time or not at all, and a warning. Implemented by `SettingsStore`, built on by `HyperApp` |
| `HyperApp` | the event loop of `main.rs` with the engine (`EngineLayer`), the settings file (`SettingsFile`), the Run value of `startup.rs` and the tray icon; kills and relaunches |
| `SingleInstance` | several processes: the named mutex, the refused launch's broadcasts, the hidden window of `session_window.rs`, the settings window |
| `MC*` | the instances TLC checks |
| `InputPathProofs`, `HookEngineProofs`, `HyperAppProofs`, `SingleInstanceProofs`, `SettingsJsonProofs`, `SettingsRoundTripProofs`, `SettingsStoreProofs`, and `HookWatchdog` itself | the TLAPS proofs |

**InputPath and the code.** `phase`, `trigger`, `output_modifiers`, `pressed`
are the fields of `Shared`. `call` is the callback that is inside SendInput
and so holds `shared`. A callback that sends is three actions: `BeginSend` (the
machine moves), `SendPress`/`SendRelease`/`SendReplay` (the send takes effect
and answers), and `ForwardPressed`/`SwallowSent`/`SwallowRejected` (it returns
to Windows); its `stage` is `send`, then `sent` or `rejected`. Between any two
of them a nested real event may pass (`NestedEvent`), the dispatch may panic
(`SendPanics`), and Windows may give up on the stalled hook (`HookRemoved`): it
then passes the event on itself and ignores what the callback answers, while
the callback goes on and still raises the layer. `let_go` is no program state:
it remembers the modifiers that nested events lifted since the send. Every
callback that sends nothing is a single action. A send that is rolled back is one
step, since an event between the send and its roll-back changes what the same
event before or after both would. `pump`, `hook`, `status`, `posted` are what
the event path can see of the engine: where the hook thread is between two
changes of the shared state, whether Windows delivers events,
`Lifecycle.status`, and a queued reinstall request. `session` is the Windows
session: `here`, `away` while it is locked (events go to the lock screen and no
hook sees them, so the trigger may come up unseen under an attached hook), and
`back` until the application has handled the notice and called `reconcile`.
`physical` is what the user's fingers hold, `down` what the rest of
the system sees; a generated left Ctrl and a physical left Ctrl are one key to
the system, and so they are in the model. Two environment assumptions are
parameters: `SendMayFail` and `Faults` (`nested`, `hookloss`, `install`,
`panic`, `session`). The watchdog is reduced here to "a Running engine may ask
for a reinstall at any time", which `HookEngine` refines in detail.

**ModifierLayer and the code.** `held` is the tracked set, `rising` a callback
between its decision to raise the layer and the answer of its send. The hook
may be removed and the user may let go in that time, and the rise still comes:
what the layer promises is that nothing is attached and nothing reconfigured
before it has fallen again. `user` is `unknown` while the session hides him.

**HookEngine and the code.** A step is what one thread does between two points
where another can see it: one critical section of `lifecycle`, one atomic
operation, one post, one wait. `control` is the program counter of the app's
calls (`start`, `stop`, `restart_hook` with `start_watchdog` and
`stop_watchdog`, entered from several places: `after_dog` and `after_stop` are
the return addresses), `pump` that of the hook thread (`install_and_pump`,
`reinstall_hook`, `hook_thread_main`), `dog` that of the watchdog thread.
`set_status` is two steps: the write under `lifecycle` and the publication
under a second hold; `pending[t]` is what a thread has written and not yet
published. `start` alone writes and publishes under one hold. `timed_out`
records that one of the waits (3 s for readiness, 2 s for the join) expired: a
wait may expire whenever the hook thread has not got there yet.
`ForeignQuit` is a WM_QUIT posted by somebody else, which is how
`GetMessage` may end without a stop request.

**SettingsJson, SettingsRoundTrip, SettingsStore and the code.** A text is
`NoDocument` if serde refuses it, otherwise the record the visitor reads:
one value per field, `Missing` for an absent or null one, `Unknown` for any
name the parser does not know. `Parse` returns the fields of `ParseOutcome`
that anything depends on. In `SettingsStore`, `step` is the program counter of
`load` (`load`, `read`, `clear_backup`, `move_aside`) and of `save` (`write`,
`rename`, `clean`); `Torn` is a file whose write was cut short by an error or
a kill. `banner` is the kind of message in `State.banner`; `window` is whether
this process has opened its settings window, at boot or later, and `notice`
what became of a message that a corrupt file could not be moved: `pending` in
`State.banner`, `seen` in a window, or replaced `unseen` by the outcome of a
save. `Documents` sets no bound on the
list of modifier names; the bound of a run is in its `MC` module.

**SettingsFile and the code.** `saved` is what the next launch will use: of the
three files, `settings.json` as `Parse` reads it, or the defaults if it cannot
be used. `SettingsStore` states the refinement with `NextLoad`: the rename is
the one step that is `Commit`, every other call of the file system is a stutter
or the step at which an outcome is decided. `current` is in memory in both.

**EngineLayer and the code.** `call` is the call the application waits in:
`start`, `stop`, or a `start` that undoes itself because its watchdog could not
be spawned. `status` is `InputEngine::status`. `late` records that a wait
inside a call has expired; only then may a `stop` leave the engine Failed or
Running, and only then may Running come without a `start`. `HookEngine` states
the refinement with the mapping `CallSeen`: a call of the layer ends when the
detailed engine has published its last status, so the layer's `StopSettles` is
the write and `StopReturns` the publication.

**HyperApp and the code.** `step` is the program counter of `boot`,
`update_settings`, `restart_hook` and `quit`; at `idle` the event loop takes the
next message. `update_settings` compares the settings and leaves in `todo` the
effects still to come: `save`, `register`, `configure`, then `start` or `stop`,
then the refresh of the tray icon, one action each, each able to fail as its
code can. A call of the engine is two steps, its beginning and its return,
between which `EngineLayer` moves; it also moves on its own between messages.
`held` is the key whose auto-repeat Windows reports, for trigger capture;
`wanted` is the user's last choice of `enabled`, which the code does not store.
`Killed` and `Exit` forget everything but the file and the registry; `Launch`
starts again from them. The file is the `saved` of `SettingsFile` and the banner
its `warned`: `BootLoad` and `SaveSettings` take the steps `Load`, `LoadFails`,
`Commit` and `Refuse` of that module, and `KeepsToSettingsFile` says that the
event loop takes no other (one load per launch, one change at a time, each
followed by its save unless it is the emergency disable).

**SingleInstance and the code.** `phase` follows `main` in each process:
`acquire` (`boot` or `refused`), `notify_existing` (`notify`, `wait`), the
message box (`box`), the running event loop (`run`) and the drop of the guard
(`exit`). `handles` are the handles Windows counts: the mutex exists while one
is open, a refused launch holds one for a moment, and a process killed at any point, also a refused launch between
two broadcasts, loses its own. `session` is the hidden window, opened by a thread of its own after the
launch, or failed, or `deaf` when it could not register the message by which a
second launch calls. `inbox` is the channel into the event loop.

Operators whose comment starts with "Seeded fault" are deliberate bugs; the
mutants of `PROJECT.json` put them in place of the real definitions to show
that each property can fail. No specification uses them.

## 3. Runs

| Run | Question | Result |
|---|---|---|
| `input_faults` | With every fault (rejected sends, nested events, hooks lost at any point of a callback, failed installs, panics, a locked session): does the tracked set follow the machine, and is the key that activates the layer forwarded with every modifier the user has not lifted meanwhile? | holds |
| `input_sound` | When SendInput accepts what it is given, with hook losses at any point of a callback, failed installs and a locked session: no stuck key, no layer without the trigger, trigger hidden, layer released in the end, `ModifierLayer` implemented? | holds |
| `engine` | Do statuses, events and threads agree through starts, stops, time-outs, spawn failures, lost hooks; is a forced restart dropped by a stop only; does every call return, every stopped thread end, every lost hook come back; is `EngineLayer` implemented; is a new thread started only over nothing the last has left, and does no thread wait for a message or an event that will not come? | holds |
| `hyper_app` | Three messages of the user in any order and timing, effects that fail, an engine that moves on its own, kills and relaunches: do settings, configuration, engine and registration agree between messages, is the file used as `SettingsFile` allows, do failures reach empty diagnostics and the icon? | holds |
| `relaunch` | Three processes that launch, quit and are killed at any point: never two that may have a hook, and is a second launch that finds a listening window answered? | holds |
| `round_trip` | Does the tolerant parser use, report and keep what it should, over every document of the bound? | holds |
| `store` | Do load, quarantine and save keep the file whole, keep a corrupt file until its warning was shown (but for the tray launch of section 6), and warn, whatever fails; is `SettingsFile` implemented? | holds |
| `stuck_modifier`, `stuck_trigger`, `failed_hook`, `late_running`, `next_launch` | Five statements of the code's comments and documents that the code does not keep | violated (section 6) |

**Bounds.** *InputPath*: two possible triggers (so that rebinding matters), one
ordinary key, two modifiers, and lists of one and two of them (so that a prefix
of a send is neither empty nor all, and reconfiguring both adds and drops a
modifier). Keys of a kind never interact with each other, so one ordinary key
shows what several do; the proofs remove these bounds. Only one reinstall
request is remembered because a second does what the first did. *HookEngine*:
`MaxQueue = 2` bounds the messages a caller or the watchdog may add: one
watchdog request and one forced request can wait together, and `WM_QUIT` goes
behind them. Watchdog wake-ups and `restart_hook` wait for room; `PostQuit` and
a foreign quit never do. Heartbeats are fresh or stale, which is all the
watchdog's decision depends on; the arithmetic behind them is `HookWatchdog`,
whose assumptions the same run evaluates at ticks of four bits. *HyperApp*:
three messages of the user (`MaxMessages`) allow one to change a setting, one
to undo or follow it, and a quit or a restart in between; two triggers, one of
which also activates the focused control (Enter, Space), and two modifiers, so
that the last one can be refused. Engine moves, ticks, kills and relaunches are
not bounded. The defaults are also the one value other programs leave in the
file (`FirstSettings`); every other value comes from the user's messages. *SingleInstance*: three processes, one to run, one to be refused,
one to come in while the refused one still has its handle; two broadcasts
(`MaxAttempts`; 5 in the code, all alike after the first) and no launch and no
system notice while an event waits (`MaxNotices`). *Settings*: all values of
every scalar field including absent and unknown, schema versions 0 to 3,
modifier lists of up to two raw names in every document and up to four in an
otherwise clean one (`MCSettingsRoundTrip`) — enough for known, unknown,
repeated, and more names than there are modifiers. The proofs have no such bound. *SettingsStore*: one text of each kind the parser tells
apart (corrupt, old and clean, repaired, newer) and two savable settings that
differ in two fields.

**Deadlock** is checked in every run: there is always something the user or
the system may do.

## 4. Fairness

`InputPath!FairSpec` (for `LayerReleased`): a callback inside SendInput
returns, an exiting hook thread exits, a reinstall once begun goes on (weak
fairness: these are straight-line code on one thread), and while the hook of a
Running engine is gone the watchdog keeps posting (weak) and a posted request
is eventually acted on (strong: the request may be dropped, but not for ever,
because without a hook there is no new heartbeat that would justify dropping
it; `HookEngine` checks that mechanism itself as `LossIsRepaired`). The
application handles the notices of a lock and an unlock: weak fairness of
`Reconcile`, which is a message of its event loop (`main.rs:245`) and cannot be
refused while it runs. Nothing is assumed of the user, of when Windows removes
the hook or locks the session, or that an install succeeds. What is assumed of
Windows is stated by the guards: an Up of a held key reaches the hook while it is
attached and the session is not locked. The secure desktop of an elevation
prompt may swallow an Up without any notice the program could react to; that
case is outside the model (section 7).

`HookEngine!FairSpec`: each thread keeps running (weak fairness for the control
thread inside a call, for the hook thread outside `GetMessage`, for the
publication it owes, for the watchdog thread), a thread waiting in `GetMessage`
is eventually handed a queued message even though callbacks run in between
(strong), and with no hook attached the heartbeat ages. That the app makes a
call, that a callback beats, that a loss occurs is never assumed.

`HyperApp!FairSpec`: the event loop goes on with the message it has begun and
the timer ticks (weak). A call of the engine returns: weak fairness of
`HookInstalled \/ StopSettles` and of `UndoneFails`, and strong fairness of the
application seeing the return, because a status that allows it may be left
again by a late hook thread. That the detailed engine's calls do return is
`CallsReturn` of the run `engine`. Nothing is assumed of the user's messages,
of kills and relaunches, or that a save, a registration or a start succeeds.

`SingleInstance!FairSpec`: a launched process goes on (weak), its hidden window
opens or fails (weak), the event loop takes the events (weak). Quits, kills,
launches, notices and the answers of the user are not assumed.

The violated runs, `store` and `round_trip` have no fairness.

## 5. Proofs

`InputPathProofs` (every set of keys, every list of modifiers, every fault
unless stated). The inductive invariant is

    IInv == TypeOK /\ LayerTracked /\ CallWellFormed /\ ChordInFlight
                   /\ AttachFromIdle

`LayerTracked` (the tracked set is the configured layer exactly while the
machine is in HyperActive, and lags behind it only until the send of a callback
takes effect) is not inductive alone: a press that is answered must
know that the phase is still HyperActive (`CallWellFormed`: while a callback
holds `shared` the phase its decision led to is still in force), and an attach
must know that the machine is Idle (`AttachFromIdle`). `ChordInFlight` carries
the modifiers from the send to the forward: between the two, only nested events
of the user lift one of them. Facts about
the machine and the synthesizer enter as lemmas (`MachineFacts`, `TryPressFacts`,
`ReleaseTrackedFacts`, …), so the step proof never opens them. A second
invariant holds when no real event is nested in a send:

    HInv == IInv /\ PressKeyHeld /\ LayerNeedsTrigger /\ NoStuckOrdinary

(`PressKeyHeld`: the key whose Down is being turned into a chord is held until
the hook is lost).

| Theorem | States | Assumes |
|---|---|---|
| `TypeCorrect`, `LayerIsTracked`, `ChordsAreComplete` | the invariants and the action property of `input_faults`, nested events included | nothing beyond the constants' assumptions |
| `LayerOnlyWithTrigger`, `OrdinaryKeysAreReleased`, `Implementation` | `LayerNeedsTrigger`, `NoStuckOrdinary`, refinement of `ModifierLayer` | no nested event; sends may fail, callbacks may panic, the hook may go at any point of a callback |
| `ModifiersAreReleased` | `NoStuckModifier` | also: sends are accepted |
| `TriggerStaysHidden` | `TriggerHidden` | also: callbacks do not panic |

These hypotheses are needed: `stuck_modifier` shows `NoStuckModifier` fail with
rejected sends, and the code does hand nested and panicking events through
unseen.

`SettingsJsonProofs`: `ReadBack`, that `Parse(Serialize(s))` is `s` in the newest
schema with nothing repaired, for every `s` that `settings.rs` accepts, and the
lemmas the two modules below rest on: what `Parse` returns is accepted
(`ParsedIsAccepted`), and what `parse_modifiers` makes of a list of names of any
length (`KeptIsFirst`, `ListsAreKept`). The latter two are inductions over the
list. The library's induction theorems take an operator as a parameter, which
the provers cannot instantiate; a set can be instantiated, so `LeastNatural` and
`InductiveSet` restate induction for a set of numbers, from the well-foundedness
of `<` on the naturals, and each induction names the set of lengths for which
its claim holds.

`SettingsRoundTripProofs`: every property of the run `round_trip` for every set
of documents, from the invariant `TextInv`, that the text is a document or none.

| Theorem | States |
|---|---|
| `ReadableDocumentsAreUsed` | `ReadableIsUsed` |
| `NothingChangesSilently` | `NoSilentChange` |
| `EachFieldAlone` | `FieldsIndependent` |
| `ModifiersKeepTheirOrder` | `ModifiersInOrder` |
| `SavedFilesAreReadBack` | the action property `SavedIsReadBack` |

`SettingsStoreProofs`: for every set of texts and of savable settings,
`StoreTypeCorrect`, `SilenceMeansSaved`, `SavesAreWhole`, `CorruptFilesAreKept`,
from the inductive invariant

    SInv == SavesSavable /\ RenamesWhole /\ CorruptIsTold /\ NoWarningMeansSaved

(only accepted settings are written; the temporary file is renamed only when it
holds exactly them; a process past its load that sits on a corrupt file has a
message that says so, seen or not). `CorruptFilesAreKept` keeps the exception of
its property: a tray launch whose first save replaces the message unseen. `ReadBack` is what makes the step of the rename go through.

`StoreKeepsPromise` is the refinement, `Spec => ImplementsSettingsFile`. It
needs a second invariant, `MemoryInv` (between two steps of a load the settings
in memory are the defaults, and always ones `settings.rs` accepts), and the
lemmas that say which calls leave the next load alone (`SameNextLoad`). A load
simulates at its last step, a save at the rename or at the call that fails.

`HookEngineProofs` (any bound on the queue). The invariant is

    Inv == Types /\ EngineInv /\ QueueInv

`EngineInv` says what each thread may count on while another is between two of
its steps. The status alone is not enough for any of the run's properties. The
parts that carry the argument are `AliveHasHandle` (a hook thread that runs has
its handle kept, or is being joined), `StoppedIsDead`, `EarlyIsAwaited` (until a
wait expires, a hook thread that has not yet reported is one `start` waits for,
so its Running cannot come late), `StatusTold` (outside `stop` the status is
what was published or what one thread is about to publish; the control thread's
word is the later one) and `RunningServed`. `EndsWithoutThread` and `PendingAt`
keep the two threads from having a status to publish in the wrong order.
`QueueInv` bounds the queue by what has been promised to it.

| Theorem | States |
|---|---|
| `EngineTypeCorrect` | `TypeOK` with the bound on the queue |
| `StoppedEngineIsQuiet` | `StoppedIsQuiet`: Stopped means no hook and no hook thread, whatever timed out |
| `LastEventIsTrue`, `RunningEngineIsServed` | `LastEventTrue`, `RunningIsServed`, until a wait expires |
| `ForcedRestartsAreHonoured` | the action property `ForcedIsHonoured` |
| `NewThreadsStartClean` | the action property `NewThreadsFindNothing` |
| `WaitsEnd` | `NobodyWaitsInVain` |
| `EngineKeepsPromise` | `Spec => ImplementsEngineLayer`: every step of the three threads is a step of `EngineLayer` or a stutter |

`WaitsEnd` is the safety half of `HookThreadStops`: a hook thread that was asked
to stop and sits in `GetMessage` has a `WM_QUIT` in its queue or about to be
posted, and a watchdog that is being joined has been told. It needs one more
invariant, `WaitInv`: who asks a thread to stop knows its id (`IdKnown`), the
quit is promised until it is in the queue (`QuitComes`), a watchdog's stop is
set before its join (`DogTold`).

`ForcedRestartsAreHonoured` needs the invariant `ForcedWatched`: while a forced
request is about to be posted, waits in the queue or is being handled, either
the control thread is between calls with the watchdog there and no stop
requested, or it is inside a `stop` of the application. A second hook thread
never meets the request of the first, since a `start` finds the queue gone with
its thread.

`HyperAppProofs` (any keys, modifiers, first settings, number of messages) uses
the engine through `EngineLayer` only, so with `EngineKeepsPromise` its theorems
hold over the detailed engine, and the settings file through `SettingsFile`
only, so with `StoreKeepsPromise` they hold over the three files. Its three
invariants say that what two places
do not yet agree on is still to do:

    CInv    configured as set, or "configure" is in todo
    RInv    registered as set, or reported, or "register" is in todo
    EInv    the call in progress is the one awaited, made for the setting in
            force, and what it leaves is what the setting asks for

| Theorem | States |
|---|---|
| `AppTypeCorrect` | `TypeOK`; a selection of modifiers is never empty |
| `SettingsReachEngine`, `RegistrationFollows` | `ConfiguredAsSet`, `RegistryFollows`, over kills and relaunches |
| `EngineFollows` | `EngineFollowsEnabled` |
| `AppKeepsToSettingsFile` | `Spec => KeepsToSettingsFile`: the event loop keeps its side of `SettingsFile`. It needs that effects are left to do only inside `update_settings` (`SInv`) |

`SingleInstanceProofs` (any number of processes and broadcasts):
`LaunchesTypeCorrect` and `OnlyOneHook`, from the invariant that every owner
has a handle of the mutex and that there is one owner at most. Without the
first part a new mutex could be created while an owner runs.

`HookWatchdog`: `DeadMeansOldBeat`, that `tick` asks for a new hook exactly
when the last beat is `DeadAfter` or more in the past, for ticks of every
width. A beat stamped after the watchdog read the clock, or a clock that went
back, is never taken for an old one. It is a fact about two numbers, so no run
states it.

**Only model-checked**: every liveness property and everything under fairness
(`LayerReleased`, `CallsReturn`, `HookThreadStops`, `LossIsRepaired`,
`FailureReported`, `TrayCatchesUp`, `ListenerAnswers`), which the prover does
not reach. Every invariant and every action property of a passing run is proved.

## 6. Findings

1. *A rejected release is forgotten* (`stuck_modifier`, `synth.rs:242`):
   `release_tracked` drops the keys it asked for whether or not SendInput took
   them.
2. *A trigger that was already down stays down* (`stuck_trigger`,
   `engine.rs:860`): its Up is suppressed although its Down was not.
3. *Failed with a live hook switches self-heal off* (`failed_hook`,
   `engine.rs:851`): one rejected send, and a later loss is never repaired.
4. *Running without a hook thread* (`late_running`, `engine.rs:554`): a hook
   thread slower than both waits reports Running after `stop` gave up on it.
5. *An emergency disable is saved after all* (`next_launch`, `main.rs:471`):
   it is kept in memory, and the next change of any other setting writes all of
   the settings, so the next launch does not reactivate.

Divergences that were seen while modelling and have no run:

- A corrupt file can become a reset in silence (`main.rs:158`, `main.rs:271`),
  against `settings_store.rs:7`, "so a corrupt file never silently becomes a
  reset". When a file that does not parse cannot be moved aside either, `load`
  leaves it in place and returns a message, which is kept for a window to show.
  A launch to the tray has no window; the first save made there, by a toggle in
  the tray menu, overwrites the corrupt file and, having succeeded, clears the
  message. `CorruptFileKept` states exactly this as its exception
  (`notice' = "unseen"`). Without that disjunct TLC reaches the loss in eight
  steps: launch, load and a failing move, one save.
- A real left modifier the user holds is lifted when the layer is released
  (`synth.rs:76`), against `README.md:14`; the models treat the generated and
  the physical key as the one key they are.
- A status is written and published in two critical sections (`engine.rs:900`),
  so two events may come in the opposite order of their statuses, against the
  comment at `engine.rs:195`. The last event is still true (`LastEventTrue`).
- A second launch that posts before the first one's hidden window exists gets
  no answer (`single_instance.rs:47`): PostMessage to all windows succeeds
  without a listener, so the retries that the comment at line 40 explains are
  not taken. `ListenerAnswers` therefore begins with an open window.
- A refused launch holds a handle of the mutex for a moment
  (`single_instance.rs:30`); if the owner ends then, a third launch is refused
  although nobody runs.
- A hidden window that cannot be created ends its thread without a word
  (`session_window.rs:107`); later launches and session notices go unheard.
- The tick compares the status with what it saw last (`main.rs:221`). A status
  that leaves and comes back between two ticks, with the icon refreshed in
  between by a settings change, leaves the icon wrong until the next change;
  `TrayCatchesUp` starts from an icon that shows what the last tick saw.
- A failure is reported only into an empty diagnostic (`main.rs:222`): the note
  of an earlier restart hides it. `FailureReported` therefore begins with empty
  diagnostics, and asks for the failure itself there, not for any note.
- The first Tab, with no control focused, goes to the second control of the
  focus ring (`navigate_focus`): the absent focus counts as the first one.

## 7. What is not modelled, and why

- Windows itself beyond what the code reacts to. In particular the hook time-out
  that resolves a callback blocked on `shared`, and key delivery while a
  callback runs, other than `nested`; and the secure desktop, where an Up is
  lost without a notice.
- What the user does to his own chord: a modifier he lifts by a nested event
  between the send and the forward is missing from the chord that follows, since
  the generated and the real key are one (`ChordCarriesLayer` leaves it out).
- Scan codes, labels, error texts, INPUT structures, byte-order marks: data no
  property depends on. `HookRecovered` events and error strings of the engine
  are left out with them.
- Power loss: the store does not flush to disk, so only the death of the
  process is modelled. `Path::exists` answering false for a file it cannot
  examine is treated as the file being absent, which it then is for the program; so the run
`store` has every failing call of the file system but that one.
- Unknown fields of `settings.json`, which the next save drops, and duplicate
  ones, of which the last one counts: a document is a record of the known fields.
- Other programs write `settings.json` only while hyperkey is down (assumption
  of `SettingsStore`; the program never looks at the file again while it runs).
  Two hyperkey processes do not run at once, which is `OneHook`.
- Of the event loop: the focus ring, hints, the copied details, the theme and
  the window's placement. They hold no state that a later effect reads, other
  than which control Enter activates, and every such activation is a message
  `HyperApp` has. The bounded channels into the event loop lose nothing: each
  send uses a fresh clone of the sender, which always has a slot of its own.
- The order of the modifiers in `HyperApp`, which has a set; `SettingsJson` has
  the order. `SettingsFile` is over any set of values, so the
  composition of the two is of their promises, not of their values.
- Tray menu, clipboard, key table (`keymap.rs`), settings view: presentation and
  a table, without a state of their own that interacts. Of the tray, `HyperApp`
  has the icon's colour and its absence.
- Installer and scripts: not part of the running program.
- A file of a newer version is kept by the load and overwritten by the first
  save; no line of the documents promises otherwise, so no run asks for it.

## 8. What could follow

1. A timed watchdog: probe, beat and limit as clocks in `HookEngine`, to state how
   long a lost hook may stay lost rather than that it comes back.
2. The callback that blocks on `shared` while another thread's SendInput waits
   for it (`engine.rs:701`): it needs a model of the time-out by which Windows
   resolves it, which the code relies on and does not name.
3. `HookEngine` under `InputPath` as a refinement: what the event path assumes of
   the hook being attached, lost and reinstalled, as an abstract specification
   that the three threads implement.
