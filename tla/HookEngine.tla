----------------------------- MODULE HookEngine -----------------------------
(***************************************************************************)
(* The lifecycle of hyperkey-input/src/engine.rs: the control thread that  *)
(* calls start, stop and restart_hook, the hook thread with its message    *)
(* queue, and the watchdog thread.  What the keys do is InputPath's        *)
(* business; here a callback only beats the watchdog or fails the engine.  *)
(*                                                                         *)
(* A step is what one thread does between two points where another thread  *)
(* can be seen: one critical section of the `lifecycle` mutex, one atomic, *)
(* one posted message, one wait.  set_status is two steps, the write under *)
(* the mutex and the publication after it, so each thread can have one     *)
(* status written and not yet published.                                   *)
(***************************************************************************)
EXTENDS Integers, Sequences

CONSTANTS MaxQueue,     \* bound on messages queued at the hook thread
          NoStatus      \* a thread has nothing left to publish

ASSUME MaxQueueAssumption == MaxQueue \in Nat \ {0}

Statuses == {"Stopped", "Starting", "Running", "Stopping", "Failed"}

ASSUME NoStatusAssumption == NoStatus \notin Statuses

Threads == {"control", "hook"}

Messages == {"quit", "reinstall", "forced"}

VARIABLES
    control,            \* where the control thread is
    after_dog,          \* where stop_watchdog returns to
    after_stop,         \* where stop returns to
    pump,               \* where the hook thread is
    dog,                \* where the watchdog thread is
    status,             \* Lifecycle.status
    published,          \* the status in the last event sent
    pending,            \* a status each thread has written, not published
    hook_thread,        \* Lifecycle.hook_thread holds a handle
    hook_thread_id,     \* hook_thread_id is not 0
    target,             \* the id stop has loaded
    stop_requested,
    hook_ready,
    watchdog,           \* EngineInner.watchdog is Some
    stopping_dog,       \* the watchdog's control channel is disconnected
    beat,               \* the last heartbeat is fresh or stale
    hook,               \* what Windows has installed
    queue,              \* messages posted to the hook thread
    timed_out           \* a wait has timed out since the engine was made

lifecycle == <<status, pending>>
flags == <<hook_thread_id, stop_requested, hook_ready>>
returns == <<after_dog, after_stop>>
watching == <<watchdog, stopping_dog, dog, beat>>
vars == <<control, returns, pump, lifecycle, published, hook_thread, target,
          flags, watching, hook, queue, timed_out>>

ControlPoints == {"idle", "wait_ready", "check_running", "clear_dog",
                  "drop_dog", "join_dog", "spawn_dog", "dog_failed", "request",
                  "post_quit", "take", "join", "settle", "post_forced"}
PumpPoints == {"none", "begin", "peek", "check", "install", "running", "ready",
               "not_installed", "loop", "get", "reinstall", "reinstall_forced",
               "rehook", "exit", "clear", "signal", "finished"}
DogPoints == {"none", "wait", "tick", "done"}

TypeOK ==
    /\ control \in ControlPoints
    /\ after_dog \in {"spawn_dog", "request"}
    /\ after_stop \in {"idle", "dog_failed"}
    /\ pump \in PumpPoints
    /\ dog \in DogPoints
    /\ status \in Statuses
    /\ published \in Statuses
    /\ pending \in [Threads -> Statuses \cup {NoStatus}]
    /\ hook_thread \in BOOLEAN
    /\ hook_thread_id \in BOOLEAN
    /\ target \in BOOLEAN
    /\ stop_requested \in BOOLEAN
    /\ hook_ready \in BOOLEAN
    /\ watchdog \in BOOLEAN
    /\ stopping_dog \in BOOLEAN
    /\ beat \in {"fresh", "stale"}
    /\ hook \in {"attached", "detached"}
    /\ queue \in Seq(Messages)
    /\ Len(queue) <= MaxQueue + 2
    /\ pump \in {"none", "begin", "peek", "finished"} => queue = <<>>
    /\ timed_out \in BOOLEAN

Init ==
    /\ control = "idle"
    /\ after_dog = "request"
    /\ after_stop = "idle"
    /\ pump = "none"
    /\ dog = "none"
    /\ status = "Stopped"
    /\ published = "Stopped"
    /\ pending = [t \in Threads |-> NoStatus]
    /\ hook_thread = FALSE
    /\ hook_thread_id = FALSE
    /\ target = FALSE
    /\ stop_requested = FALSE
    /\ hook_ready = FALSE
    /\ watchdog = FALSE
    /\ stopping_dog = FALSE
    /\ beat = "fresh"
    /\ hook = "detached"
    /\ queue = <<>>
    /\ timed_out = FALSE

---------------------------------------------------------------------------
(* Status and messages.                                                    *)

(* A thread between a write and its publication does nothing else.         *)
ControlAt(point) == control = point /\ pending["control"] = NoStatus
PumpAt(point) == pump = point /\ pending["hook"] = NoStatus

(* set_status up to releasing `lifecycle`.                                 *)
Write(thread, new_status) ==
    /\ status' = new_status
    /\ pending' = [pending EXCEPT ![thread] = new_status]

WriteIf(condition, thread, new_status) ==
    IF condition THEN Write(thread, new_status) ELSE UNCHANGED lifecycle

(* publish_status, which takes `lifecycle` again.                          *)
Publish(thread) ==
    /\ pending[thread] # NoStatus
    /\ published' = pending[thread]
    /\ pending' = [pending EXCEPT ![thread] = NoStatus]
    /\ UNCHANGED <<control, returns, pump, status, hook_thread, target,
                   flags, watching, hook, queue, timed_out>>

(* Seeded fault: the queue is counted on before PeekMessage has made it.   *)
HasQueueFromStart == pump \notin {"none", "finished"}

(* The hook thread has a message queue from its PeekMessage to its end.    *)
HasQueue == pump \notin {"none", "begin", "peek", "finished"}

(* Bound: Windows takes 10000 messages, 5 seconds apart; here nobody starts *)
(* a request with MaxQueue of them waiting.                                *)
Room == Len(queue) < MaxQueue

HasQuit(q) == \E i \in 1..Len(q) : q[i] = "quit"

(* Only the first WM_QUIT counts, the pump ends there.                     *)
WithQuit == IF HasQuit(queue) THEN queue ELSE Append(queue, "quit")

---------------------------------------------------------------------------
(* start.  A call that finds the engine Running, Starting or Stopping, or  *)
(* the last hook thread still alive, returns without a change.             *)

StartAllowed ==
    /\ ControlAt("idle")
    /\ status \in {"Stopped", "Failed"}
    /\ hook_thread => pump = "finished"

(* Starting is written and published under one hold of `lifecycle`.        *)
StartHook ==
    /\ StartAllowed
    /\ stop_requested' = FALSE
    /\ hook_ready' = FALSE
    /\ hook_thread_id' = FALSE
    /\ status' = "Starting"
    /\ published' = "Starting"
    /\ hook_thread' = TRUE
    /\ pump' = "begin"
    /\ control' = "wait_ready"
    /\ UNCHANGED <<returns, pending, target, watching, hook, queue, timed_out>>

StartSpawnFails ==
    /\ StartAllowed
    /\ stop_requested' = FALSE
    /\ hook_ready' = FALSE
    /\ hook_thread_id' = FALSE
    /\ status' = "Failed"
    /\ published' = "Failed"
    /\ hook_thread' = FALSE
    /\ UNCHANGED <<control, returns, pump, pending, target, watching, hook,
                   queue, timed_out>>

ReadySeen ==
    /\ ControlAt("wait_ready")
    /\ hook_ready
    /\ control' = "check_running"
    /\ UNCHANGED <<returns, pump, lifecycle, published, hook_thread, target,
                   flags, watching, hook, queue, timed_out>>

(* After 3 seconds start gives up and stops the engine.                    *)
ReadyTimesOut ==
    /\ ControlAt("wait_ready")
    /\ ~hook_ready
    /\ timed_out' = TRUE
    /\ control' = "clear_dog"
    /\ after_dog' = "request"
    /\ after_stop' = "idle"
    /\ UNCHANGED <<pump, lifecycle, published, hook_thread, target, flags,
                   watching, hook, queue>>

CheckRunning ==
    /\ ControlAt("check_running")
    /\ IF status = "Running"
       THEN control' = "clear_dog" /\ after_dog' = "spawn_dog"
       ELSE control' = "idle" /\ UNCHANGED after_dog
    /\ UNCHANGED <<after_stop, pump, lifecycle, published, hook_thread, target,
                   flags, watching, hook, queue, timed_out>>

(* start_watchdog after stop_watchdog.  Its first tick comes an interval   *)
(* later, so the thread and EngineInner.watchdog appear together.          *)
SpawnDog ==
    /\ ControlAt("spawn_dog")
    /\ ~stop_requested
    /\ dog' = "wait"
    /\ watchdog' = TRUE
    /\ beat' = "fresh"
    /\ control' = "idle"
    /\ UNCHANGED <<returns, pump, lifecycle, published, hook_thread, target,
                   flags, stopping_dog, hook, queue, timed_out>>

SpawnDogFails ==
    /\ ControlAt("spawn_dog")
    /\ ~stop_requested
    /\ control' = "clear_dog"
    /\ after_dog' = "request"
    /\ after_stop' = "dog_failed"
    /\ UNCHANGED <<pump, lifecycle, published, hook_thread, target, flags,
                   watching, hook, queue, timed_out>>

DogFailed ==
    /\ ControlAt("dog_failed")
    /\ Write("control", "Failed")
    /\ control' = "idle"
    /\ UNCHANGED <<returns, pump, published, hook_thread, target, flags,
                   watching, hook, queue, timed_out>>

---------------------------------------------------------------------------
(* stop_watchdog.                                                          *)

ClearDog ==
    /\ ControlAt("clear_dog")
    /\ watchdog' = FALSE
    /\ control' = "drop_dog"
    /\ UNCHANGED <<returns, pump, lifecycle, published, hook_thread, target,
                   flags, stopping_dog, dog, beat, hook, queue, timed_out>>

(* Seeded fault: the thread is joined with its channel still connected.    *)
DropDogConnected ==
    /\ ControlAt("drop_dog")
    /\ control' = IF dog = "none" THEN after_dog ELSE "join_dog"
    /\ UNCHANGED <<returns, pump, lifecycle, published, hook_thread, target,
                   flags, watching, hook, queue, timed_out>>

DropDog ==
    /\ ControlAt("drop_dog")
    /\ control' = IF dog = "none" THEN after_dog ELSE "join_dog"
    /\ stopping_dog' = (dog # "none")
    /\ UNCHANGED <<returns, pump, lifecycle, published, hook_thread, target,
                   flags, watchdog, dog, beat, hook, queue, timed_out>>

JoinDog ==
    /\ ControlAt("join_dog")
    /\ dog = "done"
    /\ dog' = "none"
    /\ stopping_dog' = FALSE
    /\ control' = after_dog
    /\ UNCHANGED <<returns, pump, lifecycle, published, hook_thread, target,
                   flags, watchdog, beat, hook, queue, timed_out>>

---------------------------------------------------------------------------
(* stop.                                                                   *)

Stop ==
    /\ ControlAt("idle")
    /\ control' = "clear_dog"
    /\ after_dog' = "request"
    /\ after_stop' = "idle"
    /\ UNCHANGED <<pump, lifecycle, published, hook_thread, target, flags,
                   watching, hook, queue, timed_out>>

AlreadyStopped ==
    /\ ControlAt("request")
    /\ status = "Stopped" /\ ~hook_thread
    /\ control' = after_stop
    /\ UNCHANGED <<returns, pump, lifecycle, published, hook_thread, target,
                   flags, watching, hook, queue, timed_out>>

RequestStop ==
    /\ ControlAt("request")
    /\ ~(status = "Stopped" /\ ~hook_thread)
    /\ stop_requested' = TRUE
    /\ Write("control", "Stopping")
    /\ target' = hook_thread_id
    /\ control' = "post_quit"
    /\ UNCHANGED <<returns, pump, published, hook_thread, hook_thread_id,
                   hook_ready, watching, hook, queue, timed_out>>

(* Seeded fault: only the flag is set, and nothing wakes GetMessage.       *)
PostNoQuit ==
    /\ ControlAt("post_quit")
    /\ control' = "take"
    /\ UNCHANGED <<returns, pump, lifecycle, published, hook_thread, target,
                   flags, watching, hook, queue, timed_out>>

(* Posting to a thread without a queue fails and is reported as Stopping   *)
(* with an error.                                                          *)
PostQuit ==
    /\ ControlAt("post_quit")
    /\ queue' = IF target /\ HasQueue THEN WithQuit ELSE queue
    /\ WriteIf(target /\ ~HasQueue, "control", "Stopping")
    /\ control' = "take"
    /\ UNCHANGED <<returns, pump, published, hook_thread, target, flags,
                   watching, hook, timed_out>>

TakeHandle ==
    /\ ControlAt("take")
    /\ control' = IF hook_thread THEN "join" ELSE "settle"
    /\ hook_thread' = FALSE
    /\ UNCHANGED <<returns, pump, lifecycle, published, target, flags, watching,
                   hook, queue, timed_out>>

Joined ==
    /\ ControlAt("join")
    /\ pump = "finished"
    /\ control' = "settle"
    /\ UNCHANGED <<returns, pump, lifecycle, published, hook_thread, target,
                   flags, watching, hook, queue, timed_out>>

(* Seeded fault: the handle of a thread that outlives the wait is dropped. *)
JoinForgets ==
    /\ ControlAt("join")
    /\ pump # "finished"
    /\ timed_out' = TRUE
    /\ control' = "settle"
    /\ UNCHANGED <<returns, pump, lifecycle, published, hook_thread, target,
                   flags, watching, hook, queue>>

(* After 2 seconds the handle goes back.                                   *)
JoinTimesOut ==
    /\ ControlAt("join")
    /\ pump # "finished"
    /\ timed_out' = TRUE
    /\ hook_thread' = TRUE
    /\ control' = "settle"
    /\ UNCHANGED <<returns, pump, lifecycle, published, target, flags, watching,
                   hook, queue>>

(* Seeded fault: the final status is not published.                        *)
SettleSilently ==
    /\ ControlAt("settle")
    /\ status' = IF hook_thread THEN "Failed" ELSE "Stopped"
    /\ hook_thread_id' = (hook_thread /\ hook_thread_id)
    /\ control' = after_stop
    /\ UNCHANGED <<returns, pump, pending, published, hook_thread,
                   target, stop_requested, hook_ready, watching, hook, queue,
                   timed_out>>

Settle ==
    /\ ControlAt("settle")
    /\ Write("control", IF hook_thread THEN "Failed" ELSE "Stopped")
    /\ hook_thread_id' = (hook_thread /\ hook_thread_id)
    /\ control' = after_stop
    /\ UNCHANGED <<returns, pump, published, hook_thread, target,
                   stop_requested, hook_ready, watching, hook, queue, timed_out>>

---------------------------------------------------------------------------
(* restart_hook: only a Running engine is asked, with a forced request.    *)

(* Seeded fault: an engine that is not Running is asked as well.           *)
RestartHookUnchecked ==
    /\ ControlAt("idle")
    /\ Room
    /\ control' = "post_forced"
    /\ UNCHANGED <<returns, pump, lifecycle, published, hook_thread, target,
                   flags, watching, hook, queue, timed_out>>

RestartHook ==
    /\ ControlAt("idle")
    /\ Room
    /\ status = "Running"
    /\ control' = "post_forced"
    /\ UNCHANGED <<returns, pump, lifecycle, published, hook_thread, target,
                   flags, watching, hook, queue, timed_out>>

PostForced ==
    /\ ControlAt("post_forced")
    /\ queue' = IF hook_thread_id /\ HasQueue THEN Append(queue, "forced") ELSE queue
    /\ control' = "idle"
    /\ UNCHANGED <<returns, pump, lifecycle, published, hook_thread, target,
                   flags, watching, hook, timed_out>>

---------------------------------------------------------------------------
(* The hook thread: hook_thread_main and install_and_pump.                 *)

HookBegins ==
    /\ PumpAt("begin")
    /\ hook_thread_id' = TRUE
    /\ pump' = "peek"
    /\ UNCHANGED <<control, returns, lifecycle, published, hook_thread, target,
                   stop_requested, hook_ready, watching, hook, queue, timed_out>>

CreateQueue ==
    /\ PumpAt("peek")
    /\ pump' = "check"
    /\ queue' = <<>>
    /\ UNCHANGED <<control, returns, lifecycle, published, hook_thread, target,
                   flags, watching, hook, timed_out>>

CheckStop ==
    /\ PumpAt("check")
    /\ pump' = IF stop_requested THEN "exit" ELSE "install"
    /\ hook_ready' = (hook_ready \/ stop_requested)
    /\ UNCHANGED <<control, returns, lifecycle, published, hook_thread, target,
                   hook_thread_id, stop_requested, watching, hook, queue, timed_out>>

InstallHook ==
    /\ PumpAt("install")
    /\ hook' = "attached"
    /\ pump' = "running"
    /\ UNCHANGED <<control, returns, lifecycle, published, hook_thread, target,
                   flags, watching, queue, timed_out>>

InstallFails ==
    /\ PumpAt("install")
    /\ Write("hook", "Failed")
    /\ pump' = "not_installed"
    /\ UNCHANGED <<control, returns, published, hook_thread, target, flags,
                   watching, hook, queue, timed_out>>

(* Running is written whatever the status has become meanwhile.            *)
SetRunning ==
    /\ PumpAt("running")
    /\ Write("hook", "Running")
    /\ pump' = "ready"
    /\ UNCHANGED <<control, returns, published, hook_thread, target, flags,
                   watching, hook, queue, timed_out>>

SignalReady ==
    /\ PumpAt("ready") \/ PumpAt("not_installed")
    /\ hook_ready' = TRUE
    /\ pump' = IF pump = "ready" THEN "loop" ELSE "exit"
    /\ UNCHANGED <<control, returns, lifecycle, published, hook_thread, target,
                   hook_thread_id, stop_requested, watching, hook, queue, timed_out>>

Loop ==
    /\ PumpAt("loop")
    /\ pump' = IF stop_requested THEN "exit" ELSE "get"
    /\ UNCHANGED <<control, returns, lifecycle, published, hook_thread, target,
                   flags, watching, hook, queue, timed_out>>

PumpAfter(message) ==
    CASE message = "quit" -> "exit"
      [] message = "reinstall" -> "reinstall"
      [] message = "forced" -> "reinstall_forced"

GetMessage ==
    /\ PumpAt("get")
    /\ queue # <<>>
    /\ queue' = Tail(queue)
    /\ pump' = PumpAfter(Head(queue))
    /\ UNCHANGED <<control, returns, lifecycle, published, hook_thread, target,
                   flags, watching, hook, timed_out>>

(* GetMessage reports an error, or the pump panics.                        *)
PumpFails ==
    /\ PumpAt("get")
    /\ WriteIf(~stop_requested, "hook", "Failed")
    /\ pump' = "exit"
    /\ UNCHANGED <<control, returns, published, hook_thread, target, flags,
                   watching, hook, queue, timed_out>>

(* GetMessage returns a WM_QUIT nobody here posted.                        *)
ForeignQuit ==
    /\ PumpAt("get")
    /\ pump' = "exit"
    /\ UNCHANGED <<control, returns, lifecycle, published, hook_thread, target,
                   flags, watching, hook, queue, timed_out>>

(* A callback beats the watchdog; when Windows rejects what it sends it    *)
(* also fails the engine, and the pump goes on.                            *)
CallbackBeats ==
    /\ PumpAt("get")
    /\ hook = "attached"
    /\ watchdog
    /\ beat' = "fresh"
    /\ UNCHANGED <<control, returns, pump, lifecycle, published, hook_thread,
                   target, flags, watchdog, stopping_dog, dog, hook, queue, timed_out>>

CallbackFails ==
    /\ PumpAt("get")
    /\ hook = "attached"
    /\ Write("hook", "Failed")
    /\ beat' = IF watchdog THEN "fresh" ELSE beat
    /\ UNCHANGED <<control, returns, pump, published, hook_thread, target, flags,
                   watchdog, stopping_dog, dog, hook, queue, timed_out>>

(* reinstall_hook: without a watchdog, while stopping, or when a request   *)
(* that is not forced finds a fresh heartbeat.                             *)
NothingToRepair ==
    ~watchdog \/ stop_requested \/ (pump = "reinstall" /\ beat = "fresh")

SkipReinstall ==
    /\ PumpAt("reinstall") \/ PumpAt("reinstall_forced")
    /\ NothingToRepair
    /\ pump' = "loop"
    /\ UNCHANGED <<control, returns, lifecycle, published, hook_thread, target,
                   flags, watching, hook, queue, timed_out>>

Unhook ==
    /\ PumpAt("reinstall") \/ PumpAt("reinstall_forced")
    /\ ~NothingToRepair
    /\ hook' = "detached"
    /\ pump' = "rehook"
    /\ UNCHANGED <<control, returns, lifecycle, published, hook_thread, target,
                   flags, watching, queue, timed_out>>

Rehook ==
    /\ PumpAt("rehook")
    /\ hook' = "attached"
    /\ beat' = "fresh"
    /\ pump' = "loop"
    /\ UNCHANGED <<control, returns, lifecycle, published, hook_thread, target,
                   flags, watchdog, stopping_dog, dog, queue, timed_out>>

RehookFails ==
    /\ PumpAt("rehook")
    /\ Write("hook", "Failed")
    /\ pump' = "exit"
    /\ UNCHANGED <<control, returns, published, hook_thread, target, flags,
                   watching, hook, queue, timed_out>>

ExitUnhook ==
    /\ PumpAt("exit")
    /\ hook' = "detached"
    /\ pump' = "clear"
    /\ UNCHANGED <<control, returns, lifecycle, published, hook_thread, target,
                   flags, watching, queue, timed_out>>

(* Seeded fault: a thread that ends unasked leaves the status as it was.   *)
ClearIdOnly ==
    /\ PumpAt("clear")
    /\ hook_thread_id' = FALSE
    /\ pump' = "signal"
    /\ UNCHANGED <<control, returns, lifecycle, published, hook_thread, target,
                   stop_requested, hook_ready, watching, hook, queue, timed_out>>

ClearId ==
    /\ PumpAt("clear")
    /\ hook_thread_id' = FALSE
    /\ WriteIf(~stop_requested /\ status # "Failed", "hook", "Failed")
    /\ pump' = "signal"
    /\ UNCHANGED <<control, returns, published, hook_thread, target,
                   stop_requested, hook_ready, watching, hook, queue, timed_out>>

HookEnds ==
    /\ PumpAt("signal")
    /\ hook_ready' = TRUE
    /\ pump' = "finished"
    /\ queue' = <<>>
    /\ UNCHANGED <<control, returns, lifecycle, published, hook_thread, target,
                   hook_thread_id, stop_requested, watching, hook, timed_out>>

---------------------------------------------------------------------------
(* The watchdog thread.                                                    *)

DogWakes ==
    /\ dog = "wait"
    /\ Room
    /\ ~stopping_dog
    /\ ~stop_requested /\ status = "Running"
    /\ dog' = "tick"
    /\ UNCHANGED <<control, returns, pump, lifecycle, published, hook_thread,
                   target, flags, watchdog, stopping_dog, beat, hook, queue, timed_out>>

(* A fresh heartbeat gets a probe, which at most beats it again.           *)
DogProbes ==
    /\ dog = "tick"
    /\ ~watchdog \/ beat = "fresh"
    /\ dog' = "wait"
    /\ UNCHANGED <<control, returns, pump, lifecycle, published, hook_thread,
                   target, flags, watchdog, stopping_dog, beat, hook, queue, timed_out>>

(* Seeded fault: the watchdog is reset when the request was posted.        *)
DogResets ==
    /\ dog = "tick"
    /\ watchdog /\ beat = "stale"
    /\ beat' = "fresh"
    /\ dog' = "wait"
    /\ UNCHANGED <<control, returns, pump, lifecycle, published, hook_thread,
                   target, flags, watchdog, stopping_dog, hook, queue, timed_out>>

DogPosts ==
    /\ dog = "tick"
    /\ watchdog /\ beat = "stale"
    /\ IF hook_thread_id /\ HasQueue
       THEN queue' = Append(queue, "reinstall") /\ UNCHANGED beat
       ELSE beat' = "fresh" /\ UNCHANGED queue
    /\ dog' = "wait"
    /\ UNCHANGED <<control, returns, pump, lifecycle, published, hook_thread,
                   target, flags, watchdog, stopping_dog, hook, timed_out>>

DogStops ==
    /\ dog = "wait"
    /\ stopping_dog
    /\ dog' = "done"
    /\ UNCHANGED <<control, returns, pump, lifecycle, published, hook_thread,
                   target, flags, watchdog, stopping_dog, beat, hook, queue, timed_out>>

---------------------------------------------------------------------------
(* Windows and time.                                                       *)

HookLost ==
    /\ pump = "get"
    /\ hook = "attached"
    /\ hook' = "detached"
    /\ UNCHANGED <<control, returns, pump, lifecycle, published, hook_thread,
                   target, flags, watching, queue, timed_out>>

(* 15 seconds without a callback: no hook, a stalled thread, or probes     *)
(* that Windows rejects while the user is away.                            *)
BeatAges ==
    /\ watchdog
    /\ beat = "fresh"
    /\ beat' = "stale"
    /\ UNCHANGED <<control, returns, pump, lifecycle, published, hook_thread,
                   target, flags, watchdog, stopping_dog, dog, hook, queue, timed_out>>

---------------------------------------------------------------------------

Call == StartHook \/ StartSpawnFails \/ Stop \/ RestartHook

ControlStep ==
    \/ Publish("control")
    \/ ReadySeen \/ ReadyTimesOut \/ CheckRunning
    \/ SpawnDog \/ SpawnDogFails \/ DogFailed
    \/ ClearDog \/ DropDog \/ JoinDog
    \/ AlreadyStopped \/ RequestStop \/ PostQuit \/ TakeHandle
    \/ Joined \/ JoinTimesOut \/ Settle
    \/ PostForced

PumpStep ==
    \/ HookBegins \/ CreateQueue \/ CheckStop
    \/ InstallHook \/ InstallFails \/ SetRunning \/ SignalReady
    \/ Loop \/ GetMessage
    \/ SkipReinstall \/ Unhook \/ Rehook \/ RehookFails
    \/ ExitUnhook \/ ClearId \/ HookEnds

Callback == CallbackBeats \/ CallbackFails

DogStep == DogWakes \/ DogProbes \/ DogPosts \/ DogStops

Next ==
    \/ Call \/ ControlStep
    \/ Publish("hook") \/ PumpStep \/ PumpFails \/ ForeignQuit \/ Callback
    \/ DogStep
    \/ HookLost \/ BeatAges

Spec == Init /\ [][Next]_vars

(* The three threads run, and 15 seconds pass while no hook beats.  Posted *)
(* messages wait behind the callbacks of the keys, but keys leave pauses,  *)
(* so GetMessage, which callbacks keep interrupting, gets its turn.        *)
FairSpec ==
    /\ Spec
    /\ WF_vars(ControlStep)
    /\ WF_vars(Publish("hook"))
    /\ WF_vars(PumpStep)
    /\ SF_vars(GetMessage)
    /\ WF_vars(DogStep)
    /\ WF_vars(hook = "detached" /\ BeatAges)

---------------------------------------------------------------------------
(* Properties.                                                             *)

Quiet ==
    /\ ControlAt("idle")
    /\ PumpAt("none") \/ PumpAt("get") \/ PumpAt("finished")

(* Until a wait times out, the last event a subscriber got is the status   *)
(* once nobody is in the middle of changing it.                            *)
LastEventTrue == ~timed_out /\ Quiet => published = status

(* Until a wait times out, a Running engine whose start has returned has a *)
(* hook thread and a live watchdog: "the watchdog only exists while the    *)
(* engine is Running", and the other way round.                            *)
RunningIsServed ==
    ~timed_out /\ ControlAt("idle") /\ status = "Running" =>
       /\ pump \notin {"none", "signal", "finished"}
       /\ watchdog
       /\ dog \in {"wait", "tick"}

(* A Stopped engine has no hook installed and no hook thread running, also *)
(* after waits have timed out.                                             *)
StoppedIsQuiet ==
    status = "Stopped" => pump \in {"none", "finished"} /\ hook = "detached"

(* A hook thread and a watchdog are started over nothing the last ones     *)
(* have left, also after a stop that gave up on its wait: the last thread  *)
(* has ended, its hook is gone and no message of its waits.                *)
NewThreadsFindNothing ==
    [][/\ control # "wait_ready" /\ control' = "wait_ready" =>
             pump \in {"none", "finished"} /\ hook = "detached" /\ queue = <<>>
       /\ control = "spawn_dog" /\ control' = "idle" =>
             dog = "none" /\ ~stopping_dog]_vars

(* No thread waits for what nobody will do.  A hook thread that was asked  *)
(* to stop sits in GetMessage only with a WM_QUIT in its queue or about to *)
(* be posted, wherever the request caught it; and the watchdog is joined   *)
(* only while it is there and has been told to end.                        *)
NobodyWaitsInVain ==
    /\ stop_requested /\ pump = "get" =>
          HasQuit(queue) \/ (control = "post_quit" /\ target)
    /\ control = "join_dog" => dog # "none" /\ stopping_dog

(* start, stop and restart_hook return: every join and wait comes to its   *)
(* end.                                                                    *)
CallsReturn == control # "idle" ~> control = "idle"

(* A hook thread that was asked to stop ends, wherever the request caught  *)
(* it and whether or not stop waited for it.                               *)
HookThreadStops ==
    stop_requested /\ pump \notin {"none", "finished"}
        ~> pump \in {"none", "finished"}

(* Until a wait times out, a hook Windows removed from a Running engine is *)
(* put back, unless the engine stops Running.                              *)
LossIsRepaired ==
    (hook = "detached" /\ status = "Running" /\ ~timed_out)
        ~> (hook = "attached" \/ status # "Running" \/ timed_out)

(* The control thread is inside start, before any stop.                    *)
Starting ==
    \/ control \in {"wait_ready", "check_running", "spawn_dog"}
    \/ control \in {"clear_dog", "drop_dog", "join_dog"} /\ after_dog = "spawn_dog"

(* The call in progress, as EngineLayer has it.  stop returns when it has  *)
(* published its last status.                                              *)
CallSeen ==
    IF ControlAt("idle") \/ control = "post_forced" THEN "none"
    ELSE IF Starting THEN "starting"
    ELSE IF after_stop = "dog_failed" THEN "undoing"
    ELSE "stopping"

(* restart_hook's request "is forced: it runs even while heartbeats still  *)
(* arrive": between the calls a hook thread that takes one up never finds  *)
(* its watchdog gone or a stop requested, and reinstalls the hook.  Only a *)
(* stop drops a restart, until a wait times out, however long the request  *)
(* was queued and whatever failed meanwhile.                               *)
ForcedIsHonoured ==
    [][pump = "reinstall_forced" /\ pump' = "loop"
       => CallSeen = "stopping" \/ timed_out]_vars

Layer == INSTANCE EngineLayer WITH
    call <- CallSeen,
    status <- status,
    late <- timed_out

(* The engine keeps the promise the application builds on, EngineLayer:    *)
(* statuses between calls, Stopped until the next start, and Running again *)
(* without a start only after a wait has expired.                          *)
ImplementsEngineLayer == Layer!EngineSpec

(* engine.rs: "Returns false when the engine is not Running (start/stop    *)
(* own hook lifetime then)": between the calls, whatever timed out, an     *)
(* engine that is Running has a hook thread to own the hook.               *)
RunningHasThread ==
    ControlAt("idle") /\ status = "Running" => pump \notin {"none", "finished"}
=============================================================================
