-------------------------- MODULE HookEngineProofs --------------------------
(***************************************************************************)
(* Proofs about HookEngine, for any bound on the queue: its safety         *)
(* properties, and that it implements EngineLayer.                         *)
(***************************************************************************)
EXTENDS HookEngine, TLAPS

---------------------------------------------------------------------------
(* The inductive invariant.  Its parts say what each thread may count on   *)
(* while another is between two of its steps.                              *)

Dead == {"none", "finished"}

(* The hook thread has not yet said whether its hook is installed.         *)
Early == {"begin", "peek", "check", "install", "running"}

(* The hook thread while nobody has told it, or found it, to be over.      *)
Serving == {"ready", "loop", "get", "reinstall", "reinstall_forced", "rehook",
            "exit", "clear"}

(* The control thread is inside stop, past its request.                    *)
Stopping == control \in {"post_quit", "take", "join", "settle"}

(* No call is in progress; at "idle" a status may have to be published.    *)
Between == control \in {"idle", "post_forced"}

(* A hook thread that runs has its handle kept, or is being joined.        *)
AliveHasHandle == pump \notin Dead => hook_thread \/ control = "join"

(* Where the hook cannot be attached.                                      *)
DetachedAt ==
    pump \in Dead \cup {"begin", "peek", "check", "install", "not_installed",
                        "rehook", "clear", "signal"}
        => hook = "detached"

StoppedIsDead == status = "Stopped" => pump \in Dead /\ ~Stopping

(* While start waits nobody else stops, and it waits for an early thread.  *)
StartSeen ==
    Starting =>
       /\ ~stop_requested
       /\ status \in {"Starting", "Running", "Failed"}
       /\ status = "Starting" =>
            control = "wait_ready" /\ ~hook_ready /\ pump \in Early

(* Unless a wait has timed out, start waits for a thread that is early.    *)
EarlyIsAwaited ==
    pump \in Early =>
       \/ timed_out
       \/ control = "wait_ready" /\ status = "Starting" /\ ~hook_ready

(* Only a timed-out stop ends with the hook thread alive.                  *)
EndsWithoutThread ==
    hook_thread /\ ~timed_out =>
       /\ control \notin {"settle", "dog_failed"}
       /\ control = "idle" => pending["control"] = NoStatus

(* What a call has written when it has only to publish it.                 *)
EndsAs ==
    control = "idle" /\ pending["control"] # NoStatus =>
       \/ status = (IF after_stop = "idle" THEN "Stopped" ELSE "Failed")
       \/ (timed_out /\ status \in {"Failed", "Running"})

(* Where the control thread can have a status to publish.                  *)
PendingAt ==
    pending["control"] # NoStatus =>
       control \in {"post_quit", "take", "idle", "dog_failed"}

DeadHasPublished == pump \in Dead => pending["hook"] = NoStatus

(* Outside stop, the status is what was published or is about to be.       *)
StatusTold ==
    timed_out \/ Stopping \/
       status = IF pending["control"] # NoStatus THEN pending["control"]
                ELSE IF pending["hook"] # NoStatus THEN pending["hook"]
                ELSE published

(* A handle that is joined is not kept, and only an undone start fails.    *)
HandleTaken == control = "join" => ~hook_thread
UndoneAfterStop == control = "dog_failed" => after_stop = "dog_failed"

(* The watchdog a start spawns is a new one.                               *)
NoOldDog == control = "spawn_dog" => dog = "none" /\ ~stopping_dog

(* A Running engine that no call is about to stop is served.               *)
RunningServed ==
    status = "Running" /\ (Between \/ Starting) =>
       timed_out \/ (~stop_requested /\ pump \in Serving)

RunningWatched ==
    status = "Running" /\ Between =>
       timed_out \/ (watchdog /\ dog \in {"wait", "tick"} /\ ~stopping_dog)

(* Types, but for the queue.                                               *)
Types ==
    /\ control \in ControlPoints
    /\ after_dog \in {"spawn_dog", "request"}
    /\ after_stop \in {"idle", "dog_failed"}
    /\ pump \in PumpPoints
    /\ dog \in DogPoints
    /\ status \in Statuses
    /\ published \in Statuses
    /\ pending \in [Threads -> Statuses \cup {NoStatus}]
    /\ hook_thread \in BOOLEAN
    /\ hook_thread_id \in BOOLEAN
    /\ target \in BOOLEAN
    /\ stop_requested \in BOOLEAN
    /\ hook_ready \in BOOLEAN
    /\ watchdog \in BOOLEAN
    /\ stopping_dog \in BOOLEAN
    /\ beat \in {"fresh", "stale"}
    /\ hook \in {"attached", "detached"}
    /\ timed_out \in BOOLEAN

(* Requests somebody is about to post.                                     *)
Promised ==
    (IF dog = "tick" THEN 1 ELSE 0)
        + (IF control = "post_forced" THEN 1 ELSE 0)

(* The watchdog and a restart may each have found room for a request; only *)
(* a WM_QUIT is posted whatever waits.                                     *)
QueueBounded ==
    Len(queue) + Promised <= MaxQueue + 1 + (IF HasQuit(queue) THEN 1 ELSE 0)

QueueInv ==
    /\ queue \in Seq(Messages)
    /\ ~HasQueue => queue = <<>>
    /\ QueueBounded

EngineInv ==
    /\ AliveHasHandle /\ DetachedAt /\ StoppedIsDead
    /\ StartSeen /\ EarlyIsAwaited
    /\ EndsWithoutThread /\ EndsAs /\ PendingAt
    /\ DeadHasPublished /\ StatusTold
    /\ HandleTaken /\ UndoneAfterStop
    /\ NoOldDog /\ RunningServed /\ RunningWatched

---------------------------------------------------------------------------
(* Type correctness, and what each step keeps of the invariant.            *)

(* What the pump does with a message.                                      *)
LEMMA MessagesMove ==
    \A m \in Messages :
        PumpAfter(m) \in {"exit", "reinstall", "reinstall_forced"}
<1> SUFFICES ASSUME NEW m \in Messages
             PROVE  PumpAfter(m) \in {"exit", "reinstall", "reinstall_forced"}
  OBVIOUS
<1>1. CASE m = "quit"
  BY <1>1 DEF PumpAfter
<1>2. CASE m = "reinstall"
  BY <1>2 DEF PumpAfter
<1>3. CASE m = "forced"
  BY <1>3 DEF PumpAfter
<1> QED  BY <1>1, <1>2, <1>3 DEF Messages

(* Where GetMessage leaves the hook thread.                                *)
LEMMA PumpMoves ==
    ASSUME queue \in Seq(Messages), GetMessage
    PROVE  pump' \in {"exit", "reinstall", "reinstall_forced"}
<1>1. Head(queue) \in Messages
  BY DEF GetMessage
<1> QED  BY <1>1, MessagesMove DEF GetMessage

LEMMA InitTypes == Init => Types
  BY DEF Init, Types, ControlPoints, PumpPoints, DogPoints, Statuses, Threads

(* The control thread, the hook thread, and the watchdog with Windows.     *)
LEMMA ControlTypes ==
    ASSUME Types,
           Call \/ ControlStep
    PROVE  Types'
<1> USE DEF Types, ControlPoints, PumpPoints, DogPoints, Statuses, Threads,
            ControlAt, PumpAt, Write, WriteIf, returns, lifecycle, flags,
            watching
<1>1. CASE Publish("control")
  BY <1>1 DEF Publish
<1>2. CASE StartHook
  BY <1>2 DEF StartHook, StartAllowed
<1>3. CASE StartSpawnFails
  <2>1. /\ stop_requested' \in BOOLEAN /\ hook_ready' \in BOOLEAN
        /\ hook_thread_id' \in BOOLEAN /\ hook_thread' \in BOOLEAN
    <3>1. FALSE \in BOOLEAN
      OBVIOUS
    <3> QED  BY <1>3, <3>1 DEF StartSpawnFails
  <2> QED  BY <1>3, <2>1 DEF StartSpawnFails
<1>4. CASE ReadySeen
  BY <1>4 DEF ReadySeen
<1>5. CASE ReadyTimesOut
  BY <1>5 DEF ReadyTimesOut
<1>6. CASE CheckRunning
  BY <1>6 DEF CheckRunning
<1>7. CASE SpawnDog
  BY <1>7 DEF SpawnDog
<1>8. CASE SpawnDogFails
  BY <1>8 DEF SpawnDogFails
<1>9. CASE DogFailed
  BY <1>9 DEF DogFailed
<1>10. CASE Stop
  BY <1>10 DEF Stop
<1>11. CASE ClearDog
  <2>1. watchdog' \in BOOLEAN
    <3>1. watchdog' = FALSE
      BY <1>11 DEF ClearDog
    <3> QED  BY <3>1
  <2> QED  BY <1>11, <2>1 DEF ClearDog
<1>12. CASE DropDog
  BY <1>12 DEF DropDog
<1>13. CASE JoinDog
  <2>1. stopping_dog' \in BOOLEAN
    <3>1. stopping_dog' = FALSE
      BY <1>13 DEF JoinDog
    <3> QED  BY <3>1
  <2> QED  BY <1>13, <2>1 DEF JoinDog
<1>14. CASE AlreadyStopped
  BY <1>14 DEF AlreadyStopped
<1>15. CASE RequestStop
  BY <1>15 DEF RequestStop
<1>16. CASE PostQuit
  BY <1>16 DEF PostQuit
<1>17. CASE TakeHandle
  <2>1. hook_thread' \in BOOLEAN
    <3>1. hook_thread' = FALSE
      BY <1>17 DEF TakeHandle
    <3> QED  BY <3>1
  <2> QED  BY <1>17, <2>1 DEF TakeHandle
<1>18. CASE Joined
  BY <1>18 DEF Joined
<1>19. CASE JoinTimesOut
  BY <1>19 DEF JoinTimesOut
<1>20. CASE Settle
  BY <1>20 DEF Settle
<1>21. CASE RestartHook
  BY <1>21 DEF RestartHook
<1>22. CASE PostForced
  BY <1>22 DEF PostForced
<1> QED  BY <1>1, <1>2, <1>3, <1>4, <1>5, <1>6, <1>7, <1>8, <1>9, <1>10,
         <1>11, <1>12, <1>13, <1>14, <1>15, <1>16, <1>17, <1>18, <1>19,
         <1>20, <1>21, <1>22
         DEF Call, ControlStep

LEMMA HookTypes ==
    ASSUME Types, queue \in Seq(Messages),
           Publish("hook") \/ PumpStep \/ PumpFails \/ ForeignQuit \/ Callback
    PROVE  Types'
<1> USE DEF Types, ControlPoints, PumpPoints, DogPoints, Statuses, Threads,
            ControlAt, PumpAt, Write, WriteIf, returns, lifecycle, flags,
            watching
<1>1. CASE Publish("hook")
  BY <1>1 DEF Publish
<1>2. CASE HookBegins
  BY <1>2 DEF HookBegins
<1>3. CASE CreateQueue
  BY <1>3 DEF CreateQueue
<1>4. CASE CheckStop
  BY <1>4 DEF CheckStop
<1>5. CASE InstallHook
  BY <1>5 DEF InstallHook
<1>6. CASE InstallFails
  BY <1>6 DEF InstallFails
<1>7. CASE SetRunning
  BY <1>7 DEF SetRunning
<1>8. CASE SignalReady
  BY <1>8 DEF SignalReady
<1>9. CASE Loop
  BY <1>9 DEF Loop
<1>10. CASE GetMessage
  BY <1>10, PumpMoves DEF GetMessage
<1>11. CASE PumpFails
  BY <1>11 DEF PumpFails
<1>12. CASE ForeignQuit
  BY <1>12 DEF ForeignQuit
<1>13. CASE CallbackBeats
  BY <1>13 DEF CallbackBeats
<1>14. CASE CallbackFails
  BY <1>14 DEF CallbackFails
<1>15. CASE SkipReinstall
  BY <1>15 DEF SkipReinstall, NothingToRepair
<1>16. CASE Unhook
  BY <1>16 DEF Unhook, NothingToRepair
<1>17. CASE Rehook
  BY <1>17 DEF Rehook
<1>18. CASE RehookFails
  BY <1>18 DEF RehookFails
<1>19. CASE ExitUnhook
  BY <1>19 DEF ExitUnhook
<1>20. CASE ClearId
  <2>1. hook_thread_id' \in BOOLEAN
    <3>1. hook_thread_id' = FALSE
      BY <1>20 DEF ClearId
    <3> QED  BY <3>1
  <2> QED  BY <1>20, <2>1 DEF ClearId
<1>21. CASE HookEnds
  BY <1>21 DEF HookEnds
<1> QED  BY <1>1, <1>2, <1>3, <1>4, <1>5, <1>6, <1>7, <1>8, <1>9, <1>10,
         <1>11, <1>12, <1>13, <1>14, <1>15, <1>16, <1>17, <1>18, <1>19,
         <1>20, <1>21
         DEF PumpStep, Callback

LEMMA WatchdogTypes ==
    ASSUME Types,
           DogStep \/ HookLost \/ BeatAges
    PROVE  Types'
<1> USE DEF Types, ControlPoints, PumpPoints, DogPoints, Statuses, Threads,
            ControlAt, PumpAt, Write, WriteIf, returns, lifecycle, flags,
            watching
<1>1. CASE DogWakes
  BY <1>1 DEF DogWakes
<1>2. CASE DogProbes
  BY <1>2 DEF DogProbes
<1>3. CASE DogPosts
  BY <1>3 DEF DogPosts
<1>4. CASE DogStops
  BY <1>4 DEF DogStops
<1>5. CASE HookLost
  BY <1>5 DEF HookLost
<1>6. CASE BeatAges
  BY <1>6 DEF BeatAges
<1> QED  BY <1>1, <1>2, <1>3, <1>4, <1>5, <1>6
         DEF DogStep

LEMMA InitInv == Init => EngineInv
  BY NoStatusAssumption
  DEF Init, Statuses, Threads, EngineInv, AliveHasHandle, DetachedAt,
      StoppedIsDead, StartSeen, EarlyIsAwaited, EndsWithoutThread, EndsAs,
      PendingAt, DeadHasPublished, StatusTold, HandleTaken, UndoneAfterStop,
      NoOldDog, RunningServed, RunningWatched, Dead, Early, Starting,
      Stopping, Between

(* The invariant, thread by thread.                                        *)
LEMMA ControlInv ==
    ASSUME Types, EngineInv,
           Call \/ ControlStep
    PROVE  EngineInv'
<1> USE NoStatusAssumption
    DEF Types, ControlPoints, PumpPoints, Statuses, Threads,
        EngineInv, AliveHasHandle, DetachedAt, StoppedIsDead, StartSeen,
        EarlyIsAwaited, EndsWithoutThread, EndsAs, PendingAt, DeadHasPublished,
        StatusTold, HandleTaken, UndoneAfterStop, NoOldDog, RunningServed,
        RunningWatched, Dead, Early, Serving, Starting, Stopping, Between,
        ControlAt, PumpAt, Write, WriteIf, returns, lifecycle, flags, watching
<1>1. CASE Publish("control")
  BY <1>1 DEF Publish
<1>2. CASE StartHook
  BY <1>2 DEF StartHook, StartAllowed
<1>3. CASE StartSpawnFails
  BY <1>3 DEF StartSpawnFails, StartAllowed
<1>4. CASE ReadySeen
  BY <1>4 DEF ReadySeen
<1>5. CASE ReadyTimesOut
  BY <1>5 DEF ReadyTimesOut
<1>6. CASE CheckRunning
  BY <1>6 DEF CheckRunning
<1>7. CASE SpawnDog
  BY <1>7 DEF SpawnDog
<1>8. CASE SpawnDogFails
  BY <1>8 DEF SpawnDogFails
<1>9. CASE DogFailed
  BY <1>9 DEF DogFailed
<1>10. CASE Stop
  BY <1>10 DEF Stop
<1>11. CASE ClearDog
  BY <1>11 DEF ClearDog
<1>12. CASE DropDog
  BY <1>12 DEF DropDog
<1>13. CASE JoinDog
  BY <1>13 DEF JoinDog
<1>14. CASE AlreadyStopped
  BY <1>14 DEF AlreadyStopped
<1>15. CASE RequestStop
  BY <1>15 DEF RequestStop
<1>16. CASE PostQuit
  BY <1>16 DEF PostQuit
<1>17. CASE TakeHandle
  BY <1>17 DEF TakeHandle
<1>18. CASE Joined
  BY <1>18 DEF Joined
<1>19. CASE JoinTimesOut
  BY <1>19 DEF JoinTimesOut
<1>20. CASE Settle
  BY <1>20 DEF Settle
<1>21. CASE RestartHook
  BY <1>21 DEF RestartHook
<1>22. CASE PostForced
  BY <1>22 DEF PostForced
<1> QED  BY <1>1, <1>2, <1>3, <1>4, <1>5, <1>6, <1>7, <1>8, <1>9, <1>10,
         <1>11, <1>12, <1>13, <1>14, <1>15, <1>16, <1>17, <1>18, <1>19,
         <1>20, <1>21, <1>22
         DEF Call, ControlStep

LEMMA HookInv ==
    ASSUME Types, EngineInv, queue \in Seq(Messages),
           Publish("hook") \/ PumpStep \/ PumpFails \/ ForeignQuit \/ Callback
    PROVE  EngineInv'
<1> USE NoStatusAssumption
    DEF Types, ControlPoints, PumpPoints, Statuses, Threads,
        EngineInv, AliveHasHandle, DetachedAt, StoppedIsDead, StartSeen,
        EarlyIsAwaited, EndsWithoutThread, EndsAs, PendingAt, DeadHasPublished,
        StatusTold, HandleTaken, UndoneAfterStop, NoOldDog, RunningServed,
        RunningWatched, Dead, Early, Serving, Starting, Stopping, Between,
        ControlAt, PumpAt, Write, WriteIf, returns, lifecycle, flags, watching
<1>1. CASE Publish("hook")
  BY <1>1 DEF Publish
<1>2. CASE HookBegins
  BY <1>2 DEF HookBegins
<1>3. CASE CreateQueue
  BY <1>3 DEF CreateQueue
<1>4. CASE CheckStop
  BY <1>4 DEF CheckStop
<1>5. CASE InstallHook
  BY <1>5 DEF InstallHook
<1>6. CASE InstallFails
  BY <1>6 DEF InstallFails
<1>7. CASE SetRunning
  BY <1>7 DEF SetRunning
<1>8. CASE SignalReady
  BY <1>8 DEF SignalReady
<1>9. CASE Loop
  BY <1>9 DEF Loop
<1>10. CASE GetMessage
  BY <1>10, PumpMoves DEF GetMessage
<1>11. CASE PumpFails
  BY <1>11 DEF PumpFails
<1>12. CASE ForeignQuit
  BY <1>12 DEF ForeignQuit
<1>13. CASE CallbackBeats
  BY <1>13 DEF CallbackBeats
<1>14. CASE CallbackFails
  BY <1>14 DEF CallbackFails
<1>15. CASE SkipReinstall
  BY <1>15 DEF SkipReinstall, NothingToRepair
<1>16. CASE Unhook
  BY <1>16 DEF Unhook, NothingToRepair
<1>17. CASE Rehook
  BY <1>17 DEF Rehook
<1>18. CASE RehookFails
  BY <1>18 DEF RehookFails
<1>19. CASE ExitUnhook
  BY <1>19 DEF ExitUnhook
<1>20. CASE ClearId
  BY <1>20 DEF ClearId
<1>21. CASE HookEnds
  BY <1>21 DEF HookEnds
<1> QED  BY <1>1, <1>2, <1>3, <1>4, <1>5, <1>6, <1>7, <1>8, <1>9, <1>10,
         <1>11, <1>12, <1>13, <1>14, <1>15, <1>16, <1>17, <1>18, <1>19,
         <1>20, <1>21
         DEF PumpStep, Callback

LEMMA WatchdogInv ==
    ASSUME Types, EngineInv,
           DogStep \/ HookLost \/ BeatAges
    PROVE  EngineInv'
<1> USE NoStatusAssumption
    DEF Types, ControlPoints, PumpPoints, Statuses, Threads,
        EngineInv, AliveHasHandle, DetachedAt, StoppedIsDead, StartSeen,
        EarlyIsAwaited, EndsWithoutThread, EndsAs, PendingAt, DeadHasPublished,
        StatusTold, HandleTaken, UndoneAfterStop, NoOldDog, RunningServed,
        RunningWatched, Dead, Early, Serving, Starting, Stopping, Between,
        ControlAt, PumpAt, Write, WriteIf, returns, lifecycle, flags, watching
<1>1. CASE DogWakes
  BY <1>1 DEF DogWakes
<1>2. CASE DogProbes
  BY <1>2 DEF DogProbes
<1>3. CASE DogPosts
  BY <1>3 DEF DogPosts
<1>4. CASE DogStops
  BY <1>4 DEF DogStops
<1>5. CASE HookLost
  BY <1>5 DEF HookLost
<1>6. CASE BeatAges
  BY <1>6 DEF BeatAges
<1> QED  BY <1>1, <1>2, <1>3, <1>4, <1>5, <1>6
         DEF DogStep

(* The whole step.                                                         *)
LEMMA NextInv ==
    ASSUME Types, EngineInv, queue \in Seq(Messages), [Next]_vars
    PROVE  Types' /\ EngineInv'
<1>1. CASE Call \/ ControlStep
  BY <1>1, ControlTypes, ControlInv
<1>2. CASE Publish("hook") \/ PumpStep \/ PumpFails \/ ForeignQuit \/ Callback
  BY <1>2, HookTypes, HookInv
<1>3. CASE DogStep \/ HookLost \/ BeatAges
  BY <1>3, WatchdogTypes, WatchdogInv
<1>4. CASE UNCHANGED vars
  BY <1>4
  DEF vars, returns, lifecycle, flags, watching, Types, EngineInv,
      AliveHasHandle, DetachedAt, StoppedIsDead, StartSeen, EarlyIsAwaited,
      EndsWithoutThread, EndsAs, PendingAt, DeadHasPublished, StatusTold,
      HandleTaken, UndoneAfterStop, NoOldDog, RunningServed, RunningWatched,
      Starting, Stopping, Between
<1> QED  BY <1>1, <1>2, <1>3, <1>4 DEF Next

---------------------------------------------------------------------------
(* The queue.                                                              *)

(* A posted message, and one that is taken.                                *)
LEMMA AppendMessage ==
    ASSUME NEW q \in Seq(Messages), NEW m \in Messages
    PROVE  /\ Append(q, m) \in Seq(Messages)
           /\ Len(Append(q, m)) = Len(q) + 1
           /\ HasQuit(q) \/ m = "quit" => HasQuit(Append(q, m))
<1>1. Append(q, m) \in Seq(Messages) /\ Len(Append(q, m)) = Len(q) + 1
  OBVIOUS
<1>2. HasQuit(q) => HasQuit(Append(q, m))
  <2> SUFFICES ASSUME HasQuit(q)
               PROVE  HasQuit(Append(q, m))
    OBVIOUS
  <2>1. PICK i \in 1..Len(q) : q[i] = "quit"
    BY DEF HasQuit
  <2>2. i \in 1..Len(Append(q, m)) /\ Append(q, m)[i] = "quit"
    BY <1>1, <2>1
  <2> QED  BY <2>2 DEF HasQuit
<1>3. m = "quit" => HasQuit(Append(q, m))
  <2>1. Len(q) + 1 \in 1..Len(Append(q, m)) /\ Append(q, m)[Len(q) + 1] = m
    BY <1>1
  <2> QED  BY <2>1 DEF HasQuit
<1> QED  BY <1>1, <1>2, <1>3

LEMMA TakeMessage ==
    ASSUME NEW q \in Seq(Messages), q # <<>>
    PROVE  /\ Tail(q) \in Seq(Messages)
           /\ Len(Tail(q)) = Len(q) - 1
           /\ HasQuit(q) /\ Head(q) # "quit" => HasQuit(Tail(q))
<1>1. Tail(q) \in Seq(Messages) /\ Len(Tail(q)) = Len(q) - 1
  OBVIOUS
<1>2. ASSUME HasQuit(q), Head(q) # "quit"
      PROVE  HasQuit(Tail(q))
  <2>1. PICK i \in 1..Len(q) : q[i] = "quit"
    BY <1>2 DEF HasQuit
  <2>2. i # 1
    BY <1>2, <2>1
  <2>3. i - 1 \in 1..Len(Tail(q)) /\ Tail(q)[i - 1] = "quit"
    BY <1>1, <2>1, <2>2
  <2> QED  BY <2>3 DEF HasQuit
<1> QED  BY <1>1, <1>2

LEMMA InitQueue == Init => QueueInv
<1> SUFFICES ASSUME Init
             PROVE  QueueInv
  OBVIOUS
<1>1. queue = <<>> /\ queue \in Seq(Messages) /\ Len(queue) = 0
  BY DEF Init
<1>2. Promised = 0
  BY DEF Init, Promised
<1>3. \A b \in BOOLEAN : 0 + 0 <= MaxQueue + 1 + (IF b THEN 1 ELSE 0)
  BY MaxQueueAssumption
<1>4. HasQuit(queue) \in BOOLEAN
  BY DEF HasQuit
<1> QED  BY <1>1, <1>2, <1>3, <1>4 DEF QueueInv, QueueBounded

(* A step that neither posts, takes nor promises a message, and leaves a   *)
(* queue to the thread that has one.                                       *)
QueueLeft ==
    /\ queue' = queue
    /\ dog' = "tick" => dog = "tick"
    /\ control' = "post_forced" => control = "post_forced"
    /\ HasQueue => HasQueue'

LEMMA QueueKept == QueueInv /\ QueueLeft => QueueInv'
<1> SUFFICES ASSUME QueueInv, QueueLeft
             PROVE  QueueInv'
  OBVIOUS
<1>1. /\ HasQuit(queue)' = HasQuit(queue)
      /\ Len(queue') = Len(queue) /\ Len(queue) \in Nat
  BY DEF QueueLeft, QueueInv, HasQuit
<1>2. Promised' <= Promised /\ Promised \in Nat /\ Promised' \in Nat
  BY DEF QueueLeft, Promised
<1>3. QueueBounded'
  BY <1>1, <1>2, MaxQueueAssumption DEF QueueInv, QueueBounded
<1> QED  BY <1>3 DEF QueueInv, QueueLeft

(* The steps that have nothing to do with the queue.                       *)
LEMMA QueueLeftAlone ==
    ASSUME Types,
           \/ Publish("control") \/ StartSpawnFails \/ ReadySeen
           \/ ReadyTimesOut \/ CheckRunning \/ SpawnDog \/ SpawnDogFails
           \/ DogFailed \/ Stop \/ ClearDog \/ DropDog \/ JoinDog
           \/ AlreadyStopped \/ RequestStop \/ TakeHandle \/ Joined
           \/ JoinTimesOut \/ Settle \/ Publish("hook") \/ HookBegins
           \/ CheckStop \/ InstallHook \/ InstallFails \/ SetRunning
           \/ SignalReady \/ Loop \/ PumpFails \/ ForeignQuit
           \/ CallbackBeats \/ CallbackFails \/ SkipReinstall \/ Unhook
           \/ Rehook \/ RehookFails \/ ExitUnhook \/ ClearId \/ DogProbes
           \/ DogStops \/ HookLost \/ BeatAges
    PROVE  QueueLeft
<1> USE DEF Types, QueueLeft, HasQueue, ControlAt, PumpAt, returns, watching
<1>1. CASE \/ Publish("control") \/ StartSpawnFails \/ ReadySeen
           \/ ReadyTimesOut \/ CheckRunning \/ SpawnDog \/ SpawnDogFails
           \/ DogFailed \/ Stop \/ ClearDog
  BY <1>1 DEF Publish, StartSpawnFails, ReadySeen, ReadyTimesOut,
         CheckRunning, SpawnDog, SpawnDogFails, DogFailed, Stop, ClearDog
<1>2. CASE \/ DropDog \/ JoinDog \/ AlreadyStopped \/ RequestStop
           \/ TakeHandle \/ Joined \/ JoinTimesOut \/ Settle
  BY <1>2 DEF DropDog, JoinDog, AlreadyStopped, RequestStop, TakeHandle,
         Joined, JoinTimesOut, Settle
<1>3. CASE \/ Publish("hook") \/ HookBegins \/ CheckStop \/ InstallHook
           \/ InstallFails \/ SetRunning \/ SignalReady \/ Loop \/ PumpFails
  BY <1>3 DEF Publish, HookBegins, CheckStop, InstallHook, InstallFails,
         SetRunning, SignalReady, Loop, PumpFails
<1>4. CASE \/ ForeignQuit \/ CallbackBeats \/ CallbackFails \/ SkipReinstall
           \/ Unhook \/ Rehook \/ RehookFails \/ ExitUnhook \/ ClearId
  BY <1>4 DEF ForeignQuit, CallbackBeats, CallbackFails, SkipReinstall,
         Unhook, Rehook, RehookFails, ExitUnhook, ClearId
<1>5. CASE \/ DogProbes \/ DogStops \/ HookLost \/ BeatAges
  BY <1>5 DEF DogProbes, DogStops, HookLost, BeatAges
<1> QED  BY <1>1, <1>2, <1>3, <1>4, <1>5

(* The queue, message by message.                                          *)
LEMMA NextQueue ==
    ASSUME Types, EngineInv, QueueInv, [Next]_vars
    PROVE  QueueInv'
<1> USE DEF QueueInv
<1>1. Len(queue) \in Nat /\ MaxQueue \in Nat /\ MaxQueue >= 1
  BY MaxQueueAssumption
<1>2. CASE StartHook
  <2>1. queue = <<>>
    BY <1>2 DEF StartHook, StartAllowed, ControlAt, HasQueue, EngineInv,
                AliveHasHandle, Dead
  <2>2. QueueBounded'
    BY <1>1, <1>2 DEF StartHook, QueueBounded, Promised, HasQuit, watching
  <2> QED  BY <1>2, <2>1, <2>2 DEF StartHook
<1>3. CASE CreateQueue \/ HookEnds
  <2>1. queue' = <<>> /\ Len(queue') = 0 /\ queue' \in Seq(Messages)
    <3>1. Len(<<>>) = 0 /\ <<>> \in Seq(Messages)
      OBVIOUS
    <3> QED  BY <1>3, <3>1 DEF CreateQueue, HookEnds
  <2>2. Len(queue') + Promised' \in 0..2
    BY <2>1 DEF Promised
  <2>3. \A b \in BOOLEAN : 2 <= MaxQueue + 1 + (IF b THEN 1 ELSE 0)
    BY <1>1
  <2>4. HasQuit(queue)' \in BOOLEAN
    BY DEF HasQuit
  <2>5. QueueBounded'
    <3> HIDE DEF QueueInv
    <3> QED  BY <1>1, <2>2, <2>3, <2>4 DEF QueueBounded
  <2> QED  BY <2>1, <2>5
<1>4. CASE RestartHook \/ DogWakes
  <2>1. queue' = queue /\ (HasQueue => HasQueue') /\ Room
    BY <1>4 DEF RestartHook, DogWakes, HasQueue
  <2>2. Promised' \in 0..2
    BY DEF Promised
  <2>3. QueueBounded'
    BY <1>1, <2>1, <2>2 DEF QueueBounded, Room
  <2> QED  BY <2>1, <2>3
<1>5. CASE PostForced \/ DogPosts
  <2>1. /\ HasQueue' = HasQueue
        /\ Promised \in Nat /\ Promised' = Promised - 1
    BY <1>5 DEF PostForced, DogPosts, HasQueue, Promised, ControlAt, watching
  <2>2. CASE queue' = queue
    <3>1. HasQuit(queue)' = HasQuit(queue)
      BY <2>2 DEF HasQuit
    <3>2. QueueBounded'
      BY <1>1, <2>1, <2>2, <3>1 DEF QueueBounded
    <3> QED  BY <2>1, <2>2, <3>2
  <2>3. ASSUME NEW m \in Messages, HasQueue, queue' = Append(queue, m)
        PROVE  QueueInv'
    <3>1. /\ queue' \in Seq(Messages) /\ Len(queue') = Len(queue) + 1
          /\ HasQuit(queue) => HasQuit(queue)'
      BY <2>3, AppendMessage DEF HasQuit
    <3>2. QueueBounded'
      BY <1>1, <2>1, <3>1 DEF QueueBounded
    <3> QED  BY <2>1, <2>3, <3>1, <3>2
  <2> QED  BY <1>5, <2>2, <2>3 DEF PostForced, DogPosts, Messages
<1>6. CASE PostQuit
  <2>1. HasQueue' = HasQueue /\ Promised \in Nat /\ Promised' = Promised
    BY <1>6 DEF PostQuit, HasQueue, Promised, ControlAt, watching
  <2>2. CASE queue' = queue
    <3>1. HasQuit(queue)' = HasQuit(queue)
      BY <2>2 DEF HasQuit
    <3>2. QueueBounded'
      BY <1>1, <2>1, <2>2, <3>1 DEF QueueBounded
    <3> QED  BY <2>1, <2>2, <3>2
  <2>3. CASE HasQueue /\ ~HasQuit(queue) /\ queue' = Append(queue, "quit")
    <3>1. /\ queue' \in Seq(Messages) /\ Len(queue') = Len(queue) + 1
          /\ HasQuit(queue)'
      BY <2>3, AppendMessage DEF Messages, HasQuit
    <3>2. QueueBounded'
      BY <1>1, <2>1, <2>3, <3>1 DEF QueueBounded
    <3> QED  BY <2>1, <2>3, <3>1, <3>2
  <2> QED  BY <1>6, <2>2, <2>3 DEF PostQuit, WithQuit, HasQuit
<1>7. CASE GetMessage
  <2>1. queue # <<>> /\ queue' = Tail(queue)
    BY <1>7 DEF GetMessage
  <2>2. /\ queue' \in Seq(Messages) /\ Len(queue') = Len(queue) - 1
        /\ HasQuit(queue) /\ Head(queue) # "quit" => HasQuit(queue)'
    BY <2>1, TakeMessage DEF HasQuit
  <2>3. HasQueue' /\ Promised \in Nat /\ Promised' = Promised
    BY <1>7, PumpMoves DEF GetMessage, HasQueue, Promised, watching
  <2>4. QueueBounded'
    BY <1>1, <2>2, <2>3 DEF QueueBounded
  <2> QED  BY <2>2, <2>3, <2>4
<1>8. CASE UNCHANGED vars
  <2>1. QueueLeft
    BY <1>8 DEF vars, watching, QueueLeft, HasQueue
  <2> QED  BY <2>1, QueueKept
<1> QED
  BY <1>2, <1>3, <1>4, <1>5, <1>6, <1>7, <1>8, QueueLeftAlone, QueueKept
  DEF Next, Call, ControlStep, PumpStep, Callback, DogStep

(* The other threads do not move the control thread.                       *)
LEMMA OthersLeaveControl ==
    ASSUME [Next]_vars, ~(Call \/ ControlStep)
    PROVE  control' = control
<1>1. CASE Publish("hook") \/ PumpStep \/ PumpFails \/ ForeignQuit \/ Callback
  BY <1>1 DEF Publish, PumpStep, HookBegins, CreateQueue, CheckStop,
              InstallHook, InstallFails, SetRunning, SignalReady, Loop,
              GetMessage, SkipReinstall, Unhook, Rehook, RehookFails,
              ExitUnhook, ClearId, HookEnds, PumpFails, ForeignQuit, Callback,
              CallbackBeats, CallbackFails
<1>2. CASE DogStep \/ HookLost \/ BeatAges
  BY <1>2 DEF DogStep, DogWakes, DogProbes, DogPosts, DogStops, HookLost,
              BeatAges
<1>3. CASE UNCHANGED vars
  BY <1>3 DEF vars
<1> QED  BY <1>1, <1>2, <1>3 DEF Next

---------------------------------------------------------------------------
(* Theorems.                                                               *)

Inv == Types /\ EngineInv /\ QueueInv

(* The inductive invariant holds in every behaviour.                       *)
LEMMA InvHolds == Spec => []Inv
<1>1. Init => Inv
  BY InitTypes, InitInv, InitQueue DEF Inv
<1>2. Inv /\ [Next]_vars => Inv'
  BY NextInv, NextQueue DEF Inv, QueueInv
<1> QED  BY <1>1, <1>2, PTL DEF Spec

(* Type correctness, with the bound on what can wait at the hook thread:   *)
(* two requests more than were waiting when the last of them was begun.    *)
THEOREM EngineTypeCorrect == Spec => []TypeOK
<1>1. Inv => TypeOK
  <2> SUFFICES ASSUME Inv
               PROVE  TypeOK
    OBVIOUS
  <2>1. Len(queue) <= MaxQueue + 2
    <3>1. Len(queue) \in Nat /\ Promised \in Nat /\ MaxQueue \in Nat
      BY MaxQueueAssumption DEF Inv, QueueInv, Promised
    <3> QED  BY <3>1 DEF Inv, QueueInv, QueueBounded
  <2>2. pump \in {"none", "begin", "peek", "finished"} => queue = <<>>
    BY DEF Inv, QueueInv, HasQueue
  <2> QED  BY <2>1, <2>2 DEF Inv, Types, QueueInv, TypeOK
<1> QED  BY <1>1, InvHolds, PTL

(* A Stopped engine has no hook installed and no hook thread running,      *)
(* whatever wait timed out before.                                         *)
THEOREM StoppedEngineIsQuiet == Spec => []StoppedIsQuiet
<1>1. Inv => StoppedIsQuiet
  BY DEF Inv, EngineInv, StoppedIsDead, DetachedAt, Dead, StoppedIsQuiet
<1> QED  BY <1>1, InvHolds, PTL

(* Until a wait times out, the last event sent is the status, once no      *)
(* thread is between a write and its publication.                          *)
THEOREM LastEventIsTrue == Spec => []LastEventTrue
<1>1. Inv => LastEventTrue
  BY DEF Inv, EngineInv, StatusTold, Stopping, Quiet, ControlAt, PumpAt,
         LastEventTrue
<1> QED  BY <1>1, InvHolds, PTL

(* Until a wait times out, an engine that is Running between the calls has *)
(* its hook thread and its watchdog.                                       *)
THEOREM RunningEngineIsServed == Spec => []RunningIsServed
<1>1. Inv => RunningIsServed
  BY DEF Inv, EngineInv, RunningServed, RunningWatched, Between, Serving,
         ControlAt, RunningIsServed
<1> QED  BY <1>1, InvHolds, PTL

---------------------------------------------------------------------------
(* The engine implements EngineLayer.                                      *)

LayerStep == Layer!EngineNext \/ UNCHANGED Layer!engine

LEMMA LayerInit == Init => Layer!EngineInit
  BY DEF Init, Layer!EngineInit, CallSeen, ControlAt, Threads

(* Every step is one of EngineLayer, or none that it sees.                 *)
LEMMA ControlLayer ==
    ASSUME Types, EngineInv,
           Call \/ ControlStep
    PROVE  LayerStep
<1> USE NoStatusAssumption
    DEF Types, ControlPoints, Threads, Statuses, CallSeen, Starting, ControlAt,
        PumpAt, Write, WriteIf, returns, lifecycle, flags, watching,
        LayerStep, Layer!EngineNext, Layer!EngineMoves, Layer!engine
<1>1. CASE Publish("control")
  BY <1>1 DEF Publish, EngineInv, PendingAt, EndsAs, Layer!StopReturns,
         Layer!UndoReturns, Layer!StopDone, Layer!LateEnd
<1>2. CASE StartHook
  BY <1>2 DEF StartHook, StartAllowed, Layer!StartCall, Layer!CanStart
<1>3. CASE StartSpawnFails
  BY <1>3 DEF StartSpawnFails, StartAllowed, Layer!StartRefused,
         Layer!CanStart
<1>4. CASE ReadySeen
  BY <1>4 DEF ReadySeen
<1>5. CASE ReadyTimesOut
  BY <1>5 DEF ReadyTimesOut, Layer!StartGivesUp
<1>6. CASE CheckRunning
  BY <1>6 DEF CheckRunning, EngineInv, StartSeen, Layer!StartReturns
<1>7. CASE SpawnDog
  BY <1>7 DEF SpawnDog, EngineInv, StartSeen, Layer!StartReturns
<1>8. CASE SpawnDogFails
  BY <1>8 DEF SpawnDogFails, Layer!StartUndone
<1>9. CASE DogFailed
  BY <1>9 DEF DogFailed, EngineInv, UndoneAfterStop, Layer!UndoneFails
<1>10. CASE Stop
  BY <1>10 DEF Stop, Layer!StopCall
<1>11. CASE ClearDog
  BY <1>11 DEF ClearDog
<1>12. CASE DropDog
  BY <1>12 DEF DropDog
<1>13. CASE JoinDog
  BY <1>13 DEF JoinDog
<1>14. CASE AlreadyStopped
  BY <1>14 DEF AlreadyStopped, Layer!StopReturns, Layer!StopDone
<1>15. CASE RequestStop
  BY <1>15 DEF RequestStop, Layer!StopRequested, Layer!Ending
<1>16. CASE PostQuit
  BY <1>16 DEF PostQuit, Layer!StopRequested, Layer!Ending
<1>17. CASE TakeHandle
  BY <1>17 DEF TakeHandle
<1>18. CASE Joined
  BY <1>18 DEF Joined
<1>19. CASE JoinTimesOut
  BY <1>19 DEF JoinTimesOut, Layer!StopGivesUp, Layer!Ending
<1>20. CASE Settle
  BY <1>20 DEF Settle, EngineInv, StoppedIsDead, Stopping, Layer!StopSettles,
         Layer!HookFails, Layer!Ending
<1>21. CASE RestartHook
  BY <1>21 DEF RestartHook
<1>22. CASE PostForced
  BY <1>22 DEF PostForced
<1> QED  BY <1>1, <1>2, <1>3, <1>4, <1>5, <1>6, <1>7, <1>8, <1>9, <1>10,
         <1>11, <1>12, <1>13, <1>14, <1>15, <1>16, <1>17, <1>18, <1>19,
         <1>20, <1>21, <1>22
         DEF Call, ControlStep

LEMMA HookLayer ==
    ASSUME Types, EngineInv,
           Publish("hook") \/ PumpStep \/ PumpFails \/ ForeignQuit \/ Callback
    PROVE  LayerStep
<1> USE NoStatusAssumption
    DEF Types, ControlPoints, Threads, Statuses, CallSeen, Starting, ControlAt,
        PumpAt, Write, WriteIf, returns, lifecycle, flags, watching,
        LayerStep, Layer!EngineNext, Layer!EngineMoves, Layer!engine
<1>1. CASE Publish("hook")
  BY <1>1 DEF Publish
<1>2. CASE HookBegins
  BY <1>2 DEF HookBegins
<1>3. CASE CreateQueue
  BY <1>3 DEF CreateQueue
<1>4. CASE CheckStop
  BY <1>4 DEF CheckStop
<1>5. CASE InstallHook
  BY <1>5 DEF InstallHook
<1>6. CASE InstallFails
  BY <1>6 DEF InstallFails, EngineInv, StoppedIsDead, Dead, Layer!HookFails
<1>7. CASE SetRunning
  BY <1>7 DEF SetRunning, EngineInv, EarlyIsAwaited, Early, StoppedIsDead,
         Dead, Layer!HookInstalled, Layer!LateRunning
<1>8. CASE SignalReady
  BY <1>8 DEF SignalReady
<1>9. CASE Loop
  BY <1>9 DEF Loop
<1>10. CASE GetMessage
  BY <1>10 DEF GetMessage
<1>11. CASE PumpFails
  BY <1>11 DEF PumpFails, EngineInv, StoppedIsDead, Dead, Layer!HookFails
<1>12. CASE ForeignQuit
  BY <1>12 DEF ForeignQuit
<1>13. CASE CallbackBeats
  BY <1>13 DEF CallbackBeats
<1>14. CASE CallbackFails
  BY <1>14 DEF CallbackFails, EngineInv, StoppedIsDead, Dead, Layer!HookFails
<1>15. CASE SkipReinstall
  BY <1>15 DEF SkipReinstall, NothingToRepair
<1>16. CASE Unhook
  BY <1>16 DEF Unhook, NothingToRepair
<1>17. CASE Rehook
  BY <1>17 DEF Rehook
<1>18. CASE RehookFails
  BY <1>18 DEF RehookFails, EngineInv, StoppedIsDead, Dead, Layer!HookFails
<1>19. CASE ExitUnhook
  BY <1>19 DEF ExitUnhook
<1>20. CASE ClearId
  BY <1>20 DEF ClearId, EngineInv, StoppedIsDead, Dead, Layer!HookFails
<1>21. CASE HookEnds
  BY <1>21 DEF HookEnds
<1> QED  BY <1>1, <1>2, <1>3, <1>4, <1>5, <1>6, <1>7, <1>8, <1>9, <1>10,
         <1>11, <1>12, <1>13, <1>14, <1>15, <1>16, <1>17, <1>18, <1>19,
         <1>20, <1>21
         DEF PumpStep, Callback

LEMMA WatchdogLayer ==
    ASSUME Types, EngineInv,
           DogStep \/ HookLost \/ BeatAges
    PROVE  LayerStep
<1> USE NoStatusAssumption
    DEF Types, ControlPoints, Threads, Statuses, CallSeen, Starting, ControlAt,
        PumpAt, Write, WriteIf, returns, lifecycle, flags, watching,
        LayerStep, Layer!EngineNext, Layer!EngineMoves, Layer!engine
<1>1. CASE DogWakes
  BY <1>1 DEF DogWakes
<1>2. CASE DogProbes
  BY <1>2 DEF DogProbes
<1>3. CASE DogPosts
  BY <1>3 DEF DogPosts
<1>4. CASE DogStops
  BY <1>4 DEF DogStops
<1>5. CASE HookLost
  BY <1>5 DEF HookLost
<1>6. CASE BeatAges
  BY <1>6 DEF BeatAges
<1> QED  BY <1>1, <1>2, <1>3, <1>4, <1>5, <1>6
         DEF DogStep

LEMMA NextLayer ==
    ASSUME Types, EngineInv, [Next]_vars
    PROVE  LayerStep
<1>1. CASE Call \/ ControlStep
  BY <1>1, ControlLayer
<1>2. CASE Publish("hook") \/ PumpStep \/ PumpFails \/ ForeignQuit \/ Callback
  BY <1>2, HookLayer
<1>3. CASE DogStep \/ HookLost \/ BeatAges
  BY <1>3, WatchdogLayer
<1>4. CASE UNCHANGED vars
  BY <1>4 DEF vars, returns, lifecycle, LayerStep, Layer!engine, CallSeen,
              Starting, ControlAt
<1> QED  BY <1>1, <1>2, <1>3, <1>4 DEF Next

(* Whatever its threads do and whatever times out, the engine keeps the    *)
(* promise of EngineLayer that HyperApp is built on.                       *)
THEOREM EngineKeepsPromise == Spec => ImplementsEngineLayer
<1>1. Inv /\ [Next]_vars => [Layer!EngineNext]_Layer!engine
  BY NextLayer DEF Inv, LayerStep
<1> QED  BY <1>1, LayerInit, InvHolds, PTL
         DEF Spec, ImplementsEngineLayer, Layer!EngineSpec

(* A hook thread and a watchdog are started over nothing the last ones     *)
(* have left, whatever wait timed out before.                              *)
THEOREM NewThreadsStartClean == Spec => NewThreadsFindNothing
<1> DEFINE HookStart == control # "wait_ready" /\ control' = "wait_ready"
           DogStart == control = "spawn_dog" /\ control' = "idle"
<1>1. ASSUME Inv, [Next]_vars, HookStart
      PROVE  pump \in {"none", "finished"} /\ hook = "detached" /\ queue = <<>>
  <2>1. StartHook
    <3>1. CASE Call \/ ControlStep
      BY <1>1, <3>1
         DEF Call, ControlStep, Publish, StartSpawnFails,
             ReadySeen, ReadyTimesOut, CheckRunning, SpawnDog,
             SpawnDogFails, DogFailed, Stop, ClearDog, DropDog, JoinDog,
             AlreadyStopped, RequestStop, PostQuit, TakeHandle, Joined,
             JoinTimesOut, Settle, RestartHook, PostForced, ControlAt,
             Inv, Types
    <3>2. CASE ~(Call \/ ControlStep)
      BY <1>1, <3>2, OthersLeaveControl
    <3> QED  BY <3>1, <3>2
  <2>2. pump \in Dead
    BY <1>1, <2>1 DEF StartHook, StartAllowed, ControlAt, Inv, EngineInv,
                AliveHasHandle, Dead
  <2> QED
    BY <1>1, <2>2 DEF Dead, Inv, EngineInv, DetachedAt, QueueInv, HasQueue
<1>2. ASSUME Inv, [Next]_vars, DogStart
      PROVE  dog = "none" /\ ~stopping_dog
  BY <1>2 DEF Inv, EngineInv, NoOldDog
<1>3. Inv /\ [Next]_vars =>
        [/\ HookStart =>
               pump \in {"none", "finished"} /\ hook = "detached" /\ queue = <<>>
         /\ DogStart => dog = "none" /\ ~stopping_dog]_vars
  BY <1>1, <1>2
<1> QED  BY <1>3, InvHolds, PTL DEF Spec, NewThreadsFindNothing

---------------------------------------------------------------------------
(* A restart the user asked for is dropped only by a stop.                 *)

HasForced(q) == \E i \in 1..Len(q) : q[i] = "forced"

(* A forced request is about to be posted, queued or taken up.             *)
ForcedAround ==
    \/ HasForced(queue)
    \/ pump = "reinstall_forced"
    \/ control = "post_forced"

(* Where it may be: with a watchdog and no stop requested between the      *)
(* calls, otherwise only inside a stop.                                    *)
ForcedWatched ==
    ForcedAround =>
       \/ timed_out
       \/ IF Between THEN watchdog /\ ~stop_requested
          ELSE ~Starting /\ after_stop = "idle"

(* Only PostForced puts a forced request in a queue.                       *)
LEMMA AppendOther ==
    ASSUME NEW q \in Seq(Messages), NEW m \in Messages \ {"forced"},
           HasForced(Append(q, m))
    PROVE  HasForced(q)
<1>1. PICK i \in 1..Len(Append(q, m)) : Append(q, m)[i] = "forced"
  BY DEF HasForced
<1>2. i # Len(q) + 1
  BY <1>1
<1>3. i \in 1..Len(q) /\ q[i] = "forced"
  BY <1>1, <1>2
<1> QED  BY <1>3 DEF HasForced

LEMMA TakeForced ==
    ASSUME NEW q \in Seq(Messages), q # <<>>,
           HasForced(Tail(q)) \/ Head(q) = "forced"
    PROVE  HasForced(q)
<1>1. CASE Head(q) = "forced"
  <2>1. 1 \in 1..Len(q) /\ q[1] = "forced"
    BY <1>1
  <2> QED  BY <2>1 DEF HasForced
<1>2. CASE HasForced(Tail(q))
  <2>1. PICK i \in 1..Len(Tail(q)) : Tail(q)[i] = "forced"
    BY <1>2 DEF HasForced
  <2>2. i + 1 \in 1..Len(q) /\ q[i + 1] = "forced"
    BY <2>1
  <2> QED  BY <2>2 DEF HasForced
<1> QED  BY <1>1, <1>2

LEMMA ForcedTaken ==
    \A m \in Messages : PumpAfter(m) = "reinstall_forced" => m = "forced"
<1> SUFFICES ASSUME NEW m \in Messages, m # "forced"
             PROVE  PumpAfter(m) # "reinstall_forced"
  OBVIOUS
<1>1. CASE m = "quit"
  BY <1>1 DEF PumpAfter
<1>2. CASE m = "reinstall"
  BY <1>2 DEF PumpAfter
<1> QED  BY <1>1, <1>2 DEF Messages

(* The hook thread takes up a forced request only from its queue.          *)
LEMMA OnlyGetTakes ==
    ASSUME Types, [Next]_vars, pump' = "reinstall_forced"
    PROVE  pump = "reinstall_forced" \/ GetMessage
<1> USE DEF PumpAt
<1>1. CASE Call \/ ControlStep
  BY <1>1 DEF Call, ControlStep, Publish, StartHook, StartSpawnFails,
              ReadySeen, ReadyTimesOut, CheckRunning, SpawnDog,
              SpawnDogFails, DogFailed, Stop, ClearDog, DropDog, JoinDog,
              AlreadyStopped, RequestStop, PostQuit, TakeHandle, Joined,
              JoinTimesOut, Settle, RestartHook, PostForced
<1>2. CASE PumpStep
  BY <1>2 DEF PumpStep, HookBegins, CreateQueue, CheckStop, InstallHook,
              InstallFails, SetRunning, SignalReady, Loop, SkipReinstall,
              Unhook, Rehook, RehookFails, ExitUnhook, ClearId, HookEnds
<1>3. CASE Publish("hook") \/ PumpFails \/ ForeignQuit \/ Callback
  BY <1>3 DEF Publish, PumpFails, ForeignQuit, Callback, CallbackBeats,
              CallbackFails
<1>4. CASE DogStep \/ HookLost \/ BeatAges
  BY <1>4 DEF DogStep, DogWakes, DogProbes, DogPosts, DogStops, HookLost,
              BeatAges
<1>5. CASE UNCHANGED vars
  BY <1>5 DEF vars
<1> QED  BY <1>1, <1>2, <1>3, <1>4, <1>5 DEF Next

(* No forced request but the user's.                                       *)
LEMMA OnlyRestartForces ==
    ASSUME Types, EngineInv, QueueInv, [Next]_vars, ~RestartHook,
           ForcedAround'
    PROVE  ForcedAround
<1>1. CASE GetMessage
  <2>1. queue # <<>> /\ queue \in Seq(Messages) /\ Head(queue) \in Messages
    BY <1>1 DEF GetMessage, QueueInv
  <2>2. control' = control
    BY <1>1 DEF GetMessage
  <2>3. pump' = "reinstall_forced" => Head(queue) = "forced"
    BY <1>1, <2>1, ForcedTaken DEF GetMessage
  <2>4. HasForced(queue)' = HasForced(Tail(queue))
    BY <1>1 DEF GetMessage, HasForced
  <2> QED  BY <2>1, <2>2, <2>3, <2>4, TakeForced DEF ForcedAround
<1>2. CASE PostForced
  BY <1>2 DEF PostForced, ControlAt, ForcedAround
<1>3. CASE ~GetMessage /\ ~PostForced
  <2>1. pump' = "reinstall_forced" => pump = "reinstall_forced"
    BY <1>3, OnlyGetTakes
  <2>2. CASE QueueLeft
    BY <2>1, <2>2 DEF QueueLeft, HasForced, ForcedAround
  <2>3. CASE queue' = <<>> /\ control' # "post_forced"
    <3>1. ~HasForced(queue)'
      BY <2>3 DEF HasForced
    <3> QED  BY <2>1, <2>3, <3>1 DEF ForcedAround
  <2>4. CASE queue' = <<>> /\ control' = control
    <3>1. ~HasForced(queue)'
      BY <2>4 DEF HasForced
    <3> QED  BY <2>1, <2>4, <3>1 DEF ForcedAround
  <2>5. ASSUME NEW m \in Messages \ {"forced"}, queue' = Append(queue, m),
               control' = control \/ control' = "take"
        PROVE  ForcedAround
    <3>1. HasForced(queue)' => HasForced(Append(queue, m))
      BY <2>5 DEF HasForced
    <3> QED  BY <2>1, <2>5, <3>1, AppendOther DEF ForcedAround, QueueInv
  <2>6. CASE queue' = queue /\ (control' = control \/ control' = "take")
    BY <2>1, <2>6 DEF HasForced, ForcedAround
  <2>7. CASE StartHook
    <3>1. queue = <<>>
      BY <2>7 DEF StartHook, StartAllowed, QueueInv, HasQueue, EngineInv,
                  AliveHasHandle, Dead, ControlAt
    <3> QED  BY <2>3, <2>7, <3>1 DEF StartHook
  <2>8. CASE CreateQueue \/ HookEnds
    BY <2>4, <2>8 DEF CreateQueue, HookEnds
  <2>9. CASE DogPosts \/ PostQuit
    BY <2>5, <2>6, <2>9 DEF DogPosts, PostQuit, WithQuit, Messages
  <2>10. CASE DogWakes \/ UNCHANGED vars
    BY <2>6, <2>10 DEF DogWakes, vars
  <2> QED
    BY <1>3, <2>2, <2>7, <2>8, <2>9, <2>10, QueueLeftAlone
    DEF Next, Call, ControlStep, PumpStep, Callback, DogStep
<1> QED  BY <1>1, <1>2, <1>3

(* The control thread keeps it, call by call.                              *)
LEMMA ControlForced ==
    ASSUME Inv, ForcedWatched, ForcedAround, Call \/ ControlStep, ~RestartHook
    PROVE  ForcedWatched' \/ ~ForcedAround'
<1> USE DEF Inv, Types, ForcedWatched, Between, Starting, ControlAt, flags,
            watching, returns
<1>1. CASE Publish("control")
  BY <1>1 DEF Publish
<1>2. CASE StartHook \/ AlreadyStopped \/ Settle
  <2>1. timed_out \/ pump \in Dead
    BY <1>2 DEF StartHook, StartAllowed, AlreadyStopped, Settle, EngineInv,
                AliveHasHandle, StoppedIsDead, EndsWithoutThread, Dead
  <2>2. CASE timed_out
    BY <1>2, <2>2 DEF StartHook, AlreadyStopped, Settle
  <2>3. CASE pump \in Dead
    <3>1. queue = <<>> /\ control # "post_forced"
      BY <1>2, <2>3 DEF QueueInv, HasQueue, Dead, StartHook, StartAllowed,
                        AlreadyStopped, Settle
    <3>2. ~HasForced(queue)
      BY <3>1 DEF HasForced
    <3> QED  BY <2>3, <3>1, <3>2 DEF ForcedAround, Dead
  <2> QED  BY <2>1, <2>2, <2>3
<1>3. CASE StartSpawnFails \/ Stop \/ ReadyTimesOut \/ JoinTimesOut
  BY <1>3 DEF StartSpawnFails, StartAllowed, Stop, ReadyTimesOut, JoinTimesOut
<1>4. CASE ReadySeen \/ CheckRunning \/ SpawnDog \/ SpawnDogFails
  BY <1>4 DEF ReadySeen, CheckRunning, SpawnDog, SpawnDogFails
<1>5. CASE ClearDog \/ DropDog \/ JoinDog
  BY <1>5 DEF ClearDog, DropDog, JoinDog
<1>6. CASE DogFailed
  BY <1>6 DEF DogFailed, EngineInv, UndoneAfterStop
<1>7. CASE RequestStop \/ PostQuit \/ TakeHandle \/ Joined \/ PostForced
  BY <1>7 DEF RequestStop, PostQuit, TakeHandle, Joined, PostForced
<1> QED  BY <1>1, <1>2, <1>3, <1>4, <1>5, <1>6, <1>7 DEF Call, ControlStep

(* The other threads leave what it is about alone.                         *)
LEMMA OthersLeaveForced ==
    ASSUME [Next]_vars, ~(Call \/ ControlStep)
    PROVE  UNCHANGED <<control, after_dog, after_stop, watchdog,
                       stop_requested, timed_out>>
<1> USE DEF returns, flags, watching
<1>1. CASE Publish("hook") \/ PumpStep \/ PumpFails \/ ForeignQuit \/ Callback
  BY <1>1 DEF Publish, PumpStep, HookBegins, CreateQueue, CheckStop,
              InstallHook, InstallFails, SetRunning, SignalReady, Loop,
              GetMessage, SkipReinstall, Unhook, Rehook, RehookFails,
              ExitUnhook, ClearId, HookEnds, PumpFails, ForeignQuit, Callback,
              CallbackBeats, CallbackFails
<1>2. CASE DogStep \/ HookLost \/ BeatAges
  BY <1>2 DEF DogStep, DogWakes, DogProbes, DogPosts, DogStops, HookLost,
              BeatAges
<1>3. CASE UNCHANGED vars
  BY <1>3 DEF vars
<1> QED  BY <1>1, <1>2, <1>3 DEF Next

LEMMA NextForced ==
    ASSUME Inv, ForcedWatched, [Next]_vars
    PROVE  ForcedWatched'
<1> SUFFICES ASSUME ForcedAround'
             PROVE  ForcedWatched'
  BY DEF ForcedWatched
<1>1. CASE RestartHook
  <2>1. timed_out \/ (watchdog /\ ~stop_requested)
    BY <1>1 DEF RestartHook, ControlAt, Inv, EngineInv, RunningServed,
                RunningWatched, Between
  <2> QED
    BY <1>1, <2>1 DEF RestartHook, ForcedWatched, Between, watching, flags
<1>2. CASE ~RestartHook
  <2>1. ForcedAround
    BY <1>2, OnlyRestartForces DEF Inv
  <2>2. CASE Call \/ ControlStep
    BY <1>2, <2>1, <2>2, ControlForced
  <2>3. CASE ~(Call \/ ControlStep)
    BY <2>1, <2>3, OthersLeaveForced DEF ForcedWatched, Between, Starting
  <2> QED  BY <2>2, <2>3
<1> QED  BY <1>1, <1>2

(* Only reinstall_hook's early return leaves a request unheeded.           *)
LEMMA OnlySkipDrops ==
    ASSUME [Next]_vars, pump = "reinstall_forced", pump' = "loop"
    PROVE  NothingToRepair /\ UNCHANGED control
<1> USE DEF PumpAt
<1>1. CASE Call \/ ControlStep
  BY <1>1 DEF Call, ControlStep, Publish, StartHook, StartSpawnFails,
              ReadySeen, ReadyTimesOut, CheckRunning, SpawnDog,
              SpawnDogFails, DogFailed, Stop, ClearDog, DropDog, JoinDog,
              AlreadyStopped, RequestStop, PostQuit, TakeHandle, Joined,
              JoinTimesOut, Settle, RestartHook, PostForced
<1>2. CASE PumpStep
  BY <1>2 DEF PumpStep, HookBegins, CreateQueue, CheckStop, InstallHook,
              InstallFails, SetRunning, SignalReady, Loop, GetMessage,
              SkipReinstall, Unhook, Rehook, RehookFails, ExitUnhook,
              ClearId, HookEnds
<1>3. CASE Publish("hook") \/ PumpFails \/ ForeignQuit \/ Callback
  BY <1>3 DEF Publish, PumpFails, ForeignQuit, Callback, CallbackBeats,
              CallbackFails
<1>4. CASE DogStep \/ HookLost \/ BeatAges
  BY <1>4 DEF DogStep, DogWakes, DogProbes, DogPosts, DogStops, HookLost,
              BeatAges
<1>5. CASE UNCHANGED vars
  BY <1>5 DEF vars
<1> QED  BY <1>1, <1>2, <1>3, <1>4, <1>5 DEF Next

(* restart_hook's request is dropped by nothing but a stop until a wait    *)
(* times out, however long it was queued and whatever failed meanwhile.    *)
THEOREM ForcedRestartsAreHonoured == Spec => ForcedIsHonoured
<1>1. Init => ForcedWatched
  BY DEF Init, ForcedWatched, ForcedAround, HasForced
<1>2. Inv /\ ForcedWatched /\ [Next]_vars => ForcedWatched'
  BY NextForced
<1>3. ASSUME Inv, ForcedWatched, [Next]_vars,
             pump = "reinstall_forced", pump' = "loop"
      PROVE  CallSeen = "stopping" \/ timed_out
  <2>1. ~watchdog \/ stop_requested
    BY <1>3, OnlySkipDrops DEF NothingToRepair
  <2> QED
    BY <1>3, <2>1
    DEF ForcedWatched, ForcedAround, CallSeen, Between, ControlAt
<1>4. Inv /\ ForcedWatched /\ [Next]_vars =>
        [pump = "reinstall_forced" /\ pump' = "loop"
         => CallSeen = "stopping" \/ timed_out]_vars
  BY <1>3
<1> QED  BY <1>1, <1>2, <1>4, InvHolds, PTL DEF Spec, ForcedIsHonoured

---------------------------------------------------------------------------
(* Nobody waits in vain: the safety half of "a hook thread that was asked  *)
(* to stop ends".                                                          *)

(* stop knows the thread it posts to, from its first step to its last.     *)
IdKnown ==
    pump \notin Dead \cup {"begin", "signal"} => hook_thread_id

QuitComes ==
    stop_requested /\ pump = "get" =>
        HasQuit(queue) \/ (control = "post_quit" /\ target)

DogTold == control = "join_dog" => dog # "none" /\ stopping_dog

WaitInv == IdKnown /\ QuitComes /\ DogTold

(* A WM_QUIT stays in the queue until the hook thread takes it.            *)
LEMMA QuitStays ==
    ASSUME Types, QueueInv, [Next]_vars,
           HasQuit(queue), pump = "get", pump' = "get"
    PROVE  HasQuit(queue)'
<1>1. CASE queue' = queue
  BY <1>1 DEF HasQuit
<1>2. ASSUME NEW m \in Messages, queue' = Append(queue, m)
      PROVE  HasQuit(queue)'
  BY <1>2, AppendMessage DEF QueueInv, HasQuit
<1>3. CASE PostForced \/ DogPosts \/ PostQuit
  BY <1>1, <1>2, <1>3 DEF PostForced, DogPosts, PostQuit, WithQuit, Messages
<1>4. CASE StartHook \/ RestartHook \/ DogWakes \/ UNCHANGED vars
  BY <1>1, <1>4 DEF StartHook, RestartHook, DogWakes, vars
<1>5. ~(CreateQueue \/ HookEnds \/ GetMessage)
  BY PumpMoves DEF CreateQueue, HookEnds, PumpAt, QueueInv
<1> QED
  BY <1>1, <1>3, <1>4, <1>5, QueueLeftAlone
  DEF Next, Call, ControlStep, PumpStep, Callback, DogStep, QueueLeft

(* Before it sits in GetMessage the hook thread looks at stop_requested,   *)
(* and the control thread posts before it does anything else.              *)
LEMMA StepsAtGet ==
    ASSUME Types, QueueInv, [Next]_vars, stop_requested', pump' = "get",
           ~RequestStop, ~PostQuit
    PROVE  /\ stop_requested /\ pump = "get"
           /\ control = "post_quit" => control' = "post_quit" /\ target' = target
<1> USE DEF ControlAt, PumpAt, Types, flags, returns
<1>1. CASE Call \/ ControlStep
  BY <1>1 DEF Call, ControlStep, Publish, StartHook, StartSpawnFails,
              ReadySeen, ReadyTimesOut, CheckRunning, SpawnDog,
              SpawnDogFails, DogFailed, Stop, ClearDog, DropDog, JoinDog,
              AlreadyStopped, TakeHandle, Joined,
              JoinTimesOut, Settle, RestartHook, PostForced
<1>2. CASE PumpStep
  BY <1>2, PumpMoves
     DEF PumpStep, HookBegins, CreateQueue, CheckStop, InstallHook,
         InstallFails, SetRunning, SignalReady, Loop, QueueInv,
         SkipReinstall, Unhook, Rehook, RehookFails, ExitUnhook, ClearId,
         HookEnds, GetMessage
<1>3. CASE Publish("hook") \/ PumpFails \/ ForeignQuit \/ Callback
  BY <1>3 DEF Publish, PumpFails, ForeignQuit, Callback, CallbackBeats,
              CallbackFails
<1>4. CASE DogStep \/ HookLost \/ BeatAges
  BY <1>4 DEF DogStep, DogWakes, DogProbes, DogPosts, DogStops, HookLost,
              BeatAges
<1>5. CASE UNCHANGED vars
  BY <1>5 DEF vars
<1> QED  BY <1>1, <1>2, <1>3, <1>4, <1>5 DEF Next

LEMMA NextQuitComes ==
    ASSUME Types, QueueInv, IdKnown, QuitComes, [Next]_vars
    PROVE  QuitComes'
<1> SUFFICES ASSUME stop_requested', pump' = "get"
             PROVE  HasQuit(queue)' \/ (control' = "post_quit" /\ target')
  BY DEF QuitComes
<1>1. CASE RequestStop
  BY <1>1 DEF RequestStop, IdKnown, Dead
<1>2. CASE PostQuit
  <2>1. HasQuit(WithQuit)
    <3>1. HasQuit(Append(queue, "quit"))
      BY AppendMessage DEF QueueInv, Messages
    <3> QED  BY <3>1 DEF WithQuit
  <2>2. queue' = WithQuit \/ HasQuit(queue)
    BY <1>2 DEF PostQuit, QuitComes, HasQueue, flags
  <2> QED  BY <1>2, <2>1, <2>2, QuitStays DEF PostQuit, HasQuit
<1>3. CASE ~RequestStop /\ ~PostQuit
  BY <1>3, StepsAtGet, QuitStays DEF QuitComes
<1> QED  BY <1>1, <1>2, <1>3

(* The id goes with the thread, and a watchdog with its channel.           *)
LEMMA NextIdAndDog ==
    ASSUME Types, EngineInv, QueueInv, IdKnown, DogTold, [Next]_vars
    PROVE  IdKnown' /\ DogTold'
<1> USE DEF IdKnown, DogTold, Dead, ControlAt, PumpAt, Types, flags, watching,
            returns
<1>1. CASE Call \/ Publish("control") \/ Settle
  BY <1>1 DEF Call, Publish, StartHook, StartSpawnFails, StartAllowed, Stop,
              RestartHook, Settle, EngineInv, AliveHasHandle, UndoneAfterStop
<1>2. CASE ControlStep /\ ~Publish("control") /\ ~Settle
  <2>1. CASE ReadySeen \/ ReadyTimesOut \/ CheckRunning \/ SpawnDog \/ SpawnDogFails
    BY <2>1 DEF ReadySeen, ReadyTimesOut, CheckRunning, SpawnDog, SpawnDogFails
  <2>2. CASE DropDog
    BY <2>2 DEF DropDog
  <2>3. CASE JoinDog
    BY <2>3 DEF JoinDog
  <2>4. CASE DogFailed \/ ClearDog \/ AlreadyStopped \/ RequestStop \/ PostQuit
    BY <2>4 DEF DogFailed, ClearDog, AlreadyStopped, RequestStop, PostQuit
  <2>5. CASE TakeHandle \/ Joined \/ JoinTimesOut \/ PostForced
    BY <2>5 DEF TakeHandle, Joined, JoinTimesOut, PostForced
  <2> QED  BY <1>2, <2>1, <2>2, <2>3, <2>4, <2>5 DEF ControlStep
<1>3. CASE PumpStep
  BY <1>3, PumpMoves
     DEF PumpStep, HookBegins, CreateQueue, CheckStop, InstallHook,
         InstallFails, SetRunning, SignalReady, Loop, QueueInv,
         SkipReinstall, Unhook, Rehook, RehookFails, ExitUnhook, ClearId,
         HookEnds, GetMessage
<1>4. CASE Publish("hook") \/ PumpFails \/ ForeignQuit \/ Callback
  BY <1>4 DEF Publish, PumpFails, ForeignQuit, Callback, CallbackBeats,
              CallbackFails
<1>5. CASE DogStep \/ HookLost \/ BeatAges
  BY <1>5 DEF DogStep, DogWakes, DogProbes, DogPosts, DogStops, HookLost,
              BeatAges
<1>6. CASE UNCHANGED vars
  BY <1>6 DEF vars
<1> QED  BY <1>1, <1>2, <1>3, <1>4, <1>5, <1>6 DEF Next

(* A hook thread that was asked to stop sits in GetMessage only with a     *)
(* WM_QUIT on its way, and the watchdog is joined only when it will end.   *)
THEOREM WaitsEnd == Spec => []NobodyWaitsInVain
<1>1. Init => WaitInv
  BY DEF Init, WaitInv, IdKnown, QuitComes, DogTold, Dead
<1>2. Inv /\ WaitInv /\ [Next]_vars => WaitInv'
  BY NextQuitComes, NextIdAndDog DEF Inv, WaitInv
<1>3. WaitInv => NobodyWaitsInVain
  BY DEF WaitInv, QuitComes, DogTold, NobodyWaitsInVain
<1> QED  BY <1>1, <1>2, <1>3, InvHolds, PTL DEF Spec

=============================================================================
