--------------------------- MODULE SingleInstance ---------------------------
(***************************************************************************)
(* Several launches of hyperkey: the named mutex of single_instance.rs,    *)
(* the hidden window of session_window.rs, which opens on a thread of its  *)
(* own some time after the launch, and the settings window of main.rs that *)
(* a second launch asks the first one to show.                             *)
(*                                                                         *)
(* The bridge into the event loop sends each event on a fresh clone of its *)
(* sender, which the channel always accepts; so `inbox` loses nothing.     *)
(***************************************************************************)
EXTENDS Naturals, Sequences

CONSTANTS Process,
          MaxAttempts,  \* broadcasts a second launch tries
          MaxNotices,   \* no launch and no notice while that many events wait
          Faults        \* what may happen besides: a quit, a kill, and a mutex,
                        \* a hidden window or a broadcast that fails

ASSUME BoundsAssumption ==
    MaxAttempts \in Nat \ {0} /\ MaxNotices \in Nat \ {0}

ASSUME FaultsAssumption == 
    Faults \subseteq {"quit", "killed", "mutex", "window", "broadcast"}

VARIABLES
    phase,      \* where each process is
    handles,    \* processes with a handle of the named mutex
    attempt,    \* broadcasts that have failed
    session,    \* the hidden window; a "deaf" one knows no ShowSettings
    inbox,      \* session events on their way to the event loop
    window      \* the settings window: "none", "shown", "hidden"

vars == <<phase, handles, attempt, session, inbox, window>>

Events == {"ReconcileEngine", "ShowSettings"}

(* A process that does not exist, after an end of its own or a kill.       *)
Absent(p) == phase[p] \in {"none", "killed"}

(* A process that owns the guard; it may have a keyboard hook.             *)
Owners == {p \in Process : phase[p] \in {"boot", "run", "exit"}}

TypeOK ==
    /\ phase \in [Process -> {"none", "killed", "refused", "notify", "wait",
                              "box", "boot", "run", "exit"}]
    /\ handles \subseteq Process
    /\ attempt \in [Process -> 0..MaxAttempts]
    /\ session \in [Process -> {"none", "open", "deaf", "failed"}]
    /\ inbox \in [Process -> Seq(Events)]
    /\ window \in [Process -> {"none", "shown", "hidden"}]

Init ==
    /\ phase = [p \in Process |-> "none"]
    /\ handles = {}
    /\ attempt = [p \in Process |-> 0]
    /\ session = [p \in Process |-> "none"]
    /\ inbox = [p \in Process |-> <<>>]
    /\ window = [p \in Process |-> "none"]

(* The bound on session events.                                            *)
EventsBounded == \A p \in Process : Len(inbox[p]) < MaxNotices

Goes(p, new_phase) == phase' = [phase EXCEPT ![p] = new_phase]

---------------------------------------------------------------------------
(* main: acquire creates the mutex or opens a handle of the existing one.  *)

(* Seeded fault: the guard is not bound to a name and dropped at once.     *)
AcquireDropped(p) ==
    /\ Absent(p)
    /\ EventsBounded
    /\ Goes(p, IF handles = {} THEN "boot" ELSE "refused")
    /\ handles' = IF handles = {} THEN {} ELSE handles \cup {p}
    /\ UNCHANGED <<attempt, session, inbox, window>>

Acquire(p) ==
    /\ Absent(p)
    /\ EventsBounded
    /\ Goes(p, IF handles = {} THEN "boot" ELSE "refused")
    /\ handles' = handles \cup {p}
    /\ UNCHANGED <<attempt, session, inbox, window>>

AcquireFails(p) ==
    /\ "mutex" \in Faults
    /\ Absent(p)
    /\ Goes(p, "box")
    /\ UNCHANGED <<handles, attempt, session, inbox, window>>

(* boot opens the settings window unless it starts to the tray.            *)
Boot(p) ==
    /\ phase[p] = "boot"
    /\ Goes(p, "run")
    /\ \E shown \in {"none", "shown"} : window' = [window EXCEPT ![p] = shown]
    /\ UNCHANGED <<handles, attempt, session, inbox>>

CloseRefused(p) ==
    /\ phase[p] = "refused"
    /\ handles' = handles \ {p}
    /\ Goes(p, "notify")
    /\ attempt' = [attempt EXCEPT ![p] = 0]
    /\ UNCHANGED <<session, inbox, window>>

---------------------------------------------------------------------------
(* notify_existing: the first broadcast that is posted ends it, whether or *)
(* not a window was there to receive it.                                   *)

Broadcast(p) ==
    /\ phase[p] = "notify"
    /\ inbox' = [q \in Process |->
                   IF session[q] = "open"
                   THEN Append(inbox[q], "ShowSettings") ELSE inbox[q]]
    /\ Goes(p, "none")
    /\ UNCHANGED <<handles, attempt, session, window>>

(* Seeded fault: one attempt too many.                                     *)
BroadcastFailsAgain(p) ==
    /\ phase[p] = "notify"
    /\ "broadcast" \in Faults
    /\ attempt' = [attempt EXCEPT ![p] = @ + 1]
    /\ Goes(p, IF attempt[p] = MaxAttempts THEN "box" ELSE "wait")
    /\ UNCHANGED <<handles, session, inbox, window>>

BroadcastFails(p) ==
    /\ phase[p] = "notify"
    /\ "broadcast" \in Faults
    /\ attempt' = [attempt EXCEPT ![p] = @ + 1]
    /\ Goes(p, IF attempt[p] + 1 = MaxAttempts THEN "box" ELSE "wait")
    /\ UNCHANGED <<handles, session, inbox, window>>

Waited(p) ==
    /\ phase[p] = "wait"
    /\ Goes(p, "notify")
    /\ UNCHANGED <<handles, attempt, session, inbox, window>>

BoxDismissed(p) ==
    /\ phase[p] = "box"
    /\ Goes(p, "none")
    /\ UNCHANGED <<handles, attempt, session, inbox, window>>

---------------------------------------------------------------------------
(* The hidden window, and the event loop that gets its events.             *)

SessionWindowOpens(p) ==
    /\ phase[p] \in {"run", "exit"}
    /\ session[p] = "none"
    /\ session' = [session EXCEPT ![p] = "open"]
    /\ UNCHANGED <<phase, handles, attempt, inbox, window>>

(* The thread returns without a word, or its window has no number for the  *)
(* message of a second launch.                                             *)
SessionWindowFails(p) ==
    /\ "window" \in Faults
    /\ phase[p] \in {"run", "exit"}
    /\ session[p] = "none"
    /\ \E failure \in {"failed", "deaf"} :
          session' = [session EXCEPT ![p] = failure]
    /\ UNCHANGED <<phase, handles, attempt, inbox, window>>

(* A lock, an unlock, a resume or a display change.                        *)
SystemNotice ==
    /\ EventsBounded
    /\ inbox' = [p \in Process |->
                   IF session[p] \in {"open", "deaf"}
                   THEN Append(inbox[p], "ReconcileEngine") ELSE inbox[p]]
    /\ UNCHANGED <<phase, handles, attempt, session, window>>

(* Seeded fault: only a window that was never open is opened.              *)
OpenSettingsOnce(p) ==
    window' = [window EXCEPT ![p] = IF @ = "none" THEN "shown" ELSE @]

(* show_settings_window opens the window, or shows the hidden one.         *)
ShowSettingsWindow(p) == window' = [window EXCEPT ![p] = "shown"]

HandleEvent(p) ==
    /\ phase[p] = "run"
    /\ inbox[p] # <<>>
    /\ inbox' = [inbox EXCEPT ![p] = Tail(@)]
    /\ IF Head(inbox[p]) = "ShowSettings"
       THEN ShowSettingsWindow(p) ELSE UNCHANGED window
    /\ UNCHANGED <<phase, handles, attempt, session>>

(* The tray opens the settings as well.                                    *)
OpenSettings(p) ==
    /\ phase[p] = "run"
    /\ ShowSettingsWindow(p)
    /\ UNCHANGED <<phase, handles, attempt, session, inbox>>

WindowCloseRequested(p) ==
    /\ phase[p] = "run"
    /\ window[p] = "shown"
    /\ window' = [window EXCEPT ![p] = "hidden"]
    /\ UNCHANGED <<phase, handles, attempt, session, inbox>>

---------------------------------------------------------------------------
(* The end of the owner: quit stops the engine, main returns and drops the *)
(* guard last. A process killed at any point, a refused launch between its *)
(* broadcasts too, loses its handles with everything else.                 *)

Quit(p) ==
    /\ "quit" \in Faults
    /\ phase[p] = "run"
    /\ Goes(p, "exit")
    /\ UNCHANGED <<handles, attempt, session, inbox, window>>

Gone(p, end) ==
    /\ Goes(p, end)
    /\ handles' = handles \ {p}
    /\ session' = [session EXCEPT ![p] = "none"]
    /\ inbox' = [inbox EXCEPT ![p] = <<>>]
    /\ window' = [window EXCEPT ![p] = "none"]
    /\ UNCHANGED attempt

Exit(p) == phase[p] = "exit" /\ Gone(p, "none")

Killed(p) == "killed" \in Faults /\ ~Absent(p) /\ Gone(p, "killed")

---------------------------------------------------------------------------

ProcessStep(p) ==
    \/ Boot(p) \/ CloseRefused(p) \/ Broadcast(p) \/ Waited(p) \/ Exit(p)

UserStep(p) ==
    \/ Acquire(p) \/ AcquireFails(p) \/ BoxDismissed(p)
    \/ OpenSettings(p) \/ WindowCloseRequested(p) \/ Quit(p)

Next ==
    \/ \E p \in Process :
         \/ ProcessStep(p) \/ UserStep(p) \/ BroadcastFails(p)
         \/ SessionWindowOpens(p) \/ SessionWindowFails(p)
         \/ HandleEvent(p) \/ Killed(p)
    \/ SystemNotice

Spec == Init /\ [][Next]_vars

(* Every process runs, its event loop takes its messages, and the thread   *)
(* of the hidden window gets to its end, one way or the other.             *)
FairSpec ==
    /\ Spec
    /\ \A p \in Process :
         /\ WF_vars(ProcessStep(p) \/ BroadcastFails(p))
         /\ WF_vars(SessionWindowOpens(p) \/ SessionWindowFails(p))
         /\ WF_vars(HandleEvent(p))

---------------------------------------------------------------------------
(* Properties.                                                             *)

(* Only one hyperkey at a time may own a keyboard hook, from acquire to    *)
(* the end of the process, through quits, kills and relaunches.            *)
OneHook == \A p, q \in Owners : p = q

(* A second launch that finds the first one with its hidden window open    *)
(* brings up the settings window or a message box, unless the first ends   *)
(* or the second is killed over its broadcasts.                            *)
ListenerAnswers ==
    \A p, q \in Process :
       (phase[p] = "notify" /\ phase[q] = "run" /\ session[q] = "open")
           ~> \/ window[q] = "shown" \/ phase[p] = "box"
              \/ phase[q] # "run" \/ phase[p] = "killed"
=============================================================================
