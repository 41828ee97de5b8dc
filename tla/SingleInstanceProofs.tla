------------------------ MODULE SingleInstanceProofs ------------------------
(***************************************************************************)
(* Proofs about SingleInstance, for any number of processes, attempts and  *)
(* session events, whatever fails.                                         *)
(***************************************************************************)
EXTENDS SingleInstance, TLAPS

(* A launch that has still to broadcast has an attempt left.               *)
AttemptsLeft ==
    \A p \in Process : phase[p] \in {"notify", "wait"} => attempt[p] < MaxAttempts

TInv == TypeOK /\ AttemptsLeft

(* Every owner of the guard has its handle of the mutex.                   *)
OwnersHold == Owners \subseteq handles

HInv == TypeOK /\ OwnersHold /\ OneHook

---------------------------------------------------------------------------
(* Type correctness.                                                       *)

LEMMA InitTypes == Init => TInv
<1> SUFFICES ASSUME Init
             PROVE  TInv
  OBVIOUS
<1>1. 0 \in 0..MaxAttempts
  BY BoundsAssumption
<1>2. <<>> \in Seq(Events)
  OBVIOUS
<1> QED  BY <1>1, <1>2 DEF Init, TInv, TypeOK, AttemptsLeft

(* The steps of a launch and of an owner's end.                            *)
LEMMA LaunchTypes ==
    ASSUME TInv, NEW p \in Process,
           \/ Acquire(p) \/ AcquireFails(p) \/ Boot(p) \/ CloseRefused(p)
           \/ BroadcastFails(p) \/ Waited(p) \/ BoxDismissed(p)
           \/ Quit(p) \/ Exit(p) \/ Killed(p)
    PROVE  TInv'
<1> USE DEF TInv, TypeOK, AttemptsLeft, Goes, Absent
<1>1. CASE Acquire(p)
  BY <1>1 DEF Acquire
<1>2. CASE AcquireFails(p)
  BY <1>2 DEF AcquireFails
<1>3. CASE Boot(p)
  BY <1>3 DEF Boot
<1>4. CASE CloseRefused(p)
  <2>1. 0 \in 0..MaxAttempts /\ 0 < MaxAttempts
    BY BoundsAssumption
  <2> QED  BY <1>4, <2>1 DEF CloseRefused
<1>5. CASE BroadcastFails(p)
  <2>1. attempt[p] + 1 \in 0..MaxAttempts
    BY <1>5, BoundsAssumption DEF BroadcastFails
  <2>2. attempt[p] + 1 # MaxAttempts => attempt[p] + 1 < MaxAttempts
    BY <2>1, BoundsAssumption
  <2> QED  BY <1>5, <2>1, <2>2 DEF BroadcastFails
<1>6. CASE Waited(p)
  BY <1>6 DEF Waited
<1>7. CASE BoxDismissed(p)
  BY <1>7 DEF BoxDismissed
<1>8. CASE Quit(p)
  BY <1>8 DEF Quit
<1>9. CASE Gone(p, "none") \/ Gone(p, "killed")
  <2>1. <<>> \in Seq(Events)
    OBVIOUS
  <2> QED  BY <1>9, <2>1 DEF Gone
<1> QED
  BY <1>1, <1>2, <1>3, <1>4, <1>5, <1>6, <1>7, <1>8, <1>9 DEF Exit, Killed

(* The steps that concern session events and the settings window.          *)
LEMMA EventTypes ==
    ASSUME TInv,
           \/ SystemNotice
           \/ \E p \in Process :
                \/ Broadcast(p) \/ SessionWindowOpens(p) \/ SessionWindowFails(p)
                \/ HandleEvent(p) \/ OpenSettings(p) \/ WindowCloseRequested(p)
    PROVE  TInv'
<1> USE DEF TInv, TypeOK, AttemptsLeft, Goes
<1>1. \A q \in Process, event \in Events : Append(inbox[q], event) \in Seq(Events)
  OBVIOUS
<1>2. CASE SystemNotice
  <2>1. inbox' \in [Process -> Seq(Events)]
    BY <1>1, <1>2 DEF SystemNotice, Events
  <2> QED  BY <1>2, <2>1 DEF SystemNotice
<1>3. ASSUME NEW p \in Process, Broadcast(p)
      PROVE  TInv'
  <2>1. inbox' \in [Process -> Seq(Events)]
    BY <1>1, <1>3 DEF Broadcast, Events
  <2> QED  BY <1>3, <2>1 DEF Broadcast
<1>4. ASSUME NEW p \in Process, SessionWindowOpens(p) \/ SessionWindowFails(p)
      PROVE  TInv'
  BY <1>4 DEF SessionWindowOpens, SessionWindowFails
<1>5. ASSUME NEW p \in Process, HandleEvent(p)
      PROVE  TInv'
  <2>1. Tail(inbox[p]) \in Seq(Events)
    BY <1>5 DEF HandleEvent
  <2> QED  BY <1>5, <2>1 DEF HandleEvent, ShowSettingsWindow
<1>6. ASSUME NEW p \in Process, OpenSettings(p) \/ WindowCloseRequested(p)
      PROVE  TInv'
  BY <1>6 DEF OpenSettings, ShowSettingsWindow, WindowCloseRequested
<1> QED  BY <1>2, <1>3, <1>4, <1>5, <1>6

LEMMA NextTypes == TInv /\ [Next]_vars => TInv'
<1>1. TInv /\ UNCHANGED vars => TInv'
  BY DEF TInv, TypeOK, AttemptsLeft, vars
<1> QED  BY <1>1, LaunchTypes, EventTypes DEF Next, ProcessStep, UserStep

(* Type correctness: the processes stay in their phases, and a launch never*)
(* makes more broadcasts than notify_existing allows.                      *)
THEOREM LaunchesTypeCorrect == Spec => []TypeOK
<1>1. TInv => TypeOK
  BY DEF TInv
<1> QED  BY <1>1, InitTypes, NextTypes, PTL DEF Spec

---------------------------------------------------------------------------
(* One owner.                                                              *)

LEMMA NextHolds == HInv /\ TypeOK' /\ [Next]_vars => HInv'
<1> SUFFICES ASSUME HInv, TypeOK', [Next]_vars
             PROVE  OwnersHold' /\ OneHook'
  BY DEF HInv
<1> USE DEF HInv, TypeOK, OwnersHold, OneHook, Owners, Goes, Absent
<1>1. ASSUME NEW p \in Process, Acquire(p)
      PROVE  OwnersHold' /\ OneHook'
  <2>1. CASE handles = {}
    <3>1. Owners = {}
      BY <2>1
    <3>2. \A q \in Process : q \in Owners' <=> q = p
      BY <1>1, <2>1, <3>1 DEF Acquire
    <3>3. handles' = {p}
      BY <1>1, <2>1 DEF Acquire
    <3>4. Owners' \subseteq Process
      OBVIOUS
    <3> HIDE DEF Owners
    <3> QED  BY <3>2, <3>3, <3>4
  <2>2. CASE handles # {}
    <3>1. Owners' = Owners /\ handles \subseteq handles'
      BY <1>1, <2>2 DEF Acquire
    <3> QED  BY <3>1
  <2> QED  BY <2>1, <2>2
<1>2. ASSUME NEW p \in Process, CloseRefused(p) \/ Exit(p) \/ Killed(p)
      PROVE  OwnersHold' /\ OneHook'
  <2>1. Owners' = Owners \ {p} /\ handles' = handles \ {p}
    <3>1. CASE CloseRefused(p)
      BY <3>1 DEF CloseRefused
    <3>2. CASE Exit(p) \/ Killed(p)
      BY <3>2 DEF Exit, Killed, Gone
    <3> QED  BY <1>2, <3>1, <3>2
  <2> QED  BY <2>1
<1>3. ASSUME NEW p \in Process,
             \/ AcquireFails(p) \/ Boot(p) \/ Broadcast(p) \/ BroadcastFails(p)
             \/ Waited(p) \/ BoxDismissed(p) \/ Quit(p)
      PROVE  OwnersHold' /\ OneHook'
  <2>1. Owners' = Owners /\ handles' = handles
    BY <1>3 DEF AcquireFails, Boot, Broadcast, BroadcastFails, Waited,
                BoxDismissed, Quit
  <2> QED  BY <2>1
<1>4. ASSUME UNCHANGED <<phase, handles>>
      PROVE  OwnersHold' /\ OneHook'
  BY <1>4
<1>5. \/ \E p \in Process :
           \/ Acquire(p) \/ CloseRefused(p) \/ Exit(p) \/ Killed(p)
           \/ AcquireFails(p) \/ Boot(p) \/ Broadcast(p) \/ BroadcastFails(p)
           \/ Waited(p) \/ BoxDismissed(p) \/ Quit(p)
      \/ UNCHANGED <<phase, handles>>
  BY DEF Next, ProcessStep, UserStep, vars, SystemNotice, SessionWindowOpens,
         SessionWindowFails, HandleEvent, OpenSettings, WindowCloseRequested
<1> QED  BY <1>1, <1>2, <1>3, <1>4, <1>5

(* However many launches, quits and kills interleave, no two processes are *)
(* past acquire and not yet gone at the same time.                         *)
THEOREM OnlyOneHook == Spec => []OneHook
<1>1. Init => HInv
  BY InitTypes DEF Init, TInv, HInv, OwnersHold, OneHook, Owners
<1>2. HInv => OneHook
  BY DEF HInv
<1> QED  BY <1>1, <1>2, NextHolds, LaunchesTypeCorrect, PTL DEF Spec
=============================================================================
