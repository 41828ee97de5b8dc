--------------------------- MODULE InputPathProofs --------------------------
(***************************************************************************)
(* Theorems about InputPath for every set of keys, every list of           *)
(* configurable modifiers and every choice of faults the statement does    *)
(* not exclude.                                                            *)
(***************************************************************************)
EXTENDS InputPath, TLAPS

---------------------------------------------------------------------------
(* What the synthesizer's methods do, whatever prefix Windows accepts.     *)

(* SendInput accepts some of what it is given, all of it when sends do not *)
(* fail.                                                                   *)
LEMMA AcceptedFacts ==
    ASSUME NEW ms, NEW F, NEW sent \in Accepted(ms, F)
    PROVE  /\ sent \subseteq F
           /\ ~SendMayFail => sent = F
  BY DEF Accepted

(* release_tracked untracks every listed modifier and lifts at most the    *)
(* tracked ones.                                                           *)
LEMMA ReleaseTrackedFacts ==
    ASSUME NEW p, NEW d, NEW ms, NEW r \in ReleaseTracked(p, d, ms)
    PROVE  /\ r.result = "Ok"
           /\ r.pressed = p \ Members(ms)
           /\ r.down \subseteq d
           /\ d \ Members(ms) \subseteq r.down
           /\ ~SendMayFail => r.down = d \ (Members(ms) \cap p)
<1>1. PICK sent \in Accepted(ms, Members(ms) \cap p) :
         r = Outcome(p \ (Members(ms) \cap p), d \ sent, "Ok")
  BY DEF ReleaseTracked
<1>2. sent \subseteq Members(ms) \cap p /\ (~SendMayFail => sent = Members(ms) \cap p)
  BY <1>1, AcceptedFacts
<1> QED  BY <1>1, <1>2 DEF Outcome

(* try_press either adds the whole list or leaves none of it tracked.      *)
LEMMA TryPressFacts ==
    ASSUME NEW p, NEW d, NEW ms, NEW r \in TryPress(p, d, ms)
    PROVE  /\ r.result \in {"Ok", "Err"}
           /\ r.result = "Ok" => r.pressed = p \cup Members(ms) /\ r.down = d \cup (Members(ms) \ p)
           /\ r.result = "Err" => r.pressed = p \ Members(ms)
           /\ r.down \subseteq d \cup Members(ms)
           /\ d \ Members(ms) \subseteq r.down
           /\ ~SendMayFail => r.result = "Ok"
<1>1. PICK sent \in Accepted(ms, Members(ms) \ p) :
         r \in IF sent = Members(ms) \ p
               THEN {Outcome(p \cup sent, d \cup sent, "Ok")}
               ELSE Failed(ReleaseTracked(p \cup sent, d \cup sent, ms))
  BY DEF TryPress
<1>2. sent \subseteq Members(ms) \ p /\ (~SendMayFail => sent = Members(ms) \ p)
  BY <1>1, AcceptedFacts
<1>3. CASE sent = Members(ms) \ p
  <2>1. r = Outcome(p \cup sent, d \cup sent, "Ok")
    BY <1>1, <1>3
  <2>2. r.result = "Ok" /\ r.pressed = p \cup sent /\ r.down = d \cup sent
    BY <2>1 DEF Outcome
  <2> QED  BY <1>3, <2>2
<1>4. CASE sent # Members(ms) \ p
  <2> DEFINE p1 == p \cup sent
             d1 == d \cup sent
  <2>1. PICK q \in ReleaseTracked(p1, d1, ms) : r = [q EXCEPT !.result = "Err"]
    BY <1>1, <1>4 DEF Failed
  <2>2. r.result = "Err" /\ r.pressed = q.pressed /\ r.down = q.down
    BY <2>1 DEF ReleaseTracked, Outcome
  <2> HIDE DEF p1, d1
  <2>3. /\ q.pressed = p1 \ Members(ms)
        /\ q.down \subseteq d1
        /\ d1 \ Members(ms) \subseteq q.down
    BY <2>1, ReleaseTrackedFacts
  <2> QED  BY <1>2, <1>4, <2>2, <2>3 DEF p1, d1
<1> QED  BY <1>3, <1>4

(* try_release leaves no listed modifier tracked, whether it was Ok or     *)
(* not.                                                                    *)
LEMMA TryReleaseFacts ==
    ASSUME NEW p, NEW d, NEW ms, NEW r \in TryRelease(p, d, ms)
    PROVE  /\ r.result \in {"Ok", "Err"}
           /\ r.pressed = p \ Members(ms)
           /\ r.down \subseteq d
           /\ d \ Members(ms) \subseteq r.down
           /\ ~SendMayFail => r.result = "Ok" /\ r.down = d \ (Members(ms) \cap p)
<1>1. PICK sent \in Accepted(ms, Members(ms) \cap p) :
         r \in IF sent = Members(ms) \cap p
               THEN {Outcome(p \ sent, d \ sent, "Ok")}
               ELSE Failed(ReleaseTracked(p \ sent, d \ sent, ms))
  BY DEF TryRelease
<1>2. sent \subseteq Members(ms) \cap p /\ (~SendMayFail => sent = Members(ms) \cap p)
  BY <1>1, AcceptedFacts
<1>3. CASE sent = Members(ms) \cap p
  <2>1. r = Outcome(p \ sent, d \ sent, "Ok")
    BY <1>1, <1>3
  <2>2. r.result = "Ok" /\ r.pressed = p \ sent /\ r.down = d \ sent
    BY <2>1 DEF Outcome
  <2> QED  BY <1>3, <2>2
<1>4. CASE sent # Members(ms) \cap p
  <2> DEFINE p1 == p \ sent
             d1 == d \ sent
  <2>1. PICK q \in ReleaseTracked(p1, d1, ms) : r = [q EXCEPT !.result = "Err"]
    BY <1>1, <1>4 DEF Failed
  <2>2. r.result = "Err" /\ r.pressed = q.pressed /\ r.down = q.down
    BY <2>1 DEF ReleaseTracked, Outcome
  <2> HIDE DEF p1, d1
  <2>3. /\ q.pressed = p1 \ Members(ms)
        /\ q.down \subseteq d1
        /\ d1 \ Members(ms) \subseteq q.down
    BY <2>1, ReleaseTrackedFacts
  <2> QED  BY <1>2, <1>4, <2>2, <2>3 DEF p1, d1
<1> QED  BY <1>3, <1>4

(* try_replay_trigger touches no key but the trigger.                      *)
LEMMA ReplayFacts ==
    ASSUME NEW p, NEW d, NEW t, NEW r \in ReplayTrigger(p, d, t)
    PROVE  /\ r.result \in {"Ok", "Err"}
           /\ r.pressed = p
           /\ r.down \subseteq d \cup {t}
           /\ d \ {t} \subseteq r.down
           /\ ~SendMayFail => r.result = "Ok" /\ r.down = d \ {t}
<1>1. \/ r = Outcome(p, d \ {t}, "Ok")
      \/ /\ SendMayFail
         /\ \/ r = Outcome(p, d, "Err")
            \/ r = Outcome(p, d \cup {t}, "Err")
            \/ r = Outcome(p, d \ {t}, "Err")
  BY DEF ReplayTrigger
<1>2. /\ r.result \in {"Ok", "Err"}
      /\ r.pressed = p
      /\ (r.result = "Ok" /\ r.down = d \ {t}) \/ SendMayFail
      /\ r.down \in {d, d \cup {t}, d \ {t}}
  <2>1. CASE r = Outcome(p, d \ {t}, "Ok")
    BY <2>1 DEF Outcome
  <2>2. CASE SendMayFail /\ r = Outcome(p, d, "Err")
    BY <2>2 DEF Outcome
  <2>3. CASE SendMayFail /\ r = Outcome(p, d \cup {t}, "Err")
    BY <2>3 DEF Outcome
  <2>4. CASE SendMayFail /\ r = Outcome(p, d \ {t}, "Err")
    BY <2>4 DEF Outcome
  <2> QED  BY <1>1, <2>1, <2>2, <2>3, <2>4
<1> QED  BY <1>2

(* The configured list only names modifiers.                               *)
LEMMA ListedModifiers ==
    ASSUME NEW ms \in ModifierLists
    PROVE  Members(ms) \subseteq Modifiers
  BY ModifierListsAssumption DEF Members, Listed

(* What each decision n about a real event says of the event and the phase *)
(* before and after it.                                                    *)
Explained(ph, k, t, trig, n) ==
    /\ n.phase \in Phases
    /\ n.decision = "PassThrough" => n.phase = ph /\ (k = trig => ph = "Idle")
    /\ n.decision = "Forward" =>
         n.phase = "HyperActive" /\ ph = "HyperActive" /\ k # trig
    /\ n.decision = "Suppress" =>
         /\ k = trig
         /\ t = "Down"
         /\ n.phase = IF ph = "HyperActive" THEN "HyperActive" ELSE "TriggerHeld"
    /\ n.decision = "PressAndForward" =>
         n.phase = "HyperActive" /\ ph = "TriggerHeld" /\ k # trig /\ t = "Down"
    /\ n.decision = "ReleaseAndSuppress" =>
         n.phase = "Idle" /\ ph = "HyperActive" /\ k = trig /\ t = "Up"
    /\ n.decision = "ReplayTrigger" =>
         n.phase = "Idle" /\ ph = "TriggerHeld" /\ k = trig /\ t = "Up"

(* Every decision of the machine about a real event is explained.          *)
LEMMA MachineFacts ==
    ASSUME NEW ph \in Phases, NEW k, NEW t \in Transitions, NEW trig
    PROVE  Explained(ph, k, t, trig, Process(ph, Real(k, t), trig))
<1> USE DEF Process, Real, TriggerTransition, Transitions, Phases, Explained
<1>1. CASE ph = "Idle"
  BY <1>1 DEF ProcessIdle
<1>2. CASE ph = "TriggerHeld"
  BY <1>2 DEF ProcessTriggerHeld
<1>3. CASE ph = "HyperActive"
  BY <1>3 DEF ProcessHyperActive
<1> QED  BY <1>1, <1>2, <1>3

---------------------------------------------------------------------------
(* The inductive invariant.                                                *)

(* A callback is around SendInput only while its thread pumps, and the     *)
(* phase has already moved.  Windows may have removed the hook meanwhile.  *)
CallWellFormed ==
    call # NoCall =>
       /\ pump = "up"
       /\ call.decision = "PressAndForward" =>
            phase = "HyperActive" /\ call.key # trigger
       /\ call.decision # "PressAndForward" => phase = "Idle" /\ call.key = trigger

(* From the send to the forward only the user lifts a modifier of the      *)
(* layer, and only in events the hook saw nested.                          *)
ChordInFlight ==
    InCall("PressAndForward", "sent") /\ hook = "attached"
        => Configured \ call.let_go \subseteq down

(* The hook is attached only while the thread pumps, and a thread about to *)
(* attach it finds the machine Idle.                                       *)
AttachFromIdle ==
    /\ hook = "attached" => pump = "up"
    /\ pump \in {"down", "starting", "reinstalling"} => phase = "Idle"

IInv ==
    TypeOK /\ LayerTracked /\ CallWellFormed /\ ChordInFlight /\ AttachFromIdle

(* Init establishes the inductive invariant.                               *)
LEMMA InitIInv == Init => IInv
  BY DEF Init, IInv, TypeOK, LayerTracked, CallWellFormed, ChordInFlight,
         AttachFromIdle, InCall, Phases, Pumps

(* A user's key event keeps the physical and the system's key sets sets of *)
(* keys.                                                                   *)
LEMMA ApplyType ==
    ASSUME NEW ks \in SUBSET Keys, NEW k \in Keys, NEW t
    PROVE  Apply(ks, k, t) \subseteq Keys
  BY DEF Apply

(* Releasing everything listed leaves nothing tracked: the tracked set is  *)
(* either empty or the configured layer.                                   *)
LEMMA ReleasedAll ==
    ASSUME LayerTracked, NEW r, r.pressed = pressed \ Configured
    PROVE  r.pressed = {}
  BY DEF LayerTracked

(* The inductive invariant is preserved by the reset that emergency        *)
(* disable, reconcile, reinstall and the thread's exit share.              *)
LEMMA ResetFacts ==
    ASSUME IInv, ResetShared
    PROVE  /\ call = NoCall /\ call' = NoCall
           /\ phase' = "Idle"
           /\ pressed' = {}
           /\ down' \subseteq down
           /\ down \ Configured \subseteq down'
           /\ ~SendMayFail => down' = down \ (Configured \cap pressed)
           /\ UNCHANGED <<trigger, output_modifiers>>
<1>1. PICK r \in ReleaseTracked(pressed, down, output_modifiers) :
         pressed' = r.pressed /\ down' = r.down
  BY DEF ResetShared
<1>2. /\ r.pressed = pressed \ Configured
      /\ r.down \subseteq down
      /\ down \ Configured \subseteq r.down
      /\ ~SendMayFail => r.down = down \ (Configured \cap pressed)
  BY <1>1, ReleaseTrackedFacts DEF Configured
<1>3. r.pressed = {}
  BY <1>2, ReleasedAll DEF IInv
<1> QED  BY <1>1, <1>2, <1>3 DEF ResetShared

(* A dispatched event moves the machine as its decision explains.          *)
LEMMA DispatchFacts ==
    ASSUME IInv, NEW k \in Keys, NEW t \in Transitions, NEW ds, Dispatched(k, t, ds)
    PROVE  /\ call = NoCall
           /\ hook = "attached"
           /\ Decided(k, t).decision \in ds
           /\ phase' = Decided(k, t).phase
           /\ physical' = Apply(physical, k, t)
           /\ physical' \subseteq Keys
           /\ Explained(phase, k, t, trigger, Decided(k, t))
<1>1. phase \in Phases /\ physical \in SUBSET Keys
  BY DEF IInv, TypeOK
<1>2. Explained(phase, k, t, trigger, Decided(k, t))
  BY <1>1, MachineFacts DEF Decided
<1>3. physical' = Apply(physical, k, t)
  BY DEF Dispatched, UserMoves
<1> QED  BY <1>1, <1>2, <1>3, ApplyType DEF Dispatched

(* An answer of the synthesizer moves the call on and says nothing else of *)
(* the event.                                                              *)
LEMMA AnsweredFacts ==
    ASSUME IInv, call # NoCall, NEW r, r.result \in {"Ok", "Err"}, Answered(r)
    PROVE  /\ call' \in Calls
           /\ call' # NoCall
           /\ call'.key = call.key
           /\ call'.decision = call.decision
           /\ call'.stage = IF r.result = "Ok" THEN "sent" ELSE "rejected"
           /\ call'.let_go = {}
<1>1. call \in Calls
  BY DEF IInv, TypeOK
<1>2. call' = [call EXCEPT !.stage = IF r.result = "Ok" THEN "sent" ELSE "rejected",
                           !.let_go = {}]
  BY DEF Answered
<1>3. /\ call' \in Calls
      /\ call'.key = call.key
      /\ call'.decision = call.decision
      /\ call'.stage = IF r.result = "Ok" THEN "sent" ELSE "rejected"
      /\ call'.let_go = {}
  BY <1>1, <1>2 DEF Calls
<1> QED  BY <1>3, NoCallAssumption

(* A nested event leaves the call as it is and notes the modifier that the *)
(* user let go of or pressed again.                                        *)
LEMMA NestedFacts ==
    ASSUME IInv, NEW k \in Keys, NEW t, NestedEvent(k, t)
    PROVE  /\ call' \in Calls
           /\ call' # NoCall
           /\ call'.key = call.key
           /\ call'.decision = call.decision
           /\ call'.stage = call.stage
           /\ call'.let_go = IF call.stage = "send" \/ k \notin Modifiers THEN call.let_go
                             ELSE IF t = "Up" THEN call.let_go \cup {k}
                             ELSE call.let_go \ {k}
<1>1. call \in Calls
  BY DEF NestedEvent, IInv, TypeOK
<1>2. call' = [call EXCEPT !.let_go =
                 IF call.stage = "send" \/ k \notin Modifiers THEN @
                 ELSE IF t = "Up" THEN @ \cup {k} ELSE @ \ {k}]
  BY DEF NestedEvent
<1>3. /\ call' \in Calls
      /\ call'.key = call.key
      /\ call'.decision = call.decision
      /\ call'.stage = call.stage
      /\ call'.let_go = IF call.stage = "send" \/ k \notin Modifiers THEN call.let_go
                        ELSE IF t = "Up" THEN call.let_go \cup {k}
                        ELSE call.let_go \ {k}
  BY <1>1, <1>2 DEF Calls
<1> QED  BY <1>3, NoCallAssumption

(* The send of a press raises the whole layer, or is rejected.             *)
LEMMA SendPressFacts ==
    ASSUME IInv, SendPress
    PROVE  /\ call' \in Calls /\ call' # NoCall
           /\ call'.key = call.key /\ call'.decision = "PressAndForward"
           /\ pressed = {}
           /\ \/ /\ call'.stage = "sent"
                 /\ pressed' = Configured
                 /\ down' = down \cup Configured
              \/ /\ call'.stage = "rejected"
                 /\ pressed' = {}
                 /\ down' \subseteq down \cup Configured
                 /\ SendMayFail
<1>1. PICK r \in TryPress(pressed, down, output_modifiers) : Answered(r)
  BY DEF SendPress
<1>2. /\ r.result \in {"Ok", "Err"}
      /\ r.result = "Ok" =>
           r.pressed = pressed \cup Configured /\ r.down = down \cup (Configured \ pressed)
      /\ r.result = "Err" => r.pressed = pressed \ Configured
      /\ r.down \subseteq down \cup Configured
      /\ SendMayFail \/ r.result = "Ok"
  BY TryPressFacts, SendMayFailAssumption DEF Configured
<1>3. call # NoCall /\ pressed = {} /\ call.decision = "PressAndForward"
  BY DEF SendPress, InCall, IInv, LayerTracked
<1>4. pressed' = r.pressed /\ down' = r.down
  BY <1>1 DEF Answered
<1> QED  BY <1>1, <1>2, <1>3, <1>4, AnsweredFacts

(* The send of a release leaves nothing tracked, rejected or not.          *)
LEMMA SendReleaseFacts ==
    ASSUME IInv, SendRelease
    PROVE  /\ call' \in Calls /\ call' # NoCall
           /\ call'.key = call.key /\ call'.decision = "ReleaseAndSuppress"
           /\ call'.stage # "send"
           /\ pressed' = {}
           /\ down' \subseteq down
           /\ SendMayFail \/ down' = down \ (Configured \cap pressed)
<1>1. PICK r \in TryRelease(pressed, down, output_modifiers) : Answered(r)
  BY DEF SendRelease
<1>2. /\ r.result \in {"Ok", "Err"}
      /\ r.pressed = pressed \ Configured
      /\ r.down \subseteq down
      /\ SendMayFail \/ r.down = down \ (Configured \cap pressed)
  BY TryReleaseFacts, SendMayFailAssumption DEF Configured
<1>3. r.pressed = {} /\ call # NoCall /\ call.decision = "ReleaseAndSuppress"
  BY <1>2, ReleasedAll DEF SendRelease, InCall, IInv
<1>4. pressed' = r.pressed /\ down' = r.down
  BY <1>1 DEF Answered
<1> QED  BY <1>1, <1>2, <1>3, <1>4, AnsweredFacts

(* The replay of a tap tracks nothing and touches the trigger alone.       *)
LEMMA SendReplayFacts ==
    ASSUME IInv, SendReplay
    PROVE  /\ call' \in Calls /\ call' # NoCall
           /\ call'.key = call.key /\ call'.decision = "ReplayTrigger"
           /\ call'.stage # "send"
           /\ pressed' = pressed
           /\ down' \subseteq down \cup {trigger}
           /\ down \ {trigger} \subseteq down'
           /\ SendMayFail \/ down' = down \ {trigger}
<1>1. PICK r \in ReplayTrigger(pressed, down, trigger) : Answered(r)
  BY DEF SendReplay
<1>2. /\ r.result \in {"Ok", "Err"}
      /\ r.pressed = pressed
      /\ r.down \subseteq down \cup {trigger}
      /\ down \ {trigger} \subseteq r.down
      /\ SendMayFail \/ r.down = down \ {trigger}
  BY ReplayFacts, SendMayFailAssumption
<1>3. call # NoCall /\ call.decision = "ReplayTrigger"
  BY DEF SendReplay, InCall
<1>4. pressed' = r.pressed /\ down' = r.down
  BY <1>1 DEF Answered
<1> QED  BY <1>1, <1>2, <1>3, <1>4, AnsweredFacts

(* A panic around the send releases the layer; the event passes unless     *)
(* Windows has passed it on already.                                       *)
LEMMA SendPanicsFacts ==
    ASSUME IInv, SendPanics
    PROVE  /\ call \in Calls /\ call' = NoCall
           /\ phase' = "Idle"
           /\ pressed' = {}
           /\ \E d \in SUBSET down :
                 /\ down' = IF hook = "attached"
                            THEN Apply(d, call.key, CallTransition)
                            ELSE d
                 /\ SendMayFail \/ d = down \ (Configured \cap pressed)
<1>1. PICK r \in ReleaseTracked(pressed, down, output_modifiers) :
         /\ pressed' = r.pressed
         /\ down' = IF hook = "attached"
                    THEN Apply(r.down, call.key, CallTransition)
                    ELSE r.down
  BY DEF SendPanics
<1>2. /\ r.pressed = pressed \ Configured
      /\ r.down \subseteq down
      /\ SendMayFail \/ r.down = down \ (Configured \cap pressed)
  BY ReleaseTrackedFacts, SendMayFailAssumption DEF Configured
<1>3. r.pressed = {}
  BY <1>2, ReleasedAll DEF IInv
<1>4. r.down \in SUBSET down
  BY <1>2
<1>5. \E d \in SUBSET down :
         /\ down' = IF hook = "attached"
                    THEN Apply(d, call.key, CallTransition)
                    ELSE d
         /\ SendMayFail \/ d = down \ (Configured \cap pressed)
  BY <1>1, <1>2, <1>4
<1> QED  BY <1>1, <1>3, <1>5 DEF SendPanics, IInv, TypeOK

(* Every step preserves the inductive invariant.                           *)
LEMMA NextIInv == IInv /\ [Next]_vars => IInv'
<1> SUFFICES ASSUME IInv, [Next]_vars
             PROVE  IInv'
  OBVIOUS
<1> USE DEF IInv, TypeOK, LayerTracked, CallWellFormed, ChordInFlight,
            AttachFromIdle, InCall, Configured
<1>1. ASSUME NEW k \in Keys, NEW t \in Transitions, UnhookedEvent(k, t)
      PROVE  IInv'
  BY <1>1, ApplyType DEF UnhookedEvent, UserMoves, shared, thread
<1>2. ASSUME NEW k \in Keys, NEW t \in Transitions, ForwardEvent(k, t)
      PROVE  IInv'
  <2>1. phase' = phase /\ physical' \subseteq Keys /\ call = NoCall
    BY <1>2, DispatchFacts DEF ForwardEvent, Explained
  <2>2. down' \subseteq Keys
    BY <1>2, ApplyType DEF ForwardEvent
  <2> QED  BY <1>2, <2>1, <2>2 DEF ForwardEvent, thread
<1>3. ASSUME NEW k \in Keys, NEW t \in Transitions, SuppressEvent(k, t)
      PROVE  IInv'
  <2>1. /\ call = NoCall
        /\ hook = "attached"
        /\ phase' \in Phases
        /\ (phase' = "HyperActive") = (phase = "HyperActive")
        /\ physical' \subseteq Keys
    BY <1>3, DispatchFacts DEF SuppressEvent, Explained, Phases
  <2> QED  BY <1>3, <2>1 DEF SuppressEvent, thread
<1>4. ASSUME NEW k \in Keys, NEW t \in Transitions, BeginSend(k, t)
      PROVE  IInv'
  <2>1. /\ call = NoCall
        /\ hook = "attached"
        /\ physical' \subseteq Keys
        /\ phase' \in Phases
        /\ Decided(k, t).decision \in
              {"PressAndForward", "ReleaseAndSuppress", "ReplayTrigger"}
        /\ Explained(phase, k, t, trigger, Decided(k, t))
        /\ phase' = Decided(k, t).phase
    BY <1>4, DispatchFacts DEF BeginSend, Explained
  <2>2. call' = [key |-> k, decision |-> Decided(k, t).decision,
                 stage |-> "send", let_go |-> {}]
    BY <1>4 DEF BeginSend
  <2>3. call' \in Calls /\ call' # NoCall
    BY <2>1, <2>2, NoCallAssumption DEF Calls
  <2>4. LayerTracked'
    BY <1>4, <2>1, <2>2, <2>3 DEF BeginSend, Explained
  <2>5. CallWellFormed'
    BY <1>4, <2>1, <2>2 DEF BeginSend, Explained, thread
  <2> QED  BY <1>4, <2>1, <2>3, <2>4, <2>5 DEF BeginSend, thread
<1>5. ASSUME NEW k \in Keys, NEW t \in Transitions, NestedEvent(k, t)
      PROVE  IInv'
  <2>1. /\ physical' = Apply(physical, k, t) /\ physical' \subseteq Keys
        /\ down' = Apply(down, k, t) /\ down' \subseteq Keys
    BY <1>5, ApplyType DEF NestedEvent, UserMoves
  <2>2. Configured \subseteq Modifiers
    BY ListedModifiers
  <2>3. ChordInFlight'
    BY <1>5, <2>1, <2>2, NestedFacts DEF NestedEvent, Apply, shared, Transitions
  <2> QED  BY <1>5, <2>1, <2>3, NestedFacts DEF NestedEvent, shared, thread
<1>6. ASSUME NEW k \in Keys, NEW t \in Transitions, CallbackPanics(k, t)
      PROVE  IInv'
  <2>1. PICK r \in ReleaseTracked(pressed, down, output_modifiers) :
           pressed' = r.pressed /\ down' = Apply(r.down, k, t)
    BY <1>6 DEF CallbackPanics
  <2>2. r.pressed = pressed \ Configured /\ r.down \subseteq down
    BY <2>1, ReleaseTrackedFacts
  <2>3. pressed' = {} /\ down' \subseteq Keys
    BY <2>1, <2>2, ReleasedAll, ApplyType
  <2>4. physical' \subseteq Keys
    BY <1>6, ApplyType DEF CallbackPanics, UserMoves
  <2> QED  BY <1>6, <2>3, <2>4 DEF CallbackPanics, thread, Phases
<1>7. CASE SendPress
  <2>1. Configured \subseteq Modifiers
    BY ListedModifiers
  <2>2. UNCHANGED <<phase, trigger, output_modifiers, thread, status, session, physical>>
    BY <1>7 DEF SendPress, Answered
  <2>3. phase = "HyperActive" /\ pump = "up" /\ call.key # trigger
    BY <1>7 DEF SendPress
  <2> QED  BY <1>7, <2>1, <2>2, <2>3, SendPressFacts DEF Keys, thread
<1>8. CASE SendRelease
  <2>1. UNCHANGED <<phase, trigger, output_modifiers, thread, status, session, physical>>
    BY <1>8 DEF SendRelease, Answered
  <2>2. phase = "Idle" /\ pump = "up" /\ call.key = trigger
    BY <1>8 DEF SendRelease
  <2> QED  BY <1>8, <2>1, <2>2, SendReleaseFacts DEF thread
<1>9. CASE SendReplay
  <2>1. UNCHANGED <<phase, trigger, output_modifiers, thread, status, session, physical>>
    BY <1>9 DEF SendReplay, Answered
  <2>2. phase = "Idle" /\ pump = "up" /\ call.key = trigger /\ pressed = {}
    BY <1>9 DEF SendReplay
  <2> QED  BY <1>9, <2>1, <2>2, SendReplayFacts DEF thread, Keys
<1>24. CASE ForwardPressed
  <2>1. call.key \in Keys
    BY <1>24 DEF ForwardPressed, Calls
  <2> QED  BY <1>24, <2>1 DEF ForwardPressed, shared, thread
<1>25. CASE SwallowSent
  BY <1>25 DEF SwallowSent, shared, thread
<1>26. CASE SwallowRejected
  BY <1>26 DEF SwallowRejected, Calls, Phases, thread
<1>27. CASE SendPanics
  <2>1. PICK d \in SUBSET down :
           down' = IF hook = "attached"
                   THEN Apply(d, call.key, CallTransition)
                   ELSE d
    BY <1>27, SendPanicsFacts
  <2>2. call.key \in Keys /\ d \in SUBSET Keys
    BY <1>27, SendPanicsFacts DEF Calls
  <2>3. down' \subseteq Keys
    BY <2>1, <2>2, ApplyType
  <2> QED  BY <1>27, <2>3, SendPanicsFacts DEF SendPanics, thread, Phases
<1>10. CASE HookRemoved
  <2>1. call # NoCall => call.key \in Keys
    BY DEF Calls
  <2>2. down' \subseteq Keys
    BY <1>10, <2>1, ApplyType DEF HookRemoved
  <2> QED  BY <1>10, <2>2 DEF HookRemoved, shared
<1>28. CASE Lock \/ Unlock
  BY <1>28 DEF Lock, Unlock, shared, thread
<1>29. CASE Reconcile
  <2>1. session' \in {"here", "away", "back"}
    BY <1>29 DEF Reconcile
  <2> QED  BY <1>29, <2>1, ResetFacts DEF Reconcile, thread, Phases
<1>11. ASSUME NEW nt \in TriggerKeys, NEW ms \in ModifierLists, Configure(nt, ms)
       PROVE  IInv'
  <2>1. PICK r \in ReleaseTracked(pressed, down, output_modifiers) :
           pressed' = r.pressed /\ down' = r.down
    BY <1>11 DEF Configure
  <2>2. pressed' = {} /\ down' \subseteq down
    BY <2>1, ReleaseTrackedFacts, ReleasedAll
  <2> QED  BY <1>11, <2>2 DEF Configure, thread, Phases
<1>12. CASE EmergencyDisable
  BY <1>12, ResetFacts DEF EmergencyDisable, thread, Phases
<1>13. CASE PostReinstall
  BY <1>13 DEF PostReinstall, shared
<1>14. CASE StartHookThread
  BY <1>14 DEF StartHookThread, shared, Pumps
<1>15. CASE InstallHook
  BY <1>15 DEF InstallHook, shared, Pumps
<1>16. CASE InstallFails
  BY <1>16 DEF InstallFails, shared, Pumps
<1>17. CASE DropReinstall
  BY <1>17 DEF DropReinstall, shared
<1>18. CASE ReinstallUnhook
  BY <1>18 DEF ReinstallUnhook, shared, Pumps
<1>19. CASE ReinstallReset
  BY <1>19, ResetFacts DEF ReinstallReset, Pumps, Phases
<1>20. CASE ReinstallHook
  BY <1>20 DEF ReinstallHook, shared, Pumps
<1>21. CASE PumpEnds
  BY <1>21 DEF PumpEnds, shared, Pumps
<1>22. CASE HookThreadExits
  BY <1>22, ResetFacts DEF HookThreadExits, Pumps, Phases
<1>23. CASE UNCHANGED vars
  BY <1>23 DEF vars
<1> QED
  BY <1>1, <1>2, <1>3, <1>4, <1>5, <1>6, <1>7, <1>8, <1>9, <1>10, <1>11,
     <1>12, <1>13, <1>14, <1>15, <1>16, <1>17, <1>18, <1>19, <1>20, <1>21,
     <1>22, <1>23, <1>24, <1>25, <1>26, <1>27, <1>28, <1>29
  DEF Next, KeyEvent, FinishSend, HookThread

(* The inductive invariant holds throughout.                               *)
LEMMA Invariance == Spec => []IInv
  BY InitIInv, NextIInv, PTL DEF Spec

(* Type correctness of the input path, whatever faults are allowed.        *)
THEOREM TypeCorrect == Spec => []TypeOK
<1>1. IInv => TypeOK
  BY DEF IInv
<1> QED  BY <1>1, Invariance, PTL

(* The tracked set is the whole layer or empty, whatever Windows rejects   *)
(* and whatever faults are allowed.                                        *)
THEOREM LayerIsTracked == Spec => []LayerTracked
<1>1. IInv => LayerTracked
  BY DEF IInv
<1> QED  BY <1>1, Invariance, PTL

(* The key that activates the layer is forwarded with every configured     *)
(* modifier down but those the user let go of since the send, whatever     *)
(* faults are allowed, nested events among them.                           *)
THEOREM ChordsAreComplete == Spec => ChordCarriesLayer
<1>1. ASSUME IInv, [Next]_vars,
             InCall("PressAndForward", "sent"), hook = "attached", call' = NoCall
      PROVE  Configured \ call.let_go \subseteq down'
  <2>1. call # NoCall /\ call.stage = "sent" /\ call.decision = "PressAndForward"
    BY <1>1 DEF InCall
  <2>2. ASSUME NEW k \in Keys, NEW t \in Transitions, KeyEvent(k, t)
        PROVE  FALSE
    BY <1>1, <2>1, <2>2, NestedFacts
    DEF KeyEvent, UnhookedEvent, ForwardEvent, SuppressEvent, BeginSend,
        CallbackPanics, Dispatched
  <2>3. ~HookThread
    BY <1>1, <2>1 DEF HookThread, ResetShared, StartHookThread, InstallHook,
       InstallFails, DropReinstall, ReinstallUnhook, ReinstallReset,
       ReinstallHook, PumpEnds, HookThreadExits, shared
  <2>4. ForwardPressed
    BY <1>1, <2>1, <2>2, <2>3
    DEF InCall, Next, FinishSend, vars, shared, SendPress, SendRelease,
        SendReplay, SwallowSent, SwallowRejected, SendPanics, HookRemoved, Lock,
        Unlock, Configure, EmergencyDisable, Reconcile, ResetShared, PostReinstall
  <2>5. down' = down \cup {call.key}
    BY <1>1, <2>4 DEF ForwardPressed
  <2>6. Configured \ call.let_go \subseteq down
    BY <1>1 DEF IInv, ChordInFlight
  <2> QED  BY <2>5, <2>6
<1>2. IInv /\ [Next]_vars =>
        [/\ InCall("PressAndForward", "sent")
         /\ hook = "attached"
         /\ call' = NoCall
         => Configured \ call.let_go \subseteq down']_vars
  BY <1>1
<1> QED  BY <1>2, Invariance, PTL DEF Spec, ChordCarriesLayer

---------------------------------------------------------------------------
(* What holds when no real event is nested in a callback's SendInput.      *)

(* The key whose Down is being turned into a chord is held until Windows   *)
(* gives up on the hook.                                                   *)
PressKeyHeld ==
    call # NoCall /\ call.decision = "PressAndForward" /\ hook = "attached"
        => call.key \in physical

HInv == IInv /\ PressKeyHeld /\ LayerNeedsTrigger /\ NoStuckOrdinary

(* Init establishes the invariant about the keys the user holds.           *)
LEMMA InitHInv == Init => HInv
  BY InitIInv DEF Init, HInv, PressKeyHeld, LayerNeedsTrigger, NoStuckOrdinary

(* Every step but a nested event preserves it.                             *)
LEMMA NextHInv ==
    ASSUME "nested" \notin Faults
    PROVE  HInv /\ [Next]_vars => HInv'
<1> SUFFICES ASSUME HInv, [Next]_vars
             PROVE  HInv'
  OBVIOUS
<1>0. IInv'
  BY NextIInv DEF HInv
<1> SUFFICES PressKeyHeld' /\ LayerNeedsTrigger' /\ NoStuckOrdinary'
  BY <1>0 DEF HInv
<1>a. IInv
  BY DEF HInv
<1>b. OrdinaryKeys \cap Configured = {}
  BY <1>a, ListedModifiers, KeysAssumption DEF IInv, TypeOK, Configured
<1>c. /\ hook = "attached" => pump = "up"
      /\ call # NoCall => pump = "up"
      /\ pump \in {"starting", "reinstalling"} => phase = "Idle"
      /\ call # NoCall /\ call.decision # "PressAndForward" => phase = "Idle"
      /\ trigger \in TriggerKeys
  BY <1>a DEF IInv, TypeOK, AttachFromIdle, CallWellFormed
<1> USE DEF HInv, PressKeyHeld, LayerNeedsTrigger, NoStuckOrdinary
<1>1. ASSUME NEW k \in Keys, NEW t \in Transitions, UnhookedEvent(k, t)
      PROVE  PressKeyHeld' /\ LayerNeedsTrigger' /\ NoStuckOrdinary'
  BY <1>1, <1>c DEF UnhookedEvent, UserMoves, Apply, shared, thread
<1>2. ASSUME NEW k \in Keys, NEW t \in Transitions, ForwardEvent(k, t)
      PROVE  PressKeyHeld' /\ LayerNeedsTrigger' /\ NoStuckOrdinary'
  <2>1. /\ call = NoCall
        /\ phase' = phase
        /\ k = trigger => phase = "Idle"
        /\ physical' = Apply(physical, k, t)
        /\ hook = "attached"
    BY <1>2, <1>a, DispatchFacts DEF ForwardEvent, Explained
  <2> QED  BY <1>2, <2>1 DEF ForwardEvent, Apply, thread
<1>3. ASSUME NEW k \in Keys, NEW t \in Transitions, SuppressEvent(k, t)
      PROVE  PressKeyHeld' /\ LayerNeedsTrigger' /\ NoStuckOrdinary'
  <2>1. /\ call = NoCall
        /\ k = trigger
        /\ t = "Down"
        /\ physical' = Apply(physical, k, t)
    BY <1>3, <1>a, DispatchFacts DEF SuppressEvent, Explained
  <2> QED  BY <1>3, <2>1 DEF SuppressEvent, Apply, thread
<1>4. ASSUME NEW k \in Keys, NEW t \in Transitions, BeginSend(k, t)
      PROVE  PressKeyHeld' /\ LayerNeedsTrigger' /\ NoStuckOrdinary'
  <2>1. /\ call'.key = k /\ call'.decision = Decided(k, t).decision
        /\ Decided(k, t).decision \in
              {"PressAndForward", "ReleaseAndSuppress", "ReplayTrigger"}
        /\ phase' = Decided(k, t).phase
        /\ physical' = Apply(physical, k, t)
        /\ hook = "attached"
        /\ Explained(phase, k, t, trigger, Decided(k, t))
    BY <1>4, <1>a, DispatchFacts DEF BeginSend
  <2>2. CASE Decided(k, t).decision = "PressAndForward"
    BY <1>4, <2>1, <2>2 DEF BeginSend, Explained, Apply, thread
  <2>3. CASE Decided(k, t).decision # "PressAndForward"
    <3>1. k = trigger /\ phase' = "Idle" /\ k \notin OrdinaryKeys
      BY <2>1, <2>3, <1>c, KeysAssumption DEF Explained
    <3> QED  BY <1>4, <2>1, <2>3, <3>1 DEF BeginSend, Apply, thread
  <2> QED  BY <2>2, <2>3
<1>5. ASSUME NEW k \in Keys, NEW t \in Transitions, CallbackPanics(k, t)
      PROVE  PressKeyHeld' /\ LayerNeedsTrigger' /\ NoStuckOrdinary'
  <2>1. PICK r \in ReleaseTracked(pressed, down, output_modifiers) :
           down' = Apply(r.down, k, t)
    BY <1>5 DEF CallbackPanics
  <2>2. r.down \subseteq down
    BY <2>1, ReleaseTrackedFacts
  <2> QED  BY <1>5, <2>1, <2>2 DEF CallbackPanics, UserMoves, Apply, thread
<1>6. CASE SendPress
  <2>1. /\ call' # NoCall /\ call # NoCall
        /\ call'.key = call.key /\ call'.decision = call.decision
        /\ down' \subseteq down \cup Configured
    BY <1>6, <1>a, SendPressFacts DEF SendPress, InCall
  <2>2. UNCHANGED <<phase, trigger, hook, session, physical>>
    BY <1>6 DEF SendPress, Answered, thread
  <2> QED  BY <1>b, <2>1, <2>2
<1>7. CASE SendRelease
  <2>1. call'.decision # "PressAndForward" /\ down' \subseteq down
    BY <1>7, <1>a, SendReleaseFacts
  <2>2. UNCHANGED <<phase, trigger, hook, session, physical>>
    BY <1>7 DEF SendRelease, Answered, thread
  <2> QED  BY <2>1, <2>2
<1>8. CASE SendReplay
  <2>1. /\ call'.decision # "PressAndForward"
        /\ down' \subseteq down \cup {trigger}
        /\ trigger \notin OrdinaryKeys
    BY <1>8, <1>a, <1>c, SendReplayFacts, KeysAssumption
  <2>2. UNCHANGED <<phase, trigger, hook, session, physical>>
    BY <1>8 DEF SendReplay, Answered, thread
  <2> QED  BY <2>1, <2>2
<1>22. CASE ForwardPressed
  BY <1>22 DEF ForwardPressed, InCall, shared, thread
<1>23. CASE SwallowSent
  BY <1>23 DEF SwallowSent, shared, thread
<1>24. CASE SwallowRejected
  BY <1>24 DEF SwallowRejected, thread
<1>25. CASE SendPanics
  <2>1. /\ call' = NoCall /\ phase' = "Idle"
        /\ \E d \in SUBSET down :
              down' = IF hook = "attached"
                      THEN Apply(d, call.key, CallTransition)
                      ELSE d
    BY <1>25, <1>a, SendPanicsFacts
  <2>2. physical' = physical /\ call # NoCall
    BY <1>25 DEF SendPanics
  <2> QED  BY <2>1, <2>2 DEF Apply, CallTransition
<1>9. CASE HookRemoved
  BY <1>9 DEF HookRemoved, Apply, CallTransition, shared
<1>26. CASE Lock \/ Unlock
  BY <1>26 DEF Lock, Unlock, shared, thread
<1>27. CASE Reconcile
  BY <1>27, <1>a, ResetFacts DEF Reconcile
<1>10. ASSUME NEW nt \in TriggerKeys, NEW ms \in ModifierLists, Configure(nt, ms)
       PROVE  PressKeyHeld' /\ LayerNeedsTrigger' /\ NoStuckOrdinary'
  <2>1. PICK r \in ReleaseTracked(pressed, down, output_modifiers) : down' = r.down
    BY <1>10 DEF Configure
  <2>2. r.down \subseteq down
    BY <2>1, ReleaseTrackedFacts
  <2> QED  BY <1>10, <2>1, <2>2 DEF Configure, thread
<1>11. CASE EmergencyDisable
  BY <1>11, <1>a, ResetFacts DEF EmergencyDisable, thread
<1>12. CASE PostReinstall \/ DropReinstall
  BY <1>12 DEF PostReinstall, DropReinstall, shared
<1>13. CASE StartHookThread
  BY <1>13 DEF StartHookThread, shared
<1>14. CASE InstallHook
  BY <1>14, <1>c DEF InstallHook, shared
<1>15. CASE InstallFails
  BY <1>15 DEF InstallFails, shared
<1>16. CASE ReinstallUnhook
  BY <1>16 DEF ReinstallUnhook, shared
<1>17. CASE ReinstallReset
  BY <1>17, <1>a, ResetFacts DEF ReinstallReset
<1>18. CASE ReinstallHook
  BY <1>18, <1>c DEF ReinstallHook, shared
<1>19. CASE PumpEnds
  BY <1>19 DEF PumpEnds, shared
<1>20. CASE HookThreadExits
  BY <1>20, <1>a, ResetFacts DEF HookThreadExits
<1>21. CASE UNCHANGED vars
  BY <1>21 DEF vars
<1> QED
  BY <1>1, <1>2, <1>3, <1>4, <1>5, <1>6, <1>7, <1>8, <1>9, <1>10, <1>11,
     <1>12, <1>13, <1>14, <1>15, <1>16, <1>17, <1>18, <1>19, <1>20, <1>21,
     <1>22, <1>23, <1>24, <1>25, <1>26, <1>27
  DEF Next, KeyEvent, FinishSend, HookThread, NestedEvent

(* Without nested events the machine leaves Idle under an attached hook    *)
(* only while the trigger is held, even when sends fail, hooks vanish,     *)
(* installs fail and callbacks panic.                                      *)
THEOREM LayerOnlyWithTrigger ==
    ASSUME "nested" \notin Faults
    PROVE  Spec => []LayerNeedsTrigger
<1>1. HInv => LayerNeedsTrigger
  BY DEF HInv
<1> QED  BY <1>1, InitHInv, NextHInv, PTL DEF Spec

(* Without nested events no ordinary key is left down by the hook, whether *)
(* sends fail or not.                                                      *)
THEOREM OrdinaryKeysAreReleased ==
    ASSUME "nested" \notin Faults
    PROVE  Spec => []NoStuckOrdinary
<1>1. HInv => NoStuckOrdinary
  BY DEF HInv
<1> QED  BY <1>1, InitHInv, NextHInv, PTL DEF Spec

---------------------------------------------------------------------------
(* What holds when, besides, Windows accepts what is sent.                 *)

(* A modifier the system sees down stays accounted for in every step.      *)
LEMMA NextNoStuckModifier ==
    ASSUME "nested" \notin Faults, ~SendMayFail
    PROVE  HInv /\ NoStuckModifier /\ [Next]_vars => NoStuckModifier'
<1> SUFFICES ASSUME HInv, NoStuckModifier, [Next]_vars
             PROVE  NoStuckModifier'
  OBVIOUS
<1>a. IInv
  BY DEF HInv
<1>c. trigger \in TriggerKeys /\ trigger \notin Modifiers
  BY <1>a, KeysAssumption DEF IInv, TypeOK
<1> USE DEF NoStuckModifier
<1>1. ASSUME NEW k \in Keys, NEW t \in Transitions, UnhookedEvent(k, t)
      PROVE  NoStuckModifier'
  BY <1>1 DEF UnhookedEvent, UserMoves, Apply, shared
<1>2. ASSUME NEW k \in Keys, NEW t \in Transitions, ForwardEvent(k, t)
      PROVE  NoStuckModifier'
  BY <1>2 DEF ForwardEvent, Dispatched, UserMoves, Apply
<1>3. ASSUME NEW k \in Keys, NEW t \in Transitions, SuppressEvent(k, t)
      PROVE  NoStuckModifier'
  <2>1. k = trigger /\ physical' = Apply(physical, k, t)
    BY <1>3, <1>a, DispatchFacts DEF SuppressEvent, Explained
  <2> QED  BY <1>3, <1>c, <2>1 DEF SuppressEvent, Apply
<1>4. ASSUME NEW k \in Keys, NEW t \in Transitions, BeginSend(k, t)
      PROVE  NoStuckModifier'
  <2>1. (t = "Down" \/ k = trigger) /\ physical' = Apply(physical, k, t)
    BY <1>4, <1>a, DispatchFacts DEF BeginSend, Explained
  <2> QED  BY <1>4, <1>c, <2>1 DEF BeginSend, Apply
<1>5. ASSUME NEW k \in Keys, NEW t \in Transitions, CallbackPanics(k, t)
      PROVE  NoStuckModifier'
  <2>1. PICK r \in ReleaseTracked(pressed, down, output_modifiers) :
           pressed' = r.pressed /\ down' = Apply(r.down, k, t)
    BY <1>5 DEF CallbackPanics
  <2>2. r.pressed = pressed \ Configured /\ r.down = down \ (Configured \cap pressed)
    BY <2>1, ReleaseTrackedFacts DEF Configured
  <2> QED  BY <1>5, <2>1, <2>2 DEF CallbackPanics, UserMoves, Apply
<1>6. CASE SendPress
  <2>1. pressed' = Configured /\ down' = down \cup Configured /\ pressed = {}
    BY <1>6, <1>a, SendPressFacts
  <2> QED  BY <1>6, <2>1 DEF SendPress, Answered
<1>7. CASE SendRelease
  <2>1. pressed' = {} /\ down' = down \ (Configured \cap pressed)
    BY <1>7, <1>a, SendReleaseFacts
  <2>2. pressed \subseteq Configured
    BY <1>a DEF IInv, LayerTracked
  <2> QED  BY <1>7, <2>1, <2>2 DEF SendRelease, Answered
<1>8. CASE SendReplay
  <2>1. pressed' = pressed /\ down' = down \ {trigger}
    BY <1>8, <1>a, SendReplayFacts
  <2> QED  BY <1>8, <2>1 DEF SendReplay, Answered
<1>13. CASE ForwardPressed
  <2>1. hook = "attached" => call.key \in physical
    BY <1>13 DEF ForwardPressed, InCall, HInv, PressKeyHeld
  <2> QED  BY <1>13, <2>1 DEF ForwardPressed, shared
<1>14. CASE SwallowSent \/ SwallowRejected
  BY <1>14 DEF SwallowSent, SwallowRejected, shared
<1>15. CASE SendPanics
  <2>1. PICK d \in SUBSET down :
           /\ down' = IF hook = "attached"
                      THEN Apply(d, call.key, CallTransition)
                      ELSE d
           /\ d = down \ (Configured \cap pressed)
    BY <1>15, <1>a, SendPanicsFacts
  <2>2. pressed' = {} /\ physical' = physical /\ call # NoCall
    BY <1>15, <1>a, SendPanicsFacts DEF SendPanics
  <2>3. pressed \subseteq Configured
    BY <1>a DEF IInv, LayerTracked
  <2>4. hook = "attached" /\ CallTransition = "Down" => call.key \in physical
    BY <2>2 DEF HInv, PressKeyHeld, CallTransition
  <2> QED  BY <2>1, <2>2, <2>3, <2>4 DEF Apply
<1>16. CASE HookRemoved
  <2>1. call # NoCall /\ CallTransition = "Down" => call.key \in physical
    BY <1>16 DEF HookRemoved, HInv, PressKeyHeld, CallTransition
  <2> QED  BY <1>16, <2>1 DEF HookRemoved, Apply, shared
<1>9. ASSUME NEW nt \in TriggerKeys, NEW ms \in ModifierLists, Configure(nt, ms)
      PROVE  NoStuckModifier'
  <2>1. PICK r \in ReleaseTracked(pressed, down, output_modifiers) :
           pressed' = r.pressed /\ down' = r.down
    BY <1>9 DEF Configure
  <2>2. r.pressed = pressed \ Configured /\ r.down = down \ (Configured \cap pressed)
    BY <2>1, ReleaseTrackedFacts DEF Configured
  <2> QED  BY <1>9, <2>1, <2>2 DEF Configure
<1>10. ASSUME ResetShared, physical' = physical
       PROVE  NoStuckModifier'
  <2>1. PICK r \in ReleaseTracked(pressed, down, output_modifiers) :
           pressed' = r.pressed /\ down' = r.down
    BY <1>10 DEF ResetShared
  <2>2. r.pressed = pressed \ Configured /\ r.down = down \ (Configured \cap pressed)
    BY <2>1, ReleaseTrackedFacts DEF Configured
  <2> QED  BY <1>10, <2>1, <2>2
<1>11. CASE EmergencyDisable \/ Reconcile \/ ReinstallReset \/ HookThreadExits
  BY <1>10, <1>11 DEF EmergencyDisable, Reconcile, ReinstallReset, HookThreadExits
<1>12. CASE \/ Lock \/ Unlock \/ PostReinstall \/ StartHookThread \/ InstallHook
            \/ InstallFails \/ DropReinstall \/ ReinstallUnhook
            \/ ReinstallHook \/ PumpEnds \/ UNCHANGED vars
  BY <1>12 DEF Lock, Unlock, PostReinstall, StartHookThread, InstallHook,
     InstallFails, DropReinstall, ReinstallUnhook, ReinstallHook, PumpEnds,
     shared, vars
<1> QED
  BY <1>1, <1>2, <1>3, <1>4, <1>5, <1>6, <1>7, <1>8, <1>9, <1>11, <1>12,
     <1>13, <1>14, <1>15, <1>16
  DEF Next, KeyEvent, FinishSend, HookThread, NestedEvent

(* No modifier is left down that neither the layer tracks nor the user     *)
(* holds, across removals, reinstalls, rebinding and panics.               *)
THEOREM ModifiersAreReleased ==
    ASSUME "nested" \notin Faults, ~SendMayFail
    PROVE  Spec => []NoStuckModifier
<1>1. Init => NoStuckModifier
  BY DEF Init, NoStuckModifier
<1> QED  BY <1>1, InitHInv, NextHInv, NextNoStuckModifier, PTL DEF Spec

---------------------------------------------------------------------------
(* The input path implements ModifierLayer.                                *)

(* The abstract layers are exactly the configurable ones.                  *)
LEMMA ConfiguredIsLayer ==
    ASSUME NEW ms \in ModifierLists
    PROVE  Members(ms) \in {Members(l) : l \in ModifierLists}
  OBVIOUS

(* The initial states map to initial states.                               *)
LEMMA InitImplements == Init => Layer!Init
  BY ConfiguredIsLayer DEF Init, Layer!Init, Configured, InCall

(* Whether the rise of the layer is decided and not done.                  *)
Rising == InCall("PressAndForward", "send")

(* A step that leaves the layer and the hook alone moves at most the       *)
(* trigger key under the user's finger.                                    *)
LEMMA UserMovesOnly ==
    ASSUME UNCHANGED <<pressed, output_modifiers, Rising, hook>>
    PROVE  Layer!UserMoves
  BY DEF Layer!UserMoves, Layer!Users, Configured, Rising

(* A step that ends with an empty tracked set is a fall or no step of the  *)
(* layer.                                                                  *)
LEMMA FallsOrStays ==
    ASSUME pressed' = {}, UNCHANGED <<output_modifiers, Rising, hook>>
    PROVE  Layer!Fall \/ Layer!UserMoves
  BY DEF Layer!UserMoves, Layer!Fall, Layer!Users, Configured, Rising

(* Every step maps to a step of the layer or leaves it unchanged.          *)
LEMMA NextImplements ==
    ASSUME "nested" \notin Faults
    PROVE  HInv /\ [Next]_vars => [Layer!Next]_(Layer!vars)
<1> SUFFICES ASSUME HInv, [Next]_vars
             PROVE  Layer!Next \/ UNCHANGED Layer!vars
  OBVIOUS
<1>a. IInv
  BY DEF HInv
<1>b. call = NoCall => ~Rising
  BY DEF Rising, InCall
<1> USE DEF Layer!Next
<1>1. ASSUME NEW k \in Keys, NEW t \in Transitions,
             UnhookedEvent(k, t) \/ ForwardEvent(k, t) \/ SuppressEvent(k, t)
      PROVE  Layer!Next
  BY <1>1, UserMovesOnly DEF UnhookedEvent, ForwardEvent,
     SuppressEvent, Rising, InCall, shared, thread
<1>2. ASSUME NEW k \in Keys, NEW t \in Transitions, BeginSend(k, t)
      PROVE  Layer!Next
  <2>1. /\ call = NoCall
        /\ hook = "attached"
        /\ physical' = Apply(physical, k, t)
        /\ Explained(phase, k, t, trigger, Decided(k, t))
    BY <1>2, <1>a, DispatchFacts DEF BeginSend
  <2>2. /\ call'.decision = Decided(k, t).decision
        /\ call'.stage = "send"
        /\ UNCHANGED <<output_modifiers, trigger, pressed, hook, session>>
    BY <1>2 DEF BeginSend, thread
  <2>3. CASE Decided(k, t).decision = "PressAndForward"
    <3>1. phase = "TriggerHeld" /\ k # trigger /\ t = "Down"
      BY <2>1, <2>3 DEF Explained
    <3>2. pressed = {} /\ (session = "here" => trigger \in physical)
      BY <1>a, <2>1, <3>1 DEF HInv, IInv, LayerTracked, LayerNeedsTrigger, InCall
    <3>3. call' # NoCall
      BY <1>2, <1>a, NextIInv, <2>2, <2>3, NoCallAssumption, <2>1
      DEF BeginSend, Calls
    <3>4. (trigger \in physical') = (trigger \in physical)
      BY <2>1, <3>1 DEF Apply
    <3>5. ~Rising /\ Rising'
      BY <1>b, <2>1, <2>2, <2>3, <3>3 DEF Rising, InCall
    <3>6. Rising = FALSE /\ Rising' = TRUE
      BY <3>5 DEF Rising, InCall
    <3> QED  BY <2>1, <2>2, <3>2, <3>4, <3>6 DEF Layer!Decide, Rising, Configured
  <2>4. CASE Decided(k, t).decision # "PressAndForward"
    <3>1. ~Rising /\ ~Rising'
      BY <1>b, <2>1, <2>2, <2>4 DEF Rising, InCall
    <3>2. UNCHANGED Rising
      BY <3>1 DEF Rising, InCall
    <3> QED  BY <2>2, <3>2, UserMovesOnly
  <2> QED  BY <2>3, <2>4
<1>3. ASSUME NEW k \in Keys, NEW t \in Transitions, CallbackPanics(k, t)
      PROVE  Layer!Next
  <2>1. PICK r \in ReleaseTracked(pressed, down, output_modifiers) :
           pressed' = r.pressed
    BY <1>3 DEF CallbackPanics
  <2>2. pressed' = {}
    BY <1>a, <2>1, ReleaseTrackedFacts, ReleasedAll DEF IInv, Configured
  <2> QED  BY <1>3, <2>2, FallsOrStays DEF CallbackPanics, Rising, InCall, thread
<1>4. CASE SendPress
  <2>1. UNCHANGED <<trigger, output_modifiers, hook, session, physical>>
    BY <1>4 DEF SendPress, Answered, thread
  <2>2. Rising
    BY <1>4 DEF SendPress, Rising
  <2>3. /\ ~Rising'
        /\ pressed = {}
        /\ pressed' = Configured \/ pressed' = {}
    BY <1>4, <1>a, SendPressFacts DEF Rising, InCall
  <2>4. CASE pressed' = Configured
    BY <2>1, <2>2, <2>3, <2>4 DEF Layer!Rise, Rising, Configured
  <2>5. CASE pressed' = {}
    BY <2>1, <2>2, <2>3, <2>5 DEF Layer!Refuse, Rising, Configured
  <2> QED  BY <2>3, <2>4, <2>5
<1>5. CASE SendRelease \/ SendReplay
  <2>1. UNCHANGED <<output_modifiers, hook>>
    BY <1>5 DEF SendRelease, SendReplay, Answered, thread
  <2>2. ~Rising
    BY <1>5 DEF SendRelease, SendReplay, Rising, InCall
  <2>3. ~Rising' /\ (pressed' = {} \/ pressed' = pressed)
    BY <1>5, <1>a, SendReleaseFacts, SendReplayFacts DEF Rising, InCall
  <2>4. UNCHANGED Rising
    BY <2>2, <2>3 DEF Rising, InCall
  <2> QED  BY <2>1, <2>3, <2>4, FallsOrStays, UserMovesOnly
<1>6. CASE ForwardPressed \/ SwallowSent \/ SwallowRejected
  <2>1. UNCHANGED <<pressed, output_modifiers, hook>>
    BY <1>6 DEF ForwardPressed, SwallowSent, SwallowRejected, shared, thread
  <2>2. ~Rising /\ ~Rising'
    BY <1>6 DEF ForwardPressed, SwallowSent, SwallowRejected, Rising, InCall
  <2>3. UNCHANGED Rising
    BY <2>2 DEF Rising, InCall
  <2> QED  BY <2>1, <2>3, UserMovesOnly
<1>7. CASE SendPanics
  <2>1. UNCHANGED <<trigger, output_modifiers, hook, session, physical>>
    BY <1>7 DEF SendPanics, thread
  <2>2. pressed' = {} /\ ~Rising'
    BY <1>7, <1>a, SendPanicsFacts DEF Rising, InCall
  <2>3. CASE Rising
    <3>1. pressed = {}
      BY <1>a, <2>3 DEF IInv, LayerTracked, Rising, InCall
    <3> QED  BY <2>1, <2>2, <2>3, <3>1 DEF Layer!Refuse, Rising, Configured
  <2>4. CASE ~Rising
    <3>1. UNCHANGED Rising
      BY <2>2, <2>4 DEF Rising, InCall
    <3> QED  BY <2>1, <2>2, <3>1, FallsOrStays
  <2> QED  BY <2>3, <2>4
<1>8. CASE \/ Lock \/ Unlock \/ PostReinstall \/ StartHookThread \/ InstallFails
           \/ DropReinstall
  BY <1>8, UserMovesOnly DEF Lock, Unlock, PostReinstall, StartHookThread,
     InstallFails, DropReinstall, Rising, InCall, shared, thread
<1>9. CASE EmergencyDisable \/ Reconcile \/ ReinstallReset \/ HookThreadExits
  <2>1. pressed' = {} /\ call' = call /\ UNCHANGED <<output_modifiers, hook>>
    BY <1>a, <1>9, ResetFacts DEF EmergencyDisable, Reconcile, ReinstallReset,
       HookThreadExits, thread
  <2> QED  BY <2>1, FallsOrStays DEF Rising, InCall
<1>10. ASSUME NEW nt \in TriggerKeys, NEW ms \in ModifierLists, Configure(nt, ms)
       PROVE  Layer!Next
  <2>1. PICK r \in ReleaseTracked(pressed, down, output_modifiers) :
           pressed' = r.pressed
    BY <1>10 DEF Configure
  <2>2. pressed' = {}
    BY <1>a, <2>1, ReleaseTrackedFacts, ReleasedAll DEF IInv, Configured
  <2>3. /\ hook' = hook /\ call = NoCall /\ call' = NoCall
        /\ Configured' \in {Members(l) : l \in ModifierLists}
    BY <1>10, ConfiguredIsLayer DEF Configure, thread, Configured
  <2>4. ~Rising /\ ~Rising'
    BY <2>3 DEF Rising, InCall
  <2>5. UNCHANGED Rising
    BY <2>4 DEF Rising, InCall
  <2> QED  BY <2>2, <2>3, <2>4, <2>5 DEF Layer!Reconfigure, Layer!Users, Rising
<1>11. CASE HookRemoved \/ ReinstallUnhook \/ PumpEnds
  <2>1. /\ hook' = "detached"
        /\ UNCHANGED <<pressed, output_modifiers, trigger, session, physical, call>>
    BY <1>11 DEF HookRemoved, ReinstallUnhook, PumpEnds, shared
  <2>2. hook \in {"attached", "detached"} /\ UNCHANGED Rising
    BY <1>a, <2>1 DEF IInv, TypeOK, Rising, InCall
  <2>3. CASE hook = "attached"
    BY <2>1, <2>2, <2>3 DEF Layer!Detach, Configured, Rising
  <2>4. CASE hook = "detached"
    BY <2>1, <2>2, <2>4, UserMovesOnly
  <2> QED  BY <2>2, <2>3, <2>4
<1>12. CASE InstallHook \/ ReinstallHook
  <2>1. /\ hook' = "attached"
        /\ UNCHANGED <<pressed, output_modifiers, trigger, session, physical, call>>
        /\ pump \in {"starting", "reinstalling"}
    BY <1>12 DEF InstallHook, ReinstallHook, shared
  <2>2. phase = "Idle" /\ hook = "detached" /\ call = NoCall
    BY <1>a, <2>1 DEF IInv, TypeOK, AttachFromIdle, CallWellFormed
  <2>3. pressed = {} /\ ~Rising /\ ~Rising'
    BY <1>a, <2>1, <2>2 DEF IInv, LayerTracked, Rising, InCall
  <2>4. UNCHANGED Rising
    BY <2>3 DEF Rising, InCall
  <2> QED  BY <2>1, <2>2, <2>3, <2>4 DEF Layer!Attach, Configured, Rising
<1>13. CASE UNCHANGED vars
  BY <1>13 DEF vars, Layer!vars, Configured, InCall
<1> QED
  BY <1>1, <1>2, <1>3, <1>4, <1>5, <1>6, <1>7, <1>8, <1>9, <1>10, <1>11,
     <1>12, <1>13
  DEF Next, KeyEvent, FinishSend, HookThread, NestedEvent

(* Without nested events the rise of the generated modifiers is decided    *)
(* only under the user's finger and an attached hook, they rise and fall   *)
(* as one, and no hook is attached and nothing reconfigured while they are *)
(* up or on their way up, wherever in a callback Windows removes the hook. *)
THEOREM Implementation ==
    ASSUME "nested" \notin Faults
    PROVE  Spec => ImplementsLayer
  BY InitImplements, NextImplements, InitHInv, NextHInv, PTL
  DEF Spec, ImplementsLayer, Layer!Spec

---------------------------------------------------------------------------
(* While a hook stays attached and the session is not locked, no step      *)
(* shows the trigger going down.                                           *)
LEMMA NextTriggerHidden ==
    ASSUME "nested" \notin Faults, "panic" \notin Faults, ~SendMayFail,
           HInv, [Next]_vars,
           hook = "attached", hook' = "attached", session # "away",
           trigger' = trigger, trigger \in down'
    PROVE  trigger \in down
<1>a. IInv
  BY DEF HInv
<1>b. trigger \notin Configured
  BY <1>a, ListedModifiers, KeysAssumption DEF IInv, TypeOK, Configured
<1>1. ASSUME NEW k \in Keys, NEW t \in Transitions, KeyEvent(k, t)
      PROVE  trigger \in down
  <2>1. ~UnhookedEvent(k, t) /\ ~NestedEvent(k, t) /\ ~CallbackPanics(k, t)
    BY DEF UnhookedEvent, NestedEvent, CallbackPanics
  <2>2. CASE SuppressEvent(k, t) \/ BeginSend(k, t)
    BY <2>2 DEF SuppressEvent, BeginSend
  <2>3. CASE ForwardEvent(k, t)
    <3>1. /\ Decided(k, t).decision \in {"PassThrough", "Forward"}
          /\ Explained(phase, k, t, trigger, Decided(k, t))
      BY <1>a, <2>3, DispatchFacts DEF ForwardEvent
    <3>2. k = trigger => t # "Down"
      BY <3>1 DEF Decided, Process, ProcessIdle, Real, TriggerTransition, Explained
    <3> QED  BY <2>3, <3>2 DEF ForwardEvent, Apply, Transitions
  <2> QED  BY <1>1, <2>1, <2>2, <2>3 DEF KeyEvent
<1>2. CASE SendPress
  BY <1>2, <1>a, <1>b, SendPressFacts
<1>3. CASE SendRelease
  BY <1>3, <1>a, SendReleaseFacts
<1>4. CASE SendReplay
  BY <1>4, <1>a, SendReplayFacts
<1>8. CASE ForwardPressed
  <2>1. call.key # trigger
    BY <1>8, <1>a DEF ForwardPressed, InCall, IInv, CallWellFormed
  <2> QED  BY <1>8, <2>1 DEF ForwardPressed
<1>5. ASSUME NEW nt \in TriggerKeys, NEW ms \in ModifierLists, Configure(nt, ms)
      PROVE  trigger \in down
  <2>1. PICK r \in ReleaseTracked(pressed, down, output_modifiers) : down' = r.down
    BY <1>5 DEF Configure
  <2> QED  BY <2>1, ReleaseTrackedFacts
<1>6. CASE EmergencyDisable \/ Reconcile \/ ReinstallReset \/ HookThreadExits
  BY <1>a, <1>6, ResetFacts DEF EmergencyDisable, Reconcile, ReinstallReset,
     HookThreadExits
<1>7. CASE \/ SwallowSent \/ SwallowRejected \/ SendPanics
           \/ HookRemoved \/ Lock \/ Unlock \/ PostReinstall \/ StartHookThread \/ InstallHook
           \/ InstallFails \/ DropReinstall \/ ReinstallUnhook
           \/ ReinstallHook \/ PumpEnds \/ UNCHANGED vars
  BY <1>7 DEF SwallowSent, SwallowRejected, SendPanics, HookRemoved, Lock,
     Unlock, PostReinstall, StartHookThread, InstallHook, InstallFails, DropReinstall, ReinstallUnhook, ReinstallHook, PumpEnds, vars
<1> QED
  BY <1>1, <1>2, <1>3, <1>4, <1>5, <1>6, <1>7, <1>8
  DEF Next, FinishSend, HookThread

(* Without nested events, rejected sends and panics, the trigger stays     *)
(* invisible while a hook stays attached and the session is not locked.    *)
THEOREM TriggerStaysHidden ==
    ASSUME "nested" \notin Faults, "panic" \notin Faults, ~SendMayFail
    PROVE  Spec => TriggerHidden
<1>1. HInv /\ [Next]_vars =>
        [/\ hook = "attached" /\ hook' = "attached"
         /\ session # "away"
         /\ trigger' = trigger
         /\ trigger \in down'
         => trigger \in down]_vars
  BY NextTriggerHidden
<1> QED  BY <1>1, InitHInv, NextHInv, PTL DEF Spec, TriggerHidden
=============================================================================
