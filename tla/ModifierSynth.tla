--------------------------- MODULE ModifierSynth ----------------------------
(***************************************************************************)
(* ModifierSynthesizer of hyperkey-input/src/synth.rs.  Each operator      *)
(* gives the set of outcomes of one method: the tracked set `pressed`, the *)
(* set `down` of keys the system sees down, and whether the method was Ok. *)
(*                                                                         *)
(* SendInput accepts a prefix of the inputs it is given.  The inputs are   *)
(* the members of a modifier list that satisfy the method's filter, in the *)
(* list's order, so what was accepted is Listed(mods, k) \cap filter for   *)
(* some k; no sequence has to be filtered.                                 *)
(***************************************************************************)
EXTENDS Integers, Sequences

CONSTANT SendMayFail    \* TRUE when Windows may reject (part of) a SendInput

ASSUME SendMayFailAssumption == SendMayFail \in BOOLEAN

Listed(mods, k) == {mods[i] : i \in 1..k}

Members(mods) == Listed(mods, Len(mods))

(* send(create_inputs(filtered list)): the members the system accepted.    *)
Accepted(mods, filtered) ==
    IF SendMayFail
    THEN {Listed(mods, k) \cap filtered : k \in 0..Len(mods)}
    ELSE {filtered}

Outcome(pressed, down, result) ==
    [pressed |-> pressed, down |-> down, result |-> result]

(* Seeded fault: the tracked set is cleared and nothing is sent.           *)
ReleaseTrackedUnsent(pressed, down, mods) ==
    {Outcome(pressed \ Members(mods), down, "Ok")}

(* release_tracked: the result of the send is ignored, and everything that *)
(* was asked for is dropped from the tracked set.                          *)
ReleaseTracked(pressed, down, mods) ==
    LET logical == Members(mods) \cap pressed
    IN  {Outcome(pressed \ logical, down \ sent, "Ok") :
            sent \in Accepted(mods, logical)}

Failed(outcomes) == {[r EXCEPT !.result = "Err"] : r \in outcomes}

(* try_press: track what was accepted; a short send is rolled back.        *)
TryPress(pressed, down, mods) ==
    LET to_press == Members(mods) \ pressed
    IN  UNION {IF sent = to_press
               THEN {Outcome(pressed \cup sent, down \cup sent, "Ok")}
               ELSE Failed(ReleaseTracked(pressed \cup sent, down \cup sent, mods)) :
                    sent \in Accepted(mods, to_press)}

(* try_release: untrack what was accepted; after a short send the rest is  *)
(* tried once more through release_tracked.                                *)
TryRelease(pressed, down, mods) ==
    LET logical == Members(mods) \cap pressed
    IN  UNION {IF sent = logical
               THEN {Outcome(pressed \ sent, down \ sent, "Ok")}
               ELSE Failed(ReleaseTracked(pressed \ sent, down \ sent, mods)) :
                    sent \in Accepted(mods, logical)}

(* try_replay_trigger: down then up by scan code.  Nothing is sent when    *)
(* the key has no scan code or Windows rejects both; when only the down    *)
(* went out the up is sent once more, and that may fail too.               *)
ReplayTrigger(pressed, down, trigger) ==
    {Outcome(pressed, down \ {trigger}, "Ok")}
    \cup (IF SendMayFail
          THEN {Outcome(pressed, down, "Err"),
                Outcome(pressed, down \cup {trigger}, "Err"),
                Outcome(pressed, down \ {trigger}, "Err")}
          ELSE {})
=============================================================================
