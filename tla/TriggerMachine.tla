--------------------------- MODULE TriggerMachine ---------------------------
(***************************************************************************)
(* The pure trigger state machine of hyperkey-core/src/machine.rs: what    *)
(* one keyboard event does to the phase, and what the hook has to do with  *)
(* the event.  PressAndForward and ReleaseAndSuppress carry the configured *)
(* modifier list in the code; it is always the list passed in, so here the *)
(* caller keeps it.                                                        *)
(***************************************************************************)

Phases == {"Idle", "TriggerHeld", "HyperActive"}

Transitions == {"Down", "Up"}

Decisions == {"PassThrough", "Suppress", "Forward",
              "PressAndForward", "ReleaseAndSuppress", "ReplayTrigger"}

KeyboardEvents(Keys) ==
    [key: Keys, transition: Transitions, is_synthetic: BOOLEAN]

TriggerTransition(phase, decision) == [phase |-> phase, decision |-> decision]

ProcessIdle(input, is_trigger) ==
    IF is_trigger /\ input.transition = "Down"
    THEN TriggerTransition("TriggerHeld", "Suppress")
    ELSE TriggerTransition("Idle", "PassThrough")

(* Seeded fault: the trigger's auto-repeat passes through.                 *)
ProcessTriggerHeldRepeats(input, is_trigger) ==
    CASE is_trigger /\ input.transition = "Up" ->
            TriggerTransition("Idle", "ReplayTrigger")
      [] ~is_trigger /\ input.transition = "Down" ->
            TriggerTransition("HyperActive", "PressAndForward")
      [] is_trigger = (input.transition = "Down") ->
            TriggerTransition("TriggerHeld", "PassThrough")

ProcessTriggerHeld(input, is_trigger) ==
    CASE is_trigger /\ input.transition = "Up" ->
            TriggerTransition("Idle", "ReplayTrigger")
      [] is_trigger /\ input.transition = "Down" ->
            TriggerTransition("TriggerHeld", "Suppress")
      [] ~is_trigger /\ input.transition = "Down" ->
            TriggerTransition("HyperActive", "PressAndForward")
      [] ~is_trigger /\ input.transition = "Up" ->
            TriggerTransition("TriggerHeld", "PassThrough")

(* Seeded fault: any key coming up ends the layer.                         *)
ProcessHyperActiveAnyUp(input, is_trigger) ==
    CASE input.transition = "Up" ->
            TriggerTransition("Idle", "ReleaseAndSuppress")
      [] is_trigger /\ input.transition = "Down" ->
            TriggerTransition("HyperActive", "Suppress")
      [] ~is_trigger /\ input.transition = "Down" ->
            TriggerTransition("HyperActive", "Forward")

ProcessHyperActive(input, is_trigger) ==
    CASE is_trigger /\ input.transition = "Up" ->
            TriggerTransition("Idle", "ReleaseAndSuppress")
      [] is_trigger /\ input.transition = "Down" ->
            TriggerTransition("HyperActive", "Suppress")
      [] ~is_trigger ->
            TriggerTransition("HyperActive", "Forward")

(* process_with_trigger: generated input never moves the machine.          *)
Process(phase, input, trigger) ==
    LET is_trigger == input.key = trigger
    IN  CASE input.is_synthetic -> TriggerTransition(phase, "PassThrough")
          [] ~input.is_synthetic /\ phase = "Idle" ->
                ProcessIdle(input, is_trigger)
          [] ~input.is_synthetic /\ phase = "TriggerHeld" ->
                ProcessTriggerHeld(input, is_trigger)
          [] ~input.is_synthetic /\ phase = "HyperActive" ->
                ProcessHyperActive(input, is_trigger)
=============================================================================
