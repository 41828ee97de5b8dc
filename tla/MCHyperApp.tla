----------------------------- MODULE MCHyperApp -----------------------------
(* HyperApp with two triggers, one of which activates controls, and two    *)
(* modifiers, so that a selection can grow, shrink and refuse to be empty. *)
EXTENDS HyperApp

CONSTANTS enter, key, ctrl, shift

MCTriggers == {enter, key}
MCActivationKeys == {enter}
MCOutputModifiers == {ctrl, shift}
MCDefaultSettings ==
    [enabled |-> TRUE, trigger |-> key, output_modifiers |-> {ctrl, shift},
     launch_at_startup |-> FALSE]
MCFirstSettings == {MCDefaultSettings}
=============================================================================
