----------------------------- MODULE MCInputPath ----------------------------
(* InputPath on two possible triggers, one ordinary key and two modifiers, *)
(* with a layer of one and a layer of two.                                 *)
EXTENDS InputPath

CONSTANTS caps, scroll, key, ctrl, shift

MCTriggerKeys == {caps, scroll}
MCOrdinaryKeys == {key}
MCModifiers == {ctrl, shift}
MCModifierLists == {<<ctrl, shift>>, <<shift>>}
=============================================================================
