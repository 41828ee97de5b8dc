--------------------------- MODULE ModifierLayer ----------------------------
(***************************************************************************)
(* What the hyper key promises about the modifiers it generates, with no   *)
(* keys, no machine and no hook thread: their rise is decided only while   *)
(* the trigger is held, as far as the session shows it, under an attached  *)
(* hook; they rise together or not at all, and fall together; and while    *)
(* they are up, or on their way up, no hook is attached and nothing is     *)
(* reconfigured under them.                                                *)
(*                                                                         *)
(* Between the decision and the rise the user may let go and Windows may   *)
(* remove the hook: a rise that was decided still happens.                 *)
(***************************************************************************)
CONSTANT Layers         \* the sets of modifiers that may be configured

VARIABLES held,         \* the generated modifiers
          config,       \* the configured modifiers
          user,         \* whether the user holds the trigger
          rising,       \* the rise is decided and the modifiers are not up
          hook          \* whether the hook is attached

vars == <<held, config, user, rising, hook>>

Users == {"holding", "away", "unknown"}

Init ==
    /\ held = {}
    /\ config \in Layers
    /\ user = "away"
    /\ rising = FALSE
    /\ hook = "detached"

(* The trigger moves, or the session hides or shows the user.              *)
UserMoves ==
    /\ user' \in Users
    /\ UNCHANGED <<held, config, rising, hook>>

Decide ==
    /\ user \in {"holding", "unknown"}
    /\ hook = "attached"
    /\ held = {}
    /\ ~rising
    /\ rising' = TRUE
    /\ UNCHANGED <<held, config, user, hook>>

Rise ==
    /\ rising
    /\ rising' = FALSE
    /\ held' = config
    /\ UNCHANGED <<config, user, hook>>

Refuse ==
    /\ rising
    /\ rising' = FALSE
    /\ UNCHANGED <<held, config, user, hook>>

(* Falling may coincide with the event that caused it.                     *)
Fall ==
    /\ held # {}
    /\ held' = {}
    /\ user' \in Users
    /\ UNCHANGED <<config, rising, hook>>

(* A new trigger key may or may not be held at that moment.                *)
Reconfigure ==
    /\ ~rising
    /\ held' = {}
    /\ config' \in Layers
    /\ user' \in Users
    /\ UNCHANGED <<rising, hook>>

Attach ==
    /\ hook = "detached"
    /\ held = {}
    /\ ~rising
    /\ hook' = "attached"
    /\ UNCHANGED <<held, config, user, rising>>

Detach ==
    /\ hook = "attached"
    /\ hook' = "detached"
    /\ UNCHANGED <<held, config, user, rising>>

Next ==
    \/ UserMoves \/ Decide \/ Rise \/ Refuse \/ Fall
    \/ Reconfigure \/ Attach \/ Detach

Spec == Init /\ [][Next]_vars
=============================================================================
