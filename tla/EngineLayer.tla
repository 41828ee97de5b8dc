----------------------------- MODULE EngineLayer -----------------------------
(***************************************************************************)
(* What the engine of hyperkey-input promises the application: the status  *)
(* it can read while it calls start, stop and restart_hook.  HookEngine is *)
(* the detailed engine that keeps the promise, HyperApp builds on it.      *)
(*                                                                         *)
(* `late` is where the promise has its price: once one of the waits inside *)
(* a call has expired, a hook thread nobody waits for any more may still   *)
(* report Running.                                                         *)
(***************************************************************************)

VARIABLES
    call,       \* the call in progress; "undoing" is a start that failed late
    status,     \* InputEngine::status
    late        \* a wait of some call has expired

engine == <<call, status, late>>

EngineStatuses == {"Stopped", "Starting", "Running", "Stopping", "Failed"}

Calls == {"none", "starting", "undoing", "stopping"}

Ending == call \in {"undoing", "stopping"}

EngineTypeOK ==
    /\ call \in Calls
    /\ status \in EngineStatuses
    /\ late \in BOOLEAN

EngineInit ==
    /\ call = "none"
    /\ status = "Stopped"
    /\ late = FALSE

---------------------------------------------------------------------------
(* The calls begin and return.                                             *)

CanStart == call = "none" /\ status \in {"Stopped", "Failed"}

StartCall ==
    /\ CanStart
    /\ call' = "starting"
    /\ status' = "Starting"
    /\ UNCHANGED late

(* The hook thread could not be spawned.                                   *)
StartRefused ==
    /\ CanStart
    /\ status' = "Failed"
    /\ UNCHANGED <<call, late>>

StartReturns ==
    /\ call = "starting"
    /\ status \in {"Running", "Failed"}
    /\ call' = "none"
    /\ UNCHANGED <<status, late>>

StopCall ==
    /\ call = "none"
    /\ call' = "stopping"
    /\ UNCHANGED <<status, late>>

(* Once a wait has expired a call may leave a Failed or a Running engine.  *)
LateEnd == late /\ status \in {"Failed", "Running"}

StopDone == call = "stopping" /\ (status = "Stopped" \/ LateEnd)

StopReturns ==
    /\ StopDone
    /\ call' = "none"
    /\ UNCHANGED <<status, late>>

UndoReturns ==
    /\ call = "undoing"
    /\ status = "Failed" \/ LateEnd
    /\ call' = "none"
    /\ UNCHANGED <<status, late>>

---------------------------------------------------------------------------
(* What happens inside a call and between calls.                           *)

HookInstalled ==
    /\ call = "starting"
    /\ status = "Starting"
    /\ status' = "Running"
    /\ UNCHANGED <<call, late>>

HookFails ==
    /\ status # "Stopped"
    /\ status' = "Failed"
    /\ UNCHANGED <<call, late>>

(* start stops the engine when the hook thread is not ready in time.       *)
StartGivesUp ==
    /\ call = "starting"
    /\ call' = "stopping"
    /\ late' = TRUE
    /\ UNCHANGED status

(* start stops a Running engine that can have no watchdog, and then fails. *)
StartUndone ==
    /\ call = "starting"
    /\ call' = "undoing"
    /\ UNCHANGED <<status, late>>

UndoneFails ==
    /\ call = "undoing"
    /\ status' = "Failed"
    /\ UNCHANGED <<call, late>>

StopRequested ==
    /\ Ending
    /\ status' = "Stopping"
    /\ UNCHANGED <<call, late>>

StopSettles ==
    /\ Ending
    /\ status' = "Stopped"
    /\ UNCHANGED <<call, late>>

(* The hook thread does not end in time.                                   *)
StopGivesUp ==
    /\ Ending
    /\ late' = TRUE
    /\ UNCHANGED <<call, status>>

LateRunning ==
    /\ late
    /\ status # "Stopped"
    /\ status' = "Running"
    /\ UNCHANGED <<call, late>>

EngineMoves ==
    \/ HookInstalled \/ HookFails
    \/ StartGivesUp \/ StartUndone \/ UndoneFails
    \/ StopRequested \/ StopSettles \/ StopGivesUp
    \/ LateRunning

EngineNext ==
    \/ StartCall \/ StartRefused \/ StartReturns
    \/ StopCall \/ StopReturns \/ UndoReturns
    \/ EngineMoves

EngineSpec == EngineInit /\ [][EngineNext]_engine
=============================================================================
