---------------------------- MODULE SettingsFile ----------------------------
(***************************************************************************)
(* What the settings store promises the application: one saved value that  *)
(* a save replaces at one point in time or not at all, and a warning       *)
(* whenever that value may not be the one in memory.  SettingsStore keeps  *)
(* the promise with three files, calls that fail and a process that is     *)
(* killed between any two of them.                                         *)
(***************************************************************************)
CONSTANTS Values,       \* the settings settings.rs accepts
          Default

VARIABLES saved,        \* what the next launch will use
          current,      \* the settings in memory
          phase,        \* "down", "loading", "idle" or "saving"
          warned        \* there is a banner for the settings window

vars == <<saved, current, phase, warned>>

Init ==
    /\ saved \in Values
    /\ current = Default
    /\ phase = "down"
    /\ warned = FALSE

Launch ==
    /\ phase = "down"
    /\ phase' = "loading"
    /\ UNCHANGED <<saved, current, warned>>

(* A load may warn of repairs it has made.                                 *)
Load ==
    /\ phase = "loading"
    /\ phase' = "idle"
    /\ current' = saved
    /\ warned' \in BOOLEAN
    /\ UNCHANGED saved

(* A file that cannot be used is left alone or moved away, with a warning. *)
LoadFails ==
    /\ phase = "loading"
    /\ phase' = "idle"
    /\ current' = Default
    /\ warned' = TRUE
    /\ saved' \in {saved, Default}

Change ==
    /\ phase = "idle"
    /\ phase' = "saving"
    /\ current' \in Values
    /\ UNCHANGED <<saved, warned>>

(* Not saved on purpose: the next launch forgets it.                       *)
EmergencyDisable ==
    /\ phase = "idle"
    /\ current' = [current EXCEPT !.enabled = FALSE]
    /\ UNCHANGED <<saved, phase, warned>>

Commit ==
    /\ phase = "saving"
    /\ phase' = "idle"
    /\ saved' = current
    /\ warned' = FALSE
    /\ UNCHANGED current

Refuse ==
    /\ phase = "saving"
    /\ phase' = "idle"
    /\ warned' = TRUE
    /\ UNCHANGED <<saved, current>>

Killed ==
    /\ phase # "down"
    /\ phase' = "down"
    /\ current' = Default
    /\ warned' = FALSE
    /\ UNCHANGED saved

(* Other programs write the file only while hyperkey is down.              *)
OutsideWrites ==
    /\ phase = "down"
    /\ saved' \in Values
    /\ UNCHANGED <<current, phase, warned>>

Next ==
    \/ Launch \/ Load \/ LoadFails
    \/ Change \/ EmergencyDisable
    \/ Commit \/ Refuse
    \/ Killed \/ OutsideWrites

Spec == Init /\ [][Next]_vars
=============================================================================
