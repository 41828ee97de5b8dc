---------------------------- MODULE SettingsStore ----------------------------
(***************************************************************************)
(* SettingsStore of hyperkey-app/src/settings_store.rs: the settings file, *)
(* its temporary sibling and its backup, step by step between two calls of *)
(* the file system, any of which may fail, with the process killed at any  *)
(* of them.  Other programs write the file only while hyperkey is down.    *)
(***************************************************************************)
EXTENDS SettingsJson

CONSTANTS Texts,        \* what other programs put into the settings file
          Savable,      \* the settings the user may save
          None,         \* no file
          Torn          \* a file whose writing was cut short

ASSUME SavableAssumption ==
    /\ Savable \subseteq SettingsRecords
    /\ \A s \in Savable : Accepts(s)

Files == Texts \cup {Serialize(s) : s \in Savable}

ASSUME TextsAssumption == Texts \subseteq Documents \cup {NoDocument}

ASSUME FilesAssumption == {None, Torn} \cap Files = {} /\ None # Torn

VARIABLES
    file,       \* settings.json
    tmp,        \* settings.json.tmp
    bak,        \* settings.json.bak
    step,       \* where the process is, or "down"
    settings,   \* the settings in memory
    banner,     \* what a settings window says about them
    window,     \* this process has opened its settings window
    notice      \* what became of a message that the file stays in place

disk == <<file, tmp, bak>>
seen == <<window, notice>>
memory == <<settings, banner, seen>>
vars == <<file, tmp, bak, step, settings, banner, window, notice>>

LoadSteps == {"load", "read", "clear_backup", "move_aside"}
SaveSteps == {"write", "rename", "clean"}

(* What the user saves, what a load may yield, and the defaults.           *)
Settings == Savable \cup {Parse(text).settings : text \in Files} \cup {Defaults}

TypeOK ==
    /\ file \in Files \cup {None}
    /\ tmp \in Files \cup {None, Torn}
    /\ bak \in Files \cup {None}
    /\ step \in {"down", "idle"} \cup LoadSteps \cup SaveSteps
    /\ \E s \in Settings : settings \in {s, [s EXCEPT !.enabled = FALSE]}
    /\ banner \in {"none", "repaired", "defaults", "moved", "not_moved", "save_failed"}
    /\ window \in BOOLEAN
    /\ notice \in {"none", "pending", "seen", "unseen"}
    /\ notice = "pending" => banner = "not_moved" /\ ~window

Init ==
    /\ file \in Texts \cup {None}
    /\ tmp = None
    /\ bak = None
    /\ step = "down"
    /\ settings = Defaults
    /\ banner = "none"
    /\ window = FALSE
    /\ notice = "none"

---------------------------------------------------------------------------
(* load.                                                                   *)

(* boot keeps the message as the banner, and opens the settings window     *)
(* unless it was told to start to the tray, by its argument or a setting.  *)
Loaded(new_settings, new_banner) ==
    /\ settings' = new_settings
    /\ banner' = new_banner
    /\ window' \in IF new_settings.launch_to_tray THEN {FALSE} ELSE BOOLEAN
    /\ notice' = IF new_banner # "not_moved" THEN "none"
                 ELSE IF window' THEN "seen" ELSE "pending"
    /\ step' = "idle"

(* What the parser sees of the file; nothing of a cut document parses.     *)
Outcome == Parse(IF file = Torn THEN NoDocument ELSE file)

Launch ==
    /\ step = "down"
    /\ step' = "load"
    /\ UNCHANGED <<disk, memory>>

LoadDeletesTmp ==
    /\ step = "load"
    /\ tmp' \in {None, tmp}
    /\ step' = "read"
    /\ UNCHANGED <<file, bak, memory>>

LoadAbsent ==
    /\ step = "read"
    /\ file = None
    /\ Loaded(Defaults, "none")
    /\ UNCHANGED disk

LoadUses ==
    /\ step = "read"
    /\ file # None
    /\ ~Outcome.used_defaults
    /\ Loaded(Outcome.settings, IF Outcome.repairs = {} THEN "none" ELSE "repaired")
    /\ UNCHANGED disk

(* The file of a newer version stays in place.                             *)
LoadRefuses ==
    /\ step = "read"
    /\ file # None
    /\ Outcome.used_defaults /\ ~Outcome.file_corrupt
    /\ Loaded(Defaults, "defaults")
    /\ UNCHANGED disk

LoadCorrupt ==
    /\ step = "read"
    /\ file # None
    /\ Outcome.file_corrupt
    /\ step' = "clear_backup"
    /\ UNCHANGED <<disk, memory>>

(* A file that cannot be read is treated like a corrupt one.               *)
LoadUnreadable ==
    /\ step = "read"
    /\ file # None
    /\ step' = "clear_backup"
    /\ UNCHANGED <<disk, memory>>

(* quarantine, by replace_file: the old backup is deleted first.           *)
QuarantineClears ==
    /\ step = "clear_backup"
    /\ bak' \in {None, bak}
    /\ step' = "move_aside"
    /\ UNCHANGED <<file, tmp, memory>>

QuarantineMoves ==
    /\ step = "move_aside"
    /\ bak' = file
    /\ file' = None
    /\ Loaded(Defaults, "moved")
    /\ UNCHANGED tmp

(* Seeded fault: a failed move is reported as if it had succeeded.         *)
QuarantineFailsSilently ==
    /\ step = "move_aside"
    /\ Loaded(Defaults, "moved")
    /\ UNCHANGED disk

QuarantineFails ==
    /\ step = "move_aside"
    /\ Loaded(Defaults, "not_moved")
    /\ UNCHANGED disk

---------------------------------------------------------------------------
(* show_settings_window, from the tray or a second launch.                 *)

OpenWindow ==
    /\ step = "idle"
    /\ ~window
    /\ window' = TRUE
    /\ notice' = IF notice = "pending" THEN "seen" ELSE notice
    /\ UNCHANGED <<disk, step, settings, banner>>

---------------------------------------------------------------------------
(* save, as update_settings calls it: the settings are in memory already.  *)

Save(new_settings) ==
    /\ step = "idle"
    /\ settings' = new_settings
    /\ step' = "write"
    /\ UNCHANGED <<disk, banner, seen>>

(* update_settings puts the outcome of a save in the place of the banner.  *)
ReplaceBanner(new_banner) ==
    /\ banner' = new_banner
    /\ notice' = IF notice = "pending" THEN "unseen" ELSE notice
    /\ UNCHANGED window

(* apply_emergency_disable changes the settings in memory only.            *)
EmergencyDisable ==
    /\ step = "idle"
    /\ settings.enabled
    /\ settings' = [settings EXCEPT !.enabled = FALSE]
    /\ UNCHANGED <<disk, step, banner, seen>>

WriteTmp ==
    /\ step = "write"
    /\ tmp' = Serialize(settings)
    /\ step' = "rename"
    /\ UNCHANGED <<file, bak, memory>>

(* Seeded fault: the error of the write is not looked at.                  *)
WriteFailsUnseen ==
    /\ step = "write"
    /\ tmp' = Torn
    /\ step' = "rename"
    /\ UNCHANGED <<file, bak, memory>>

(* The directory cannot be made, or the write ends early.                  *)
WriteFails ==
    /\ step = "write"
    /\ tmp' \in {tmp, Torn}
    /\ step' = "clean"
    /\ UNCHANGED <<file, bak, memory>>

RenameTmp ==
    /\ step = "rename"
    /\ file' = tmp
    /\ tmp' = None
    /\ ReplaceBanner("none")
    /\ step' = "idle"
    /\ UNCHANGED <<bak, settings>>

(* Seeded fault: a save replaces the file as quarantine does, by deleting  *)
(* it before the rename.                                                   *)
RenameFailsDeleted ==
    /\ step = "rename"
    /\ file' \in {None, file}
    /\ step' = "clean"
    /\ UNCHANGED <<tmp, bak, memory>>

RenameFails ==
    /\ step = "rename"
    /\ step' = "clean"
    /\ UNCHANGED <<disk, memory>>

(* Seeded fault: a save that failed clears the banner.                     *)
SaveCleansSilently ==
    /\ step = "clean"
    /\ tmp' \in {None, tmp}
    /\ ReplaceBanner("none")
    /\ step' = "idle"
    /\ UNCHANGED <<file, bak, settings>>

SaveCleans ==
    /\ step = "clean"
    /\ tmp' \in {None, tmp}
    /\ ReplaceBanner("save_failed")
    /\ step' = "idle"
    /\ UNCHANGED <<file, bak, settings>>

---------------------------------------------------------------------------
(* The world outside.                                                      *)

(* The process ends, between two calls or in the middle of the write.      *)
Killed ==
    /\ step # "down"
    /\ tmp' \in IF step = "write" THEN {tmp, Torn} ELSE {tmp}
    /\ step' = "down"
    /\ settings' = Defaults
    /\ banner' = "none"
    /\ window' = FALSE
    /\ notice' = "none"
    /\ UNCHANGED <<file, bak>>

OutsideWrites ==
    /\ step = "down"
    /\ file' \in Texts \cup {None}
    /\ UNCHANGED <<tmp, bak, step, memory>>

Load ==
    \/ LoadDeletesTmp
    \/ LoadAbsent \/ LoadUses \/ LoadRefuses \/ LoadCorrupt \/ LoadUnreadable
    \/ QuarantineClears \/ QuarantineMoves \/ QuarantineFails

SaveStep == WriteTmp \/ WriteFails \/ RenameTmp \/ RenameFails \/ SaveCleans

Next ==
    \/ Launch
    \/ Load
    \/ OpenWindow
    \/ \E s \in Savable : Save(s)
    \/ EmergencyDisable
    \/ SaveStep
    \/ Killed
    \/ OutsideWrites

Spec == Init /\ [][Next]_vars

---------------------------------------------------------------------------
(* Properties.                                                             *)

(* CONTRIBUTING.md: "Settings saves must never leave a half-written        *)
(* settings.json, even on process kill".  Whatever fails and whenever the  *)
(* process dies, hyperkey replaces the file only by the whole settings in  *)
(* memory, or moves it to the backup.                                      *)
FileReplacedWhole ==
    [][step # "down" /\ file' # file =>
          \/ file' = Serialize(settings)
          \/ file' = None /\ bak' = file]_vars

(* settings_store.rs: "a corrupt file never silently becomes a reset".  A  *)
(* text that does not parse leaves the settings file only for the backup,  *)
(* or after the window has shown that it could not be moved aside.  The    *)
(* exception, where the promise is broken: in a launch to the tray a first *)
(* save, made before any window was opened, puts its outcome in the place  *)
(* of that message.                                                        *)
CorruptFileKept ==
    [][step # "down" /\ file # None /\ Outcome.file_corrupt /\ file' # file =>
          bak' = file \/ notice = "seen" \/ notice' = "unseen"]_vars

(* Settings without a banner are what the next launch will load, but for   *)
(* an emergency disable, which is meant to be forgotten: a failed save, a  *)
(* failed load and a repair all leave a banner.                            *)
NoWarningMeansSaved ==
    LET loaded == IF file = None THEN Defaults ELSE Outcome.settings
    IN  step = "idle" /\ banner = "none" =>
          \E enabled \in {loaded.enabled, FALSE} :
             settings = [loaded EXCEPT !.enabled = enabled,
                                       !.schema_version = settings.schema_version]

---------------------------------------------------------------------------
(* The refinement of SettingsFile: what the next launch uses and what is   *)
(* in memory, both in the schema that a save declares.                     *)

Newest(s) == [s EXCEPT !.schema_version = CurrentSchemaVersion]

NextLoad == Newest(IF file = None THEN Defaults ELSE Outcome.settings)

Phase ==
    IF step \in LoadSteps THEN "loading"
    ELSE IF step \in SaveSteps THEN "saving"
    ELSE step

Promise == INSTANCE SettingsFile WITH
    Values <- {s \in SettingsRecords : Accepts(s)},
    Default <- Defaults,
    saved <- NextLoad,
    current <- Newest(settings),
    phase <- Phase,
    warned <- banner # "none"

(* The three files and the calls between them are one value that a save    *)
(* replaces at one point in time or not at all, wherever the process dies: *)
(* the promise of SettingsFile.                                            *)
ImplementsSettingsFile == Promise!Spec
=============================================================================
