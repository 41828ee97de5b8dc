------------------------ MODULE SettingsStoreProofs -------------------------
(***************************************************************************)
(* Proofs about SettingsStore.                                             *)
(***************************************************************************)
EXTENDS SettingsStore, SettingsJsonProofs

---------------------------------------------------------------------------
(* What Parse yields, whatever the text.                                   *)

(* A document that is used is not called corrupt, and the settings are     *)
(* never short of a field.                                                 *)
LEMMA ParseShape ==
    ASSUME NEW text
    PROVE  /\ ~Parse(text).used_defaults => ~Parse(text).file_corrupt
           /\ Parse(text).settings = [Parse(text).settings EXCEPT
                   !.enabled = Parse(text).settings.enabled,
                   !.schema_version = Parse(text).settings.schema_version]
<1>1. ASSUME NEW s, s = Defaults \/ (\E document : s = Parsed(document))
      PROVE  s = [s EXCEPT !.enabled = s.enabled,
                           !.schema_version = s.schema_version]
  BY <1>1 DEF Defaults, Parsed
<1>2. \A corrupt : /\ Unusable(corrupt).settings = Defaults
                    /\ Unusable(corrupt).used_defaults
  BY DEF Unusable
<1>3. /\ \/ Usable(text).settings = Defaults
         \/ Usable(text).settings = Parsed(text)
      /\ ~Usable(text).used_defaults => ~Usable(text).file_corrupt
  BY <1>2 DEF Usable
<1>4. Parse(text) \in {Unusable(TRUE), Unusable(FALSE), Usable(text)}
  BY DEF Parse, Unsupported
<1>5. \/ Parse(text).settings = Defaults
      \/ Parse(text).settings = Parsed(text)
  BY <1>2, <1>3, <1>4
<1>6. ~Parse(text).used_defaults => ~Parse(text).file_corrupt
  BY <1>2, <1>3, <1>4
<1> QED  BY <1>1, <1>5, <1>6

(* A file a save has written is there, whole, and reads back clean.        *)
LEMMA SavedFile ==
    ASSUME NEW s \in Savable, file' = Serialize(s)
    PROVE  /\ file' # None
           /\ Outcome' = [settings |-> [s EXCEPT !.schema_version = CurrentSchemaVersion],
                          used_defaults |-> FALSE, repairs |-> {},
                          file_corrupt |-> FALSE]
<1>1. file' # None /\ file' # Torn
  BY FilesAssumption DEF Files
<1>2. s \in SettingsRecords /\ Accepts(s)
  BY SavableAssumption
<1>3. Outcome' = Parse(Serialize(s))
  BY <1>1 DEF Outcome
<1> QED  BY <1>1, <1>2, <1>3, ReadBack

---------------------------------------------------------------------------
(* The inductive invariant.                                                *)

(* Only settings the user chose are written.                               *)
SavesSavable == step \in {"write", "rename"} => settings \in Savable

(* The temporary file is renamed only when it holds the whole settings.    *)
RenamesWhole == step = "rename" => tmp = Serialize(settings)

(* A process past its load that sits on a corrupt file has a message that  *)
(* says so, seen or not.                                                   *)
CorruptIsTold ==
    step \in {"idle"} \cup SaveSteps /\ file # None /\ Outcome.file_corrupt
        => notice # "none"

SInv == SavesSavable /\ RenamesWhole /\ CorruptIsTold /\ NoWarningMeansSaved

LEMMA InitSInv == Init => SInv
  BY DEF Init, SInv, SavesSavable, RenamesWhole, CorruptIsTold,
         NoWarningMeansSaved, SaveSteps

(* A load that ends leaves settings, banner and file in agreement.         *)
LEMMA LoadedKeeps ==
    ASSUME NEW new_settings, NEW new_banner,
           Loaded(new_settings, new_banner),
           file' # None /\ Outcome'.file_corrupt => new_banner = "not_moved",
           new_banner = "none" =>
              new_settings = IF file' = None THEN Defaults ELSE Outcome'.settings
    PROVE  SInv'
<1>1. step' = "idle" /\ settings' = new_settings /\ banner' = new_banner
      /\ (new_banner = "not_moved" => notice' # "none")
  BY DEF Loaded
<1>2. SavesSavable' /\ RenamesWhole' /\ CorruptIsTold'
  BY <1>1 DEF SavesSavable, RenamesWhole, CorruptIsTold
<1>3. ASSUME banner' = "none"
      PROVE  LET loaded == IF file' = None THEN Defaults ELSE Outcome'.settings
             IN  settings' = [loaded EXCEPT !.enabled = loaded.enabled,
                                            !.schema_version = settings'.schema_version]
  <2>1. CASE file' = None
    BY <1>1, <1>3, <2>1 DEF Defaults
  <2>2. CASE file' # None
    BY <1>1, <1>3, <2>2, ParseShape DEF Outcome
  <2> QED  BY <2>1, <2>2
<1>4. NoWarningMeansSaved'
  BY <1>3, Zenon DEF NoWarningMeansSaved
<1> QED  BY <1>2, <1>4 DEF SInv

(* Every step preserves the invariant.                                     *)
LEMMA NextSInv == SInv /\ [Next]_vars => SInv'
<1> SUFFICES ASSUME SInv, [Next]_vars
             PROVE  SInv'
  OBVIOUS
<1>1. CASE LoadAbsent
  BY <1>1, LoadedKeeps DEF LoadAbsent, disk
<1>2. CASE LoadUses
  <2>1. Outcome' = Outcome /\ file' = file /\ file # None /\ ~Outcome.used_defaults
    BY <1>2 DEF LoadUses, disk, Outcome
  <2>2. ~Outcome.file_corrupt
    BY <2>1, ParseShape DEF Outcome
  <2> QED  BY <1>2, <2>1, <2>2, LoadedKeeps DEF LoadUses
<1>3. CASE LoadRefuses
  <2>1. Outcome' = Outcome /\ ~Outcome.file_corrupt
    BY <1>3 DEF LoadRefuses, disk, Outcome
  <2> QED  BY <1>3, <2>1, LoadedKeeps DEF LoadRefuses
<1>4. CASE QuarantineMoves
  BY <1>4, LoadedKeeps DEF QuarantineMoves
<1>5. CASE QuarantineFails
  BY <1>5, LoadedKeeps DEF QuarantineFails
<1>6. CASE step' \in LoadSteps \cup {"down"}
  BY <1>6 DEF SInv, SavesSavable, RenamesWhole, CorruptIsTold,
              NoWarningMeansSaved, LoadSteps, SaveSteps
<1>7. ASSUME NEW s \in Savable, Save(s)
      PROVE  SInv'
  <2>1. /\ step = "idle" /\ step' = "write" /\ settings' = s
        /\ file' = file /\ notice' = notice /\ Outcome' = Outcome
    BY <1>7 DEF Save, disk, seen, Outcome
  <2> QED
    BY <2>1 DEF SInv, SavesSavable, RenamesWhole, CorruptIsTold,
                NoWarningMeansSaved, SaveSteps
<1>8. CASE EmergencyDisable
  <2>1. /\ step = "idle" /\ step' = "idle" /\ file' = file /\ banner' = banner
        /\ notice' = notice /\ Outcome' = Outcome
        /\ settings' = [settings EXCEPT !.enabled = FALSE]
    BY <1>8 DEF EmergencyDisable, disk, seen, Outcome
  <2>2. SavesSavable' /\ RenamesWhole' /\ CorruptIsTold'
    BY <2>1 DEF SInv, SavesSavable, RenamesWhole, CorruptIsTold
  <2>3. NoWarningMeansSaved'
    <3> DEFINE loaded == IF file = None THEN Defaults ELSE Outcome.settings
    <3>1. SUFFICES ASSUME banner = "none"
                   PROVE  settings' = [loaded EXCEPT !.enabled = FALSE,
                                         !.schema_version = settings'.schema_version]
      BY <2>1 DEF NoWarningMeansSaved
    <3>2. PICK enabled \in {loaded.enabled, FALSE} :
             settings = [loaded EXCEPT !.enabled = enabled,
                                       !.schema_version = settings.schema_version]
      BY <2>1, <3>1 DEF SInv, NoWarningMeansSaved
    <3> HIDE DEF loaded
    <3> QED  BY <2>1, <3>2
  <2> QED  BY <2>2, <2>3 DEF SInv
<1>9. CASE WriteTmp \/ WriteFails \/ RenameFails
  <2>1. /\ step \in SaveSteps /\ step' \in {"rename", "clean"}
        /\ settings' = settings /\ notice' = notice /\ file' = file
        /\ Outcome' = Outcome
    BY <1>9 DEF WriteTmp, WriteFails, RenameFails, memory, disk, seen, Outcome, SaveSteps
  <2>2. step' = "rename" => step = "write" /\ tmp' = Serialize(settings)
    BY <1>9 DEF WriteTmp, WriteFails, RenameFails
  <2> QED
    BY <2>1, <2>2 DEF SInv, SavesSavable, RenamesWhole, CorruptIsTold,
                      NoWarningMeansSaved, SaveSteps
<1>10. CASE RenameTmp
  <2>1. /\ step' = "idle" /\ settings' = settings /\ settings \in Savable
        /\ file' = Serialize(settings)
    BY <1>10 DEF RenameTmp, SInv, SavesSavable, RenamesWhole
  <2>2. /\ file' # None /\ ~Outcome'.file_corrupt
        /\ Outcome'.settings = [settings EXCEPT !.schema_version = CurrentSchemaVersion]
    BY <2>1, SavedFile
  <2>3. SavesSavable' /\ RenamesWhole' /\ CorruptIsTold'
    BY <2>1, <2>2 DEF SavesSavable, RenamesWhole, CorruptIsTold
  <2>4. settings = [Outcome'.settings EXCEPT !.enabled = Outcome'.settings.enabled,
                                             !.schema_version = settings.schema_version]
    BY <2>1, <2>2, SavableAssumption DEF SettingsRecords
  <2>5. NoWarningMeansSaved'
    BY <2>1, <2>2, <2>4 DEF NoWarningMeansSaved
  <2> QED  BY <2>3, <2>5 DEF SInv
<1>11. CASE SaveCleans
  BY <1>11 DEF SaveCleans, ReplaceBanner, SInv, SavesSavable, RenamesWhole, CorruptIsTold,
               NoWarningMeansSaved, SaveSteps, Outcome
<1>12. CASE UNCHANGED vars
  BY <1>12 DEF vars, disk, memory, seen, SInv, SavesSavable, RenamesWhole,
               CorruptIsTold, NoWarningMeansSaved, SaveSteps, Outcome
<1>14. CASE OpenWindow
  <2>1. /\ step' = step /\ settings' = settings /\ banner' = banner
        /\ file' = file /\ Outcome' = Outcome /\ tmp' = tmp
        /\ notice # "none" => notice' # "none"
    BY <1>14 DEF OpenWindow, disk, Outcome
  <2> QED
    BY <2>1 DEF SInv, SavesSavable, RenamesWhole, CorruptIsTold,
                NoWarningMeansSaved
<1>13. ASSUME Launch \/ LoadDeletesTmp \/ LoadCorrupt \/ LoadUnreadable
              \/ QuarantineClears \/ Killed \/ OutsideWrites
       PROVE  step' \in LoadSteps \cup {"down"}
  BY <1>13 DEF Launch, LoadDeletesTmp, LoadCorrupt, LoadUnreadable,
               QuarantineClears, Killed, OutsideWrites, LoadSteps
<1> QED
  BY <1>1, <1>2, <1>3, <1>4, <1>5, <1>6, <1>7, <1>8, <1>9, <1>10, <1>11, <1>12,
     <1>13, <1>14 DEF Next, Load, SaveStep

LEMMA SInvariance == Spec => []SInv
  BY InitSInv, NextSInv, PTL DEF Spec

---------------------------------------------------------------------------

(* Only these two steps of a running process change the settings file.     *)
LEMMA FileChanges ==
    ASSUME [Next]_vars, step # "down", file' # file
    PROVE  RenameTmp \/ QuarantineMoves
<1>1. Next
  BY DEF vars, disk
<1>2. Next => RenameTmp \/ QuarantineMoves
  BY DEF Next, Launch, Load, LoadDeletesTmp, LoadAbsent, LoadUses,
         LoadRefuses, LoadCorrupt, LoadUnreadable, QuarantineClears,
         QuarantineFails, OpenWindow, Save, EmergencyDisable, SaveStep, WriteTmp,
         WriteFails, RenameFails, SaveCleans, Killed, OutsideWrites, disk
<1> QED  BY <1>1, <1>2

(* A load yields settings of the declared set.                             *)
LEMMA OutcomeSettings ==
    ASSUME TypeOK, file # None
    PROVE  Outcome.settings \in Settings
<1>1. Parse(NoDocument).settings = Defaults
  BY DEF Parse, Unusable
<1> QED  BY <1>1 DEF Outcome, TypeOK, Settings

(* Every step keeps the types: a torn document is only ever the temporary. *)
LEMMA NextTypeOK == SInv /\ TypeOK /\ [Next]_vars => TypeOK'
<1> SUFFICES ASSUME SInv, TypeOK, [Next]_vars
             PROVE  TypeOK'
  OBVIOUS
<1>1. /\ Defaults \in Settings
      /\ file # None => Outcome.settings \in Settings
      /\ Savable \subseteq Settings /\ Texts \subseteq Files
  BY OutcomeSettings DEF Settings, Files
<1>2. CASE LoadAbsent \/ LoadUses \/ LoadRefuses \/ QuarantineMoves \/ QuarantineFails
  <2>1. ASSUME NEW new_settings, NEW new_banner, Loaded(new_settings, new_banner)
        PROVE  /\ window' \in BOOLEAN
               /\ notice' \in {"none", "pending", "seen", "unseen"}
               /\ notice' = "pending" => banner' = "not_moved" /\ ~window'
               /\ settings' = new_settings /\ banner' = new_banner
               /\ step' = "idle"
    BY <2>1 DEF Loaded
  <2>2. CASE LoadAbsent
    BY <1>1, <2>1, <2>2 DEF LoadAbsent, TypeOK, disk
  <2>4. CASE LoadUses
    BY <1>1, <2>1, <2>4 DEF LoadUses, TypeOK, disk
  <2>5. CASE LoadRefuses
    BY <1>1, <2>1, <2>5 DEF LoadRefuses, TypeOK, disk
  <2>3. CASE QuarantineMoves \/ QuarantineFails
    BY <1>1, <2>1, <2>3 DEF QuarantineMoves, QuarantineFails, TypeOK, disk
  <2> QED  BY <1>2, <2>2, <2>3, <2>4, <2>5
<1>10. CASE LoadDeletesTmp \/ LoadCorrupt \/ LoadUnreadable \/ QuarantineClears
  BY <1>10
     DEF LoadDeletesTmp, LoadCorrupt, LoadUnreadable, QuarantineClears, TypeOK,
         LoadSteps, disk, memory, seen
<1>3. CASE Launch \/ Killed \/ OutsideWrites
  <2>1. CASE Launch
    BY <2>1 DEF Launch, TypeOK, LoadSteps, disk, memory, seen
  <2>2. CASE Killed
    <3>1. window' \in BOOLEAN /\ notice' = "none"
      BY <2>2 DEF Killed
    <3> QED  BY <1>1, <2>2, <3>1 DEF Killed, TypeOK
  <2>3. CASE OutsideWrites
    BY <1>1, <2>3 DEF OutsideWrites, TypeOK, memory, seen
  <2> QED  BY <1>3, <2>1, <2>2, <2>3
<1>4. ASSUME NEW s \in Savable, Save(s)
      PROVE  TypeOK'
  BY <1>1, <1>4 DEF Save, TypeOK, SaveSteps, disk, seen
<1>5. CASE EmergencyDisable
  BY <1>5 DEF EmergencyDisable, TypeOK, disk, seen
<1>11. CASE OpenWindow
  <2>1. window' \in BOOLEAN
    BY <1>11 DEF OpenWindow
  <2>2. notice' \in {"none", "seen", "unseen"}
    BY <1>11 DEF OpenWindow, TypeOK
  <2> QED  BY <1>11, <2>1, <2>2 DEF OpenWindow, TypeOK, disk
<1>6. CASE WriteTmp
  <2>1. Serialize(settings) \in Files
    BY <1>6 DEF WriteTmp, SInv, SavesSavable, Files
  <2> QED  BY <1>6, <2>1 DEF WriteTmp, TypeOK, SaveSteps, memory, seen
<1>7. CASE RenameTmp
  <2>1. tmp \in Files
    BY <1>7 DEF RenameTmp, SInv, SavesSavable, RenamesWhole, Files
  <2> QED  BY <1>7, <2>1 DEF RenameTmp, ReplaceBanner, TypeOK
<1>8. CASE WriteFails \/ RenameFails \/ SaveCleans
  BY <1>8
     DEF WriteFails, RenameFails, SaveCleans, ReplaceBanner, TypeOK, SaveSteps,
         disk, memory, seen
<1>9. CASE UNCHANGED vars
  BY <1>9 DEF vars, disk, memory, seen, TypeOK
<1> QED
  BY <1>2, <1>3, <1>4, <1>5, <1>6, <1>7, <1>8, <1>9, <1>10,
     <1>11 DEF Next, Load, SaveStep

(* Type correctness: neither the settings file nor its backup ever holds a *)
(* document whose writing was cut short.                                   *)
THEOREM StoreTypeCorrect == Spec => []TypeOK
<1>1. Init => TypeOK
  BY DEF Init, TypeOK, Files, Settings
<1> QED  BY <1>1, NextTypeOK, SInvariance, PTL DEF Spec

(* Settings without a banner are what the next launch loads, whatever file *)
(* call fails and whenever the process is killed.                          *)
THEOREM SilenceMeansSaved == Spec => []NoWarningMeansSaved
<1>1. SInv => NoWarningMeansSaved
  BY DEF SInv
<1> QED  BY <1>1, SInvariance, PTL

(* CONTRIBUTING.md: no save leaves a half-written settings file, whatever  *)
(* call fails and whenever the process is killed.                          *)
THEOREM SavesAreWhole == Spec => FileReplacedWhole
<1>1. ASSUME SInv, [Next]_vars, step # "down", file' # file
      PROVE  \/ file' = Serialize(settings)
             \/ file' = None /\ bak' = file
  <2>1. CASE RenameTmp
    BY <1>1, <2>1 DEF RenameTmp, SInv, RenamesWhole
  <2>2. CASE QuarantineMoves
    BY <2>2 DEF QuarantineMoves
  <2> QED  BY <1>1, <2>1, <2>2, FileChanges
<1>2. SInv /\ [Next]_vars =>
        [step # "down" /\ file' # file =>
           \/ file' = Serialize(settings)
           \/ file' = None /\ bak' = file]_vars
  BY <1>1
<1> QED  BY SInvariance, <1>2, PTL DEF Spec, FileReplacedWhole

(* A corrupt file is replaced only when it is in the backup, or when a     *)
(* window has shown that it could not be moved there, or by the first save *)
(* of a process that had no window to show it.                             *)
THEOREM CorruptFilesAreKept == Spec => CorruptFileKept
<1>1. ASSUME SInv, TypeOK, [Next]_vars,
             step # "down", file # None, Outcome.file_corrupt, file' # file
      PROVE  bak' = file \/ notice = "seen" \/ notice' = "unseen"
  <2>1. CASE RenameTmp
    BY <1>1, <2>1
       DEF RenameTmp, ReplaceBanner, SInv, CorruptIsTold, SaveSteps, TypeOK
  <2>2. CASE QuarantineMoves
    BY <2>2 DEF QuarantineMoves
  <2> QED  BY <1>1, <2>1, <2>2, FileChanges
<1>2. SInv /\ TypeOK /\ [Next]_vars =>
        [step # "down" /\ file # None /\ Outcome.file_corrupt /\ file' # file =>
           bak' = file \/ notice = "seen" \/ notice' = "unseen"]_vars
  BY <1>1
<1> QED  BY SInvariance, StoreTypeCorrect, <1>2, PTL DEF Spec, CorruptFileKept

---------------------------------------------------------------------------
(* The refinement of SettingsFile.                                         *)

Values == {s \in SettingsRecords : Accepts(s)}

(* Memory holds settings the program accepts; outside of a launched        *)
(* process it holds nothing, and no banner stands.                         *)
MemoryInv ==
    /\ settings \in Values
    /\ file \in Files \cup {None}
    /\ step \in {"down"} \cup LoadSteps => settings = Defaults /\ banner = "none"

LEMMA FilesAreTexts == Files \subseteq Documents \cup {NoDocument}
<1>1. \A s \in Savable : Serialize(s) \in Documents
  BY SavableAssumption, SerializedIsDocument
<1> QED  BY <1>1, TextsAssumption DEF Files

(* Whatever the file holds, parsing it yields accepted settings.           *)
LEMMA ParseAccepted ==
    ASSUME NEW text \in Documents \cup {NoDocument}
    PROVE  Parse(text).settings \in Values
<1>1. CASE text # NoDocument /\ text.schemaVersion \in 1..CurrentSchemaVersion \cup {Missing}
  BY <1>1, ParseReadable, ParsedIsAccepted DEF Values
<1>2. CASE ~(text # NoDocument /\ text.schemaVersion \in 1..CurrentSchemaVersion \cup {Missing})
  BY <1>2, ParseUnreadable, DefaultsAccepted DEF Values
<1> QED  BY <1>1, <1>2

LEMMA OutcomeAccepted ==
    ASSUME file \in Files
    PROVE  Outcome.settings \in Values
<1>1. (IF file = Torn THEN NoDocument ELSE file) \in Documents \cup {NoDocument}
  BY FilesAreTexts
<1> QED  BY <1>1, ParseAccepted DEF Outcome

LEMMA NewestAccepted ==
    ASSUME NEW s \in Values
    PROVE  Newest(s) \in Values
BY DEF Values, Newest, SettingsRecords, Accepts, CurrentSchemaVersion

LEMMA NextLoadAccepted ==
    ASSUME file \in Files \cup {None}
    PROVE  NextLoad \in Values
<1>1. (IF file = None THEN Defaults ELSE Outcome.settings) \in Values
  BY DefaultsAccepted, OutcomeAccepted DEF Values
<1> QED  BY <1>1, NewestAccepted DEF NextLoad

LEMMA NewestDefaults == Newest(Defaults) = Defaults
<1>1. Defaults \in SettingsRecords
  BY DefaultsAccepted
<1>2. Defaults.schema_version = CurrentSchemaVersion
  BY DEF Defaults
<1> QED  BY <1>1, <1>2 DEF Newest, SettingsRecords

LEMMA DisabledAccepted ==
    ASSUME NEW s \in Values
    PROVE  /\ [s EXCEPT !.enabled = FALSE] \in Values
           /\ Newest([s EXCEPT !.enabled = FALSE]) = [Newest(s) EXCEPT !.enabled = FALSE]
BY DEF Values, Newest, SettingsRecords, Accepts, CurrentSchemaVersion

LEMMA NextMemoryInv == SInv /\ TypeOK /\ MemoryInv /\ [Next]_vars => MemoryInv'
<1> SUFFICES ASSUME SInv, TypeOK, MemoryInv, [Next]_vars
             PROVE  MemoryInv'
  OBVIOUS
<1>1. file' \in Files \cup {None}
  BY NextTypeOK DEF TypeOK
<1>2. /\ Defaults \in Values
      /\ file # None => Outcome.settings \in Values
      /\ Savable \subseteq Values
      /\ settings \in Values
  BY DefaultsAccepted, OutcomeAccepted, SavableAssumption DEF Values, MemoryInv
<1> USE <1>1, <1>2 DEF MemoryInv, LoadSteps
<1>3. CASE Load
  BY <1>3 DEF Load, LoadDeletesTmp, LoadAbsent, LoadUses, LoadRefuses,
              LoadCorrupt, LoadUnreadable, QuarantineClears, QuarantineMoves,
              QuarantineFails, Loaded, memory
<1>4. CASE Launch \/ Killed \/ OutsideWrites
  BY <1>4 DEF Launch, Killed, OutsideWrites, memory
<1>5. ASSUME NEW s \in Savable, Save(s)
      PROVE  MemoryInv'
  BY <1>5 DEF Save
<1>6. CASE EmergencyDisable
  BY <1>6, DisabledAccepted DEF EmergencyDisable
<1>9. CASE OpenWindow
  BY <1>9 DEF OpenWindow
<1>7. CASE SaveStep
  BY <1>7 DEF SaveStep, WriteTmp, WriteFails, RenameTmp, RenameFails,
              SaveCleans, ReplaceBanner, memory
<1>8. CASE UNCHANGED vars
  BY <1>8 DEF vars, memory
<1> QED  BY <1>3, <1>4, <1>5, <1>6, <1>7, <1>8, <1>9 DEF Next

LEMMA MemoryInvariance == Spec => []MemoryInv
<1>1. Init => MemoryInv
  BY DefaultsAccepted DEF Init, MemoryInv, Values, Files
<1> QED  BY <1>1, NextMemoryInv, SInvariance, StoreTypeCorrect, PTL DEF Spec

(* A step that touches neither the file nor the memory is a stutter, if    *)
(* it stays in its phase.                                                  *)
LEMMA StoreStutters ==
    ASSUME UNCHANGED <<file, settings, banner>>, Phase' = Phase
    PROVE  UNCHANGED Promise!vars
BY DEF Promise!vars, NextLoad, Outcome, Newest

LEMMA SameNextLoad ==
    ASSUME file' = file
    PROVE  NextLoad' = NextLoad
BY DEF NextLoad, Outcome, Newest

(* The steps of a load: used, replaced by the defaults, or moved away.     *)
LEMMA LoadSimulates ==
    ASSUME SInv, TypeOK, MemoryInv, Load
    PROVE  [Promise!Next]_Promise!vars
<1> USE DEF Phase, LoadSteps, SaveSteps
<1>1. CASE LoadDeletesTmp \/ LoadCorrupt \/ LoadUnreadable \/ QuarantineClears
  BY <1>1, StoreStutters
     DEF LoadDeletesTmp, LoadCorrupt, LoadUnreadable, QuarantineClears, disk, memory
<1>2. CASE LoadAbsent
  <2>1. /\ Phase = "loading" /\ Phase' = "idle"
        /\ settings' = Defaults /\ banner' = "none"
        /\ file = None /\ file' = file
    BY <1>2 DEF LoadAbsent, Loaded, disk
  <2>2. NextLoad = Newest(Defaults) /\ NextLoad' = NextLoad
    BY <2>1, SameNextLoad DEF NextLoad
  <2>3. Promise!Load
    BY <2>1, <2>2 DEF Promise!Load, Newest
  <2> QED  BY <2>3 DEF Promise!Next
<1>3. CASE LoadUses
  <2>1. /\ Phase = "loading" /\ Phase' = "idle"
        /\ settings' = Outcome.settings /\ banner' \in {"none", "repaired"}
        /\ file # None /\ file' = file
    BY <1>3 DEF LoadUses, Loaded, disk
  <2>2. NextLoad = Newest(Outcome.settings) /\ NextLoad' = NextLoad
    BY <2>1, SameNextLoad DEF NextLoad
  <2>3. Promise!Load
    BY <2>1, <2>2 DEF Promise!Load, Newest
  <2> QED  BY <2>3 DEF Promise!Next
<1>4. CASE LoadRefuses \/ QuarantineFails
  <2>1. /\ Phase = "loading" /\ Phase' = "idle"
        /\ settings' = Defaults /\ banner' \in {"defaults", "not_moved"}
        /\ file' = file
    BY <1>4 DEF LoadRefuses, QuarantineFails, Loaded, disk
  <2>2. NextLoad' = NextLoad /\ Newest(settings)' = Defaults
    BY <2>1, SameNextLoad, NewestDefaults DEF Newest
  <2>3. Promise!LoadFails
    BY <2>1, <2>2 DEF Promise!LoadFails
  <2> QED  BY <2>3 DEF Promise!Next
<1>5. CASE QuarantineMoves
  <2>1. /\ Phase = "loading" /\ Phase' = "idle"
        /\ settings' = Defaults /\ banner' = "moved"
        /\ file' = None
    BY <1>5 DEF QuarantineMoves, Loaded
  <2>2. NextLoad' = Defaults /\ Newest(settings)' = Defaults
    BY <2>1, NewestDefaults DEF NextLoad, Newest
  <2>3. Promise!LoadFails
    BY <2>1, <2>2 DEF Promise!LoadFails
  <2> QED  BY <2>3 DEF Promise!Next
<1> QED  BY <1>1, <1>2, <1>3, <1>4, <1>5 DEF Load

(* The steps of a save: it is done by the rename, or refused with a        *)
(* warning when the clean-up ends.                                         *)
LEMMA SaveSimulates ==
    ASSUME SInv, TypeOK, MemoryInv, SaveStep
    PROVE  [Promise!Next]_Promise!vars
<1> USE DEF Phase, LoadSteps, SaveSteps
<1>1. CASE WriteTmp \/ WriteFails \/ RenameFails
  BY <1>1, StoreStutters DEF WriteTmp, WriteFails, RenameFails, disk, memory
<1>2. CASE RenameTmp
  <2>1. /\ Phase = "saving" /\ Phase' = "idle"
        /\ settings' = settings /\ banner' = "none"
        /\ settings \in Savable /\ file' = Serialize(settings)
    BY <1>2 DEF RenameTmp, ReplaceBanner, SInv, SavesSavable, RenamesWhole
  <2>2. file' # None /\ Outcome'.settings = Newest(settings)
    BY <2>1, SavedFile DEF Newest
  <2>3. NextLoad' = Newest(settings)
    <3>1. NextLoad' = Newest(Newest(settings))
      BY <2>2 DEF NextLoad, Newest
    <3>2. settings \in SettingsRecords
      BY <2>1, SavableAssumption
    <3> QED  BY <3>1, <3>2 DEF Newest, SettingsRecords
  <2>4. Promise!Commit
    BY <2>1, <2>3 DEF Promise!Commit, Newest
  <2> QED  BY <2>4 DEF Promise!Next
<1>3. CASE SaveCleans
  <2>1. /\ Phase = "saving" /\ Phase' = "idle"
        /\ settings' = settings /\ banner' = "save_failed"
        /\ file' = file
    BY <1>3 DEF SaveCleans, ReplaceBanner
  <2>2. Promise!Refuse
    BY <2>1, SameNextLoad DEF Promise!Refuse, Newest
  <2> QED  BY <2>2 DEF Promise!Next
<1> QED  BY <1>1, <1>2, <1>3 DEF SaveStep

(* Every step of the store is a step of SettingsFile or a stutter.         *)
LEMMA StoreSimulates ==
    SInv /\ TypeOK /\ MemoryInv /\ [Next]_vars => [Promise!Next]_Promise!vars
<1> SUFFICES ASSUME SInv, TypeOK, MemoryInv, [Next]_vars
             PROVE  [Promise!Next]_Promise!vars
  OBVIOUS
<1> USE DEF Phase, LoadSteps, SaveSteps
<1>1. CASE Launch
  <2>1. Promise!Launch
    BY <1>1, SameNextLoad DEF Launch, disk, memory, Promise!Launch, Newest
  <2> QED  BY <2>1 DEF Promise!Next
<1>2. CASE Load
  BY <1>2, LoadSimulates
<1>3. ASSUME NEW s \in Savable, Save(s)
      PROVE  Promise!Change
  <2>1. Newest(s) \in Values
    BY SavableAssumption, NewestAccepted DEF Values
  <2>2. Newest(settings)' = Newest(s)
    BY <1>3 DEF Save, Newest
  <2> QED
    BY <1>3, <2>1, <2>2, SameNextLoad DEF Save, disk, Promise!Change, Values
<1>4. CASE EmergencyDisable
  <2>1. Newest(settings)' = [Newest(settings) EXCEPT !.enabled = FALSE]
    BY <1>4, DisabledAccepted DEF EmergencyDisable, MemoryInv, Newest
  <2>2. Promise!EmergencyDisable
    BY <1>4, <2>1, SameNextLoad
       DEF EmergencyDisable, disk, Promise!EmergencyDisable
  <2> QED  BY <2>2 DEF Promise!Next
<1>9. CASE OpenWindow
  BY <1>9, StoreStutters DEF OpenWindow, disk
<1>5. CASE SaveStep
  BY <1>5, SaveSimulates
<1>6. CASE Killed
  <2>1. Newest(settings)' = Defaults
    BY <1>6, NewestDefaults DEF Killed, Newest
  <2>2. Promise!Killed
    BY <1>6, <2>1, SameNextLoad DEF Killed, TypeOK, Promise!Killed
  <2> QED  BY <2>2 DEF Promise!Next
<1>7. CASE OutsideWrites
  <2>1. NextLoad' \in Values
    <3>1. file' \in Files \cup {None}
      BY <1>7 DEF OutsideWrites, Files
    <3>2. (IF file' = None THEN Defaults ELSE Outcome'.settings) \in Values
      <4>1. file' # None =>
               (IF file' = Torn THEN NoDocument ELSE file') \in Documents \cup {NoDocument}
        BY <3>1, FilesAreTexts
      <4> QED
        BY <3>1, <4>1, ParseAccepted, DefaultsAccepted DEF Outcome, Values
    <3> QED  BY <3>2, NewestAccepted DEF NextLoad, Newest
  <2>2. Promise!OutsideWrites
    BY <1>7, <2>1 DEF OutsideWrites, memory, Promise!OutsideWrites, Values, Newest
  <2> QED  BY <2>2 DEF Promise!Next
<1>8. CASE UNCHANGED vars
  BY <1>8, StoreStutters DEF vars, disk, memory
<1> QED
  BY <1>1, <1>2, <1>3, <1>4, <1>5, <1>6, <1>7, <1>8, <1>9 DEF Next, Promise!Next

(* The store keeps the promise of SettingsFile: three files and the calls  *)
(* between them are one value that a save replaces at one point in time or *)
(* not at all, whatever call fails and whenever the process is killed.     *)
THEOREM StoreKeepsPromise == Spec => ImplementsSettingsFile
<1>1. Init => Promise!Init
  <2> SUFFICES ASSUME Init PROVE Promise!Init
    OBVIOUS
  <2>1. NextLoad \in Values
    BY NextLoadAccepted DEF Init, Files
  <2>2. Newest(settings) = Defaults /\ Phase = "down" /\ banner = "none"
    BY NewestDefaults DEF Init, Phase, LoadSteps, SaveSteps
  <2> QED  BY <2>1, <2>2 DEF Promise!Init, Values
<1> QED
  BY <1>1, StoreSimulates, SInvariance, StoreTypeCorrect, MemoryInvariance, PTL
     DEF Spec, ImplementsSettingsFile, Promise!Spec
=============================================================================
