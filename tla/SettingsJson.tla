---------------------------- MODULE SettingsJson ----------------------------
(***************************************************************************)
(* Settings documents: what hyperkey-core/src/json.rs makes of a settings  *)
(* file, and the rules of settings.rs for the settings themselves.         *)
(*                                                                         *)
(* A text is NoDocument when it is no JSON object or holds a value of a    *)
(* wrong type, and otherwise the document the visitor reads from it: one   *)
(* value for each field, Missing when the field is absent or null.  Names  *)
(* are compared without case, so a name stands for all its spellings;      *)
(* Unknown stands for every other name, and for a null in a list.          *)
(***************************************************************************)
EXTENDS Integers, Sequences, Functions

CONSTANTS Triggers,         \* the supported trigger keys
          CapsLock,         \* the default one
          Unknown,          \* a name that means nothing
          Missing,          \* a field that is absent or null
          NoDocument        \* a text that cannot be deserialized

ASSUME TriggersAssumption == CapsLock \in Triggers

OutputModifiers == {"Control", "Alt", "Shift"}

CurrentSchemaVersion == 2

Booleans == BOOLEAN \cup {Missing}

(* Lists of raw names, known or not, of any length.                        *)
RawModifiers == Seq(OutputModifiers \cup {Unknown})

(* What the visitor can read: schema_version is any integer.               *)
Documents ==
    [schemaVersion: {Missing} \cup Int,
     enabled: Booleans,
     trigger: Triggers \cup {Unknown, Missing},
     outputModifiers: {Missing} \cup RawModifiers,
     launchAtStartup: Booleans,
     launchToTray: Booleans,
     tapBehavior: {"CapsLock", "Undecided", Unknown, Missing}]

ASSUME UnknownAssumption ==
    Unknown \notin Triggers \cup OutputModifiers \cup {"CapsLock", "Undecided"}

ASSUME MissingAssumption ==
    /\ Missing \notin Triggers \cup {Unknown, "CapsLock", "Undecided"}
    /\ Missing \notin BOOLEAN
    /\ Missing \notin RawModifiers

ASSUME NoDocumentAssumption ==
    NoDocument \notin Documents

---------------------------------------------------------------------------
(* settings.rs.                                                            *)

Defaults ==
    [schema_version |-> CurrentSchemaVersion,
     enabled |-> TRUE,
     trigger |-> CapsLock,
     output_modifiers |-> <<"Control", "Alt", "Shift">>,
     launch_at_startup |-> TRUE,
     launch_to_tray |-> FALSE,
     tap_behavior |-> "CapsLock"]

Names(list) == {list[i] : i \in 1..Len(list)}

(* The values the fields of HyperkeySettings can have at all.              *)
SettingsRecords ==
    [schema_version: Int,
     enabled: BOOLEAN,
     trigger: Triggers,
     output_modifiers: Seq(OutputModifiers),
     launch_at_startup: BOOLEAN,
     launch_to_tray: BOOLEAN,
     tap_behavior: {"CapsLock"}]

(* create_with_schema_version accepts these, and returns them as they are. *)
Accepts(settings) ==
    /\ settings.schema_version \in 1..CurrentSchemaVersion
    /\ settings.trigger \in Triggers
    /\ settings.tap_behavior = "CapsLock"
    /\ Len(settings.output_modifiers) \in 1..Len(Defaults.output_modifiers)
    /\ IsInjective(settings.output_modifiers)

---------------------------------------------------------------------------
(* json.rs.                                                                *)

(* Seeded fault: a setting that was added later is not written.            *)
SerializeForgets(settings) ==
    [schemaVersion |-> CurrentSchemaVersion,
     enabled |-> settings.enabled,
     trigger |-> settings.trigger,
     outputModifiers |-> settings.output_modifiers,
     launchAtStartup |-> settings.launch_at_startup,
     launchToTray |-> Missing,
     tapBehavior |-> settings.tap_behavior]

(* Files always declare the newest schema.                                 *)
Serialize(settings) ==
    [schemaVersion |-> CurrentSchemaVersion,
     enabled |-> settings.enabled,
     trigger |-> settings.trigger,
     outputModifiers |-> settings.output_modifiers,
     launchAtStartup |-> settings.launch_at_startup,
     launchToTray |-> settings.launch_to_tray,
     tapBehavior |-> settings.tap_behavior]

(* Seeded fault: a repeated name is kept.                                  *)
KeepModifierRepeated(parsed, name) ==
    IF name \in OutputModifiers THEN Append(parsed, name) ELSE parsed

(* Seeded fault: a new name goes to the front.                             *)
KeepModifierFirst(parsed, name) ==
    IF name \in OutputModifiers \ Names(parsed) THEN <<name>> \o parsed ELSE parsed

KeepModifier(parsed, name) ==
    IF name \in OutputModifiers \ Names(parsed) THEN Append(parsed, name) ELSE parsed

(* parse_modifiers: unknown and repeated names are dropped one by one, and *)
(* nothing left over means the defaults.                                   *)
ParseModifiers(values) ==
    LET kept[i \in 0..Len(values)] ==
          IF i = 0 THEN <<>> ELSE KeepModifier(kept[i - 1], values[i])
    IN  IF values = Missing \/ kept[Len(values)] = <<>>
        THEN Defaults.output_modifiers
        ELSE kept[Len(values)]

(* The settings of a document whose schema is supported.                   *)
Parsed(document) ==
    LET Or(value, default) == IF value = Missing THEN default ELSE value
    IN  [schema_version |-> Or(document.schemaVersion, CurrentSchemaVersion),
         enabled |-> Or(document.enabled, Defaults.enabled),
         trigger |-> IF document.trigger \in Triggers THEN document.trigger
                     ELSE Defaults.trigger,
         output_modifiers |-> ParseModifiers(document.outputModifiers),
         launch_at_startup |-> Or(document.launchAtStartup, Defaults.launch_at_startup),
         launch_to_tray |-> Or(document.launchToTray, Defaults.launch_to_tray),
         tap_behavior |-> "CapsLock"]

(* Seeded fault: dropped modifier names are not reported.                  *)
RepairsUnreported(document) ==
    {field \in {"enabled", "launchAtStartup"} : document[field] = Missing}
    \cup {field \in {"trigger"} : document[field] \notin Triggers}
    \cup {field \in {"outputModifiers"} : document[field] \in {Missing, <<>>}}
    \cup {field \in {"tapBehavior"} : document[field] = Unknown}

(* The fields a parse reports as reset.  launchToTray and tapBehavior may  *)
(* be absent, and so may the schema version.                               *)
Repairs(document) ==
    {field \in {"enabled", "launchAtStartup"} : document[field] = Missing}
    \cup {field \in {"trigger"} : document[field] \notin Triggers}
    \cup {field \in {"outputModifiers"} :
            \/ document[field] \in {Missing, <<>>}
            \/ \E i \in DOMAIN document[field] :
                  \/ document[field][i] = Unknown
                  \/ \E j \in 1..(i - 1) : document[field][j] = document[field][i]}
    \cup {field \in {"tapBehavior"} : document[field] = Unknown}

Unusable(file_corrupt) ==
    [settings |-> Defaults, used_defaults |-> TRUE, repairs |-> {},
     file_corrupt |-> file_corrupt]

(* A schema this build cannot read: the file is not corrupt.               *)
Unsupported(document) == Unusable(FALSE)

(* Seeded fault: one invalid value discards the whole document.            *)
UsableStrict(document) ==
    IF Repairs(document) = {}
    THEN [settings |-> Parsed(document), used_defaults |-> FALSE,
          repairs |-> {}, file_corrupt |-> FALSE]
    ELSE Unusable(TRUE)

Usable(document) ==
    IF Accepts(Parsed(document))
    THEN [settings |-> Parsed(document), used_defaults |-> FALSE,
          repairs |-> Repairs(document), file_corrupt |-> FALSE]
    ELSE Unusable(TRUE)

Parse(text) ==
    CASE text = NoDocument -> Unusable(TRUE)
      [] text # NoDocument /\ text.schemaVersion \in 1..CurrentSchemaVersion \cup {Missing} ->
            Usable(text)
      [] text # NoDocument /\ text.schemaVersion \notin 1..CurrentSchemaVersion \cup {Missing} ->
            Unsupported(text)
=============================================================================
