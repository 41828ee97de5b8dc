-------------------------- MODULE SettingsRoundTrip --------------------------
(***************************************************************************)
(* A settings text that is loaded and saved over and over, with nobody     *)
(* changing a setting: what the parser keeps, resets and reports, and what *)
(* the next load makes of the file a save has written.                     *)
(***************************************************************************)
EXTENDS SettingsJson

CONSTANT Texts          \* the texts a settings file may start with

ASSUME TextsAssumption == Texts \subseteq Documents \cup {NoDocument}

VARIABLE text

Init == text \in Texts

LoadAndSave == text' = Serialize(Parse(text).settings)

Spec == Init /\ [][LoadAndSave]_text

---------------------------------------------------------------------------

Readable ==
    /\ text # NoDocument
    /\ text.schemaVersion \in 1..CurrentSchemaVersion \cup {Missing}

(* json.rs: "Only a document that cannot be read at all falls back to      *)
(* defaults wholesale".  Whatever a readable document holds, its values    *)
(* are repaired into settings that settings.rs accepts.                    *)
ReadableIsUsed ==
    /\ Accepts(Parse(text).settings)
    /\ Parse(text).used_defaults <=> ~Readable

(* settings_store.rs: repairs "are surfaced to the caller so the settings  *)
(* window can show them instead of dropping them quietly".  A value the    *)
(* file holds is changed by loading and saving only if it is reported,     *)
(* or is one of the two migrations: the schema and the old tap behaviour.  *)
NoSilentChange ==
    LET kept == Serialize(Parse(text).settings)
    IN  Readable =>
           \A field \in DOMAIN text \ {"schemaVersion"} :
              \/ text[field] = kept[field]
              \/ text[field] = Missing
              \/ field \in Parse(text).repairs
              \/ field = "tapBehavior" /\ text[field] = "Undecided"

(* What is left of a modifier list are its known names, each once, in the  *)
(* order of their first use (parse_modifiers), unless nothing is left.     *)
ModifiersInOrder ==
    Readable /\ text.outputModifiers # Missing =>
       LET names    == text.outputModifiers
           kept     == ParseModifiers(names)
           known    == Names(names) \cap OutputModifiers
           First(n) == CHOOSE i \in DOMAIN names :
                          names[i] = n /\ \A j \in 1..(i - 1) : names[j] # n
       IN  known # {} =>
              /\ Names(kept) = known
              /\ \A i, j \in DOMAIN kept : i < j => First(kept[i]) < First(kept[j])

(* json.rs: "each invalid value is independently reset".  What becomes of  *)
(* one field does not depend on the others.                                *)
FieldsIndependent ==
    Readable =>
       \A field \in DOMAIN text \ {"schemaVersion"} :
          LET alone == [Serialize(Defaults) EXCEPT ![field] = text[field]]
          IN  /\ Serialize(Parse(text).settings)[field]
                    = Serialize(Parse(alone).settings)[field]
              /\ field \in Parse(text).repairs <=> field \in Parse(alone).repairs

(* DESIGN.md: settings files "keep round-tripping".  A saved file is read  *)
(* back as the settings that were saved, in the newest schema and with     *)
(* nothing to report.                                                      *)
SavedIsReadBack ==
    [][/\ Parse(text').settings
             = [Parse(text).settings EXCEPT !.schema_version = CurrentSchemaVersion]
       /\ ~Parse(text').used_defaults
       /\ Parse(text').repairs = {}]_text
=============================================================================
