----------------------- MODULE SettingsRoundTripProofs -----------------------
(***************************************************************************)
(* Proofs about SettingsRoundTrip: for every document, with modifier lists *)
(* of any length.                                                          *)
(***************************************************************************)
EXTENDS SettingsRoundTrip, SettingsJsonProofs

(* What a file can hold at any time: the parser's input is no stranger     *)
(* after a save than before.                                               *)
TextInv == text \in Documents \cup {NoDocument}

LEMMA ReadableParsed ==
    ASSUME TextInv, Readable
    PROVE  /\ text \in Documents
           /\ Parse(text)
                = [settings |-> Parsed(text), used_defaults |-> FALSE,
                   repairs |-> Repairs(text), file_corrupt |-> FALSE]
           /\ Serialize(Parse(text).settings) = Serialize(Parsed(text))
<1>1. text \in Documents /\ text.schemaVersion \in 1..CurrentSchemaVersion \cup {Missing}
  BY DEF TextInv, Readable
<1> QED  BY <1>1, ParseReadable

LEMMA SettingsAccepted ==
    ASSUME TextInv
    PROVE  /\ Parse(text).settings \in SettingsRecords
           /\ Accepts(Parse(text).settings)
           /\ Parse(text).used_defaults <=> ~Readable
<1>1. CASE Readable
  <2>1. text.schemaVersion \in 1..CurrentSchemaVersion \cup {Missing}
    BY <1>1 DEF Readable
  <2> QED  BY <1>1, <2>1, ReadableParsed, ParsedIsAccepted
<1>2. CASE ~Readable
  BY <1>2, ParseUnreadable, DefaultsAccepted DEF TextInv, Readable
<1> QED  BY <1>1, <1>2

LEMMA TextInvariance == Spec => []TextInv
<1>1. Init => TextInv
  BY TextsAssumption DEF Init, TextInv
<1>2. TextInv /\ [LoadAndSave]_text => TextInv'
  <2>1. TextInv /\ LoadAndSave => TextInv'
    BY SettingsAccepted, SerializedIsDocument DEF LoadAndSave, TextInv
  <2> QED  BY <2>1 DEF TextInv
<1> QED  BY <1>1, <1>2, PTL DEF Spec

---------------------------------------------------------------------------

(* json.rs: whatever a readable document holds, its values are repaired    *)
(* into settings that settings.rs accepts, and only a document that cannot *)
(* be read at all falls back to the defaults wholesale.                    *)
THEOREM ReadableDocumentsAreUsed == Spec => []ReadableIsUsed
<1>1. TextInv => ReadableIsUsed
  BY SettingsAccepted DEF ReadableIsUsed
<1> QED  BY <1>1, TextInvariance, PTL

(* The fields of a document, and what is written for each.                 *)
Fields == {"enabled", "trigger", "outputModifiers", "launchAtStartup",
           "launchToTray", "tapBehavior"}

LEMMA FieldsOf ==
    ASSUME NEW document \in Documents
    PROVE  DOMAIN document \ {"schemaVersion"} = Fields
BY DEF Documents, Fields

LEMMA Written ==
    ASSUME NEW document
    PROVE  LET kept == Serialize(Parsed(document))
               Or(value, default) == IF value = Missing THEN default ELSE value
           IN  /\ kept.enabled = Or(document.enabled, TRUE)
               /\ kept.trigger = IF document.trigger \in Triggers
                                 THEN document.trigger ELSE CapsLock
               /\ kept.outputModifiers = ParseModifiers(document.outputModifiers)
               /\ kept.launchAtStartup = Or(document.launchAtStartup, TRUE)
               /\ kept.launchToTray = Or(document.launchToTray, FALSE)
               /\ kept.tapBehavior = "CapsLock"
BY DEF Serialize, Parsed, Defaults

(* A list of modifiers that is not reported is written back as it is.      *)
LEMMA UnreportedListKept ==
    ASSUME NEW document \in Documents, "outputModifiers" \notin Repairs(document)
    PROVE  ParseModifiers(document.outputModifiers) = document.outputModifiers
<1> DEFINE list == document.outputModifiers
<1>1. /\ list \notin {Missing, <<>>}
      /\ \A i \in DOMAIN list :
            /\ list[i] # Unknown
            /\ \A j \in 1..(i - 1) : list[j] # list[i]
  BY DEF Repairs
<1>2. list \in Seq(OutputModifiers \cup {Unknown})
  BY <1>1 DEF Documents, RawModifiers
<1> HIDE DEF list
<1>3. list \in Seq(OutputModifiers)
  <2>1. \A i \in 1..Len(list) : list[i] \in OutputModifiers
    BY <1>1, <1>2
  <2> QED  BY <1>2, <2>1
<1>4. \A i, j \in 1..Len(list) : j < i => list[j] # list[i]
  BY <1>1, <1>2
<1>5. IsInjective(list)
  BY <1>2, <1>4 DEF IsInjective
<1> QED  BY <1>1, <1>3, <1>5, ListsAreKept DEF list

(* settings_store.rs: loading and saving a file changes no value of it     *)
(* that is not reported, but for the two migrations.                       *)
THEOREM NothingChangesSilently == Spec => []NoSilentChange
<1>1. ASSUME TextInv, Readable, NEW field \in DOMAIN text \ {"schemaVersion"}
      PROVE  \/ text[field] = Serialize(Parse(text).settings)[field]
             \/ text[field] = Missing
             \/ field \in Parse(text).repairs
             \/ field = "tapBehavior" /\ text[field] = "Undecided"
  <2>1. /\ text \in Documents
        /\ Parse(text).repairs = Repairs(text)
        /\ Serialize(Parse(text).settings) = Serialize(Parsed(text))
    BY <1>1, ReadableParsed
  <2>2. SUFFICES ASSUME text[field] # Missing, field \notin Repairs(text),
                        ~(field = "tapBehavior" /\ text[field] = "Undecided")
                 PROVE  text[field] = Serialize(Parsed(text))[field]
    BY <2>1
  <2>3. CASE field \in {"enabled", "launchAtStartup", "launchToTray"}
    BY <2>2, <2>3, Written
  <2>4. CASE field = "trigger"
    BY <2>2, <2>4, Written DEF Repairs
  <2>5. CASE field = "outputModifiers"
    BY <2>1, <2>2, <2>5, UnreportedListKept, Written
  <2>6. CASE field = "tapBehavior"
    <3>1. text.tapBehavior \in {"CapsLock", "Undecided", Unknown, Missing}
      BY <2>1 DEF Documents
    <3>2. text.tapBehavior # Unknown
      BY <2>2, <2>6 DEF Repairs
    <3> QED  BY <2>2, <2>6, <3>1, <3>2, Written
  <2>7. field \in Fields
    BY <1>1, <2>1, FieldsOf
  <2> QED  BY <2>3, <2>4, <2>5, <2>6, <2>7 DEF Fields
<1>2. TextInv => NoSilentChange
  BY <1>1 DEF NoSilentChange
<1> QED  BY <1>2, TextInvariance, PTL

(* json.rs: each invalid value is reset independently of the others.       *)
THEOREM EachFieldAlone == Spec => []FieldsIndependent
<1>1. ASSUME TextInv, Readable, NEW field \in DOMAIN text \ {"schemaVersion"}
      PROVE  LET alone == [Serialize(Defaults) EXCEPT ![field] = text[field]]
             IN  /\ Serialize(Parse(text).settings)[field]
                       = Serialize(Parse(alone).settings)[field]
                 /\ field \in Parse(text).repairs <=> field \in Parse(alone).repairs
  <2> DEFINE clean == Serialize(Defaults)
             alone == [clean EXCEPT ![field] = text[field]]
  <2>1. /\ text \in Documents
        /\ Parse(text).repairs = Repairs(text)
        /\ Serialize(Parse(text).settings) = Serialize(Parsed(text))
    BY <1>1, ReadableParsed
  <2>2. field \in Fields
    BY <1>1, <2>1, FieldsOf
  <2>3. clean \in Documents /\ clean.schemaVersion = CurrentSchemaVersion
    BY DefaultsAccepted, SerializedIsDocument DEF Serialize
  <2> HIDE DEF clean
  <2>4. /\ alone \in Documents
        /\ alone[field] = text[field]
        /\ alone.schemaVersion = CurrentSchemaVersion
    BY <2>1, <2>2, <2>3 DEF Documents, Fields
  <2> HIDE DEF alone
  <2>5. /\ Parse(alone).repairs = Repairs(alone)
        /\ Parse(alone).settings = Parsed(alone)
    <3>1. alone.schemaVersion \in 1..CurrentSchemaVersion \cup {Missing}
      BY <2>4 DEF CurrentSchemaVersion
    <3> QED  BY <2>4, <3>1, ParseReadable
  <2>6. Serialize(Parsed(text))[field] = Serialize(Parsed(alone))[field]
    <3>1. CASE field = "enabled"
      BY <2>4, <3>1, Written
    <3>2. CASE field = "trigger"
      BY <2>4, <3>2, Written
    <3>3. CASE field = "outputModifiers"
      BY <2>4, <3>3, Written
    <3>4. CASE field = "launchAtStartup"
      BY <2>4, <3>4, Written
    <3>5. CASE field = "launchToTray"
      BY <2>4, <3>5, Written
    <3>6. CASE field = "tapBehavior"
      BY <2>4, <3>6, Written
    <3> QED  BY <2>2, <3>1, <3>2, <3>3, <3>4, <3>5, <3>6 DEF Fields
  <2>7. field \in Repairs(text) <=> field \in Repairs(alone)
    BY <2>2, <2>4 DEF Repairs, Fields
  <2> QED  BY <2>1, <2>5, <2>6, <2>7 DEF alone, clean
<1>2. TextInv => FieldsIndependent
  BY <1>1 DEF FieldsIndependent
<1> QED  BY <1>2, TextInvariance, PTL

(* parse_modifiers: the known names, each once, in the order of first use. *)
THEOREM ModifiersKeepTheirOrder == Spec => []ModifiersInOrder
<1>1. ASSUME TextInv, Readable, text.outputModifiers # Missing,
             Names(text.outputModifiers) \cap OutputModifiers # {}
      PROVE  LET names    == text.outputModifiers
                 kept     == ParseModifiers(names)
                 known    == Names(names) \cap OutputModifiers
                 First(n) == CHOOSE i \in DOMAIN names :
                                names[i] = n /\ \A j \in 1..(i - 1) : names[j] # n
             IN  /\ Names(kept) = known
                 /\ \A i, j \in DOMAIN kept : i < j => First(kept[i]) < First(kept[j])
  <2> DEFINE names    == text.outputModifiers
             kept     == ParseModifiers(names)
             First(n) == CHOOSE i \in DOMAIN names :
                            names[i] = n /\ \A j \in 1..(i - 1) : names[j] # n
  <2>1. names \in Seq(OutputModifiers \cup {Unknown}) /\ names # Missing
    <3>1. text \in Documents
      BY <1>1, ReadableParsed
    <3> QED  BY <1>1, <3>1 DEF Documents, RawModifiers
  <2>2. Len(names) \in Nat /\ DOMAIN names = 1..Len(names)
    BY <2>1
  <2> HIDE DEF names
  <2>3. KeptFirst(names, Len(names))
    BY <2>2, KeptIsFirst
  <2>4. Names(KeptOf(names)[Len(names)]) = Names(names) \cap OutputModifiers
    BY <2>3 DEF KeptFirst, Names
  <2>5. KeptOf(names)[Len(names)] # <<>>
    <3>1. Names(<<>>) = {}
      BY DEF Names
    <3> QED  BY <1>1, <2>4, <3>1 DEF names
  <2>6. kept = KeptOf(names)[Len(names)]
    BY <2>1, <2>5, ParseModifiersIs
  <2>7. \A n \in Names(names) :
           /\ First(n) \in 1..Len(names)
           /\ names[First(n)] = n
           /\ \A j \in 1..(First(n) - 1) : names[j] # n
    <3> TAKE n \in Names(names)
    <3> DEFINE uses == {i \in 1..Len(names) : names[i] = n}
    <3>1. uses # {} /\ uses \subseteq Nat
      BY <2>2 DEF Names
    <3>2. PICK i \in uses : \A j \in uses : i <= j
      BY <3>1, LeastNatural
    <3>3. \A j \in 1..(i - 1) : names[j] # n
      BY <2>2, <3>2
    <3>4. \E k \in DOMAIN names : names[k] = n /\ \A j \in 1..(k - 1) : names[j] # n
      BY <2>2, <3>2, <3>3
    <3> QED  BY <2>2, <3>4
  <2> HIDE DEF kept, First
  <2>8. ASSUME NEW p \in DOMAIN kept, NEW q \in DOMAIN kept, p < q
        PROVE  First(kept[p]) < First(kept[q])
    <3>1. PICK i \in 1..Len(names) : /\ names[i] = kept[p]
                                     /\ \A j \in 1..i : names[j] # kept[q]
      BY <2>3, <2>6, <2>8 DEF KeptFirst
    <3>2. kept[p] \in Names(names) /\ kept[q] \in Names(names)
      <4>1. kept \in Seq(OutputModifiers)
        BY <2>3, <2>6 DEF KeptFirst
      <4>2. kept[p] \in Names(kept) /\ kept[q] \in Names(kept)
        BY <4>1 DEF Names
      <4> QED  BY <2>4, <2>6, <4>2
    <3>3. /\ First(kept[p]) \in Int /\ First(kept[q]) \in 1..Len(names)
          /\ \A j \in 1..(First(kept[p]) - 1) : names[j] # kept[p]
          /\ names[First(kept[q])] = kept[q]
      BY <2>2, <2>7, <3>2
    <3>4. ~(i < First(kept[p]))
      BY <3>1, <3>3
    <3>5. ~(First(kept[q]) <= i)
      BY <2>2, <3>1, <3>3
    <3> QED  BY <2>2, <3>1, <3>3, <3>4, <3>5
  <2> QED  BY <2>4, <2>6, <2>8 DEF names, kept, First
<1>2. TextInv => ModifiersInOrder
  BY <1>1, Zenon DEF ModifiersInOrder
<1> QED  BY <1>2, TextInvariance, PTL

(* DESIGN.md: a saved file is read back as the settings that were saved,   *)
(* in the newest schema and with nothing to report.                        *)
THEOREM SavedFilesAreReadBack == Spec => SavedIsReadBack
<1>1. ASSUME TextInv, [LoadAndSave]_text
      PROVE  [/\ Parse(text').settings
                    = [Parse(text).settings EXCEPT !.schema_version = CurrentSchemaVersion]
              /\ ~Parse(text').used_defaults
              /\ Parse(text').repairs = {}]_text
  <2>1. CASE LoadAndSave
    BY <1>1, <2>1, SettingsAccepted, ReadBack DEF LoadAndSave
  <2> QED  BY <1>1, <2>1
<1> QED  BY <1>1, TextInvariance, PTL DEF Spec, SavedIsReadBack
=============================================================================
