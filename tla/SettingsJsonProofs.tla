------------------------- MODULE SettingsJsonProofs -------------------------
(***************************************************************************)
(* Proofs about SettingsJson: what parse_modifiers makes of a list of any  *)
(* length, that a readable document always yields settings the program     *)
(* accepts, and that what is written is read back.                         *)
(***************************************************************************)
EXTENDS SettingsJson, SequenceTheorems, WellFoundedInduction, TLAPS

---------------------------------------------------------------------------
(* Induction.  The library's induction theorems have an operator for the   *)
(* predicate; these two have a set.                                        *)

LEMMA LeastNatural ==
    ASSUME NEW S, S \subseteq Nat, S # {}
    PROVE  \E n \in S : \A m \in S : n <= m
<1>1. PICK n \in S : \A m \in S : <<m, n>> \notin OpToRel(<, Nat)
  BY WFMin, NatLessThanWellFounded, Zenon
<1>2. \A m \in S : ~(m < n)
  BY <1>1 DEF OpToRel
<1> QED  BY <1>2

LEMMA InductiveSet ==
    ASSUME NEW S, 0 \in S, \A n \in Nat : n \in S => n + 1 \in S
    PROVE  \A n \in Nat : n \in S
<1>1. SUFFICES ASSUME Nat \ S # {}
               PROVE  FALSE
  OBVIOUS
<1>2. PICK n \in Nat \ S : \A m \in Nat \ S : n <= m
  BY <1>1, LeastNatural
<1>3. n # 0 /\ n - 1 \in Nat /\ (n - 1) + 1 = n
  BY <1>2
<1> QED  BY <1>2, <1>3

---------------------------------------------------------------------------
(* The loop of parse_modifiers.                                            *)

(* parsed after each number of values: `kept` of ParseModifiers.           *)
KeptOf(values) ==
    CHOOSE kept : kept = [i \in 0..Len(values) |->
                            IF i = 0 THEN <<>> ELSE KeepModifier(kept[i - 1], values[i])]

(* The recursion defines a function: one exists on each 0..n.              *)
LEMMA KeptExists ==
    ASSUME NEW values, Len(values) \in Nat
    PROVE  /\ DOMAIN KeptOf(values) = 0..Len(values)
           /\ KeptOf(values)[0] = <<>>
           /\ \A i \in 1..Len(values) :
                 KeptOf(values)[i] = KeepModifier(KeptOf(values)[i - 1], values[i])
<1> DEFINE Step(f, n) == [i \in 0..n |-> IF i = 0 THEN <<>>
                                         ELSE KeepModifier(f[i - 1], values[i])]
           Defined == {n \in Nat : \E f : f = Step(f, n)}
<1>1. 0 \in Defined
  <2> DEFINE f == [i \in 0..0 |-> <<>>]
  <2>1. f = Step(f, 0)
    OBVIOUS
  <2> QED  BY <2>1
<1>2. ASSUME NEW n \in Nat, n \in Defined
      PROVE  n + 1 \in Defined
  <2>1. PICK f : f = Step(f, n)
    BY <1>2
  <2> DEFINE g == [i \in 0..(n + 1) |->
                     IF i = n + 1 THEN KeepModifier(f[n], values[n + 1]) ELSE f[i]]
  <2>2. ASSUME NEW i \in 0..(n + 1)
        PROVE  g[i] = Step(g, n + 1)[i]
    <3>1. CASE i = 0
      BY <2>1, <3>1
    <3>2. CASE i \in 1..n
      <4>1. i # 0 /\ i # n + 1 /\ i - 1 # n + 1 /\ i - 1 \in 0..n /\ i \in 0..n
            /\ i - 1 \in 0..(n + 1)
        BY <3>2
      <4>2. f[i] = KeepModifier(f[i - 1], values[i])
        BY <2>1, <4>1
      <4> QED  BY <4>1, <4>2
    <3>3. CASE i = n + 1
      <4>1. i # 0 /\ i - 1 = n /\ n # n + 1 /\ n \in 0..(n + 1)
        BY <3>3
      <4> QED  BY <3>3, <4>1
    <3> QED  BY <3>1, <3>2, <3>3
  <2>3. g = Step(g, n + 1)
    BY <2>2
  <2>4. n + 1 \in Nat
    OBVIOUS
  <2> QED  BY <2>3, <2>4
<1>3. Len(values) \in Defined
  <2> HIDE DEF Defined
  <2> QED  BY <1>1, <1>2, InductiveSet
<1>4. PICK f : f = Step(f, Len(values))
  BY <1>3
<1>5. KeptOf(values) = Step(KeptOf(values), Len(values))
  BY <1>4, Zenon DEF KeptOf
<1>6. \A i \in 1..Len(values) : i \in 0..Len(values) /\ i # 0
  OBVIOUS
<1>7. 0 \in 0..Len(values)
  OBVIOUS
<1> HIDE DEF Defined
<1> QED  BY <1>5, <1>6, <1>7

LEMMA ParseModifiersIs ==
    ASSUME NEW values
    PROVE  ParseModifiers(values)
             = IF values = Missing \/ KeptOf(values)[Len(values)] = <<>>
               THEN Defaults.output_modifiers
               ELSE KeptOf(values)[Len(values)]
BY Zenon DEF ParseModifiers, KeptOf

(* One round: a new name goes to the end, any other changes nothing.       *)
LEMMA KeepModifierIs ==
    ASSUME NEW list \in Seq(OutputModifiers), IsInjective(list), NEW name
    PROVE  /\ KeepModifier(list, name) \in Seq(OutputModifiers)
           /\ IsInjective(KeepModifier(list, name))
           /\ Names(KeepModifier(list, name)) = Names(list) \cup ({name} \cap OutputModifiers)
           /\ \/ KeepModifier(list, name) = list
              \/ /\ name \in OutputModifiers \ Names(list)
                 /\ KeepModifier(list, name) = Append(list, name)
<1>1. CASE name \in OutputModifiers \ Names(list)
  <2> DEFINE longer == Append(list, name)
  <2>1. /\ longer \in Seq(OutputModifiers)
        /\ Len(longer) = Len(list) + 1
        /\ longer[Len(list) + 1] = name
        /\ \A i \in 1..Len(list) : longer[i] = list[i] /\ list[i] # name
    BY <1>1 DEF Names
  <2>2. IsInjective(longer)
    BY <2>1 DEF IsInjective
  <2>3. Names(longer) = Names(list) \cup {name}
    BY <2>1 DEF Names
  <2>4. KeepModifier(list, name) = longer
    BY <1>1 DEF KeepModifier
  <2> HIDE DEF longer
  <2>5. KeepModifier(list, name) = Append(list, name)
    BY <1>1 DEF KeepModifier
  <2> QED  BY <1>1, <2>1, <2>2, <2>3, <2>4, <2>5
<1>2. CASE name \notin OutputModifiers \ Names(list)
  <2>1. KeepModifier(list, name) = list
    BY <1>2 DEF KeepModifier
  <2>2. Names(list) = Names(list) \cup ({name} \cap OutputModifiers)
    BY <1>2
  <2> QED  BY <2>1, <2>2
<1> QED  BY <1>1, <1>2

(* What n rounds have kept: the known names among the first n values, each *)
(* once, one before the other if its first use comes before any of the     *)
(* other's.                                                                *)
KeptFirst(values, n) ==
    LET list == KeptOf(values)[n]
    IN  /\ list \in Seq(OutputModifiers)
        /\ IsInjective(list)
        /\ Names(list) = {values[i] : i \in 1..n} \cap OutputModifiers
        /\ \A p, q \in DOMAIN list : p < q =>
              \E i \in 1..n : /\ values[i] = list[p]
                              /\ \A j \in 1..i : values[j] # list[q]

LEMMA KeptFirstNext ==
    ASSUME NEW values, Len(values) \in Nat,
           NEW n \in Nat, n + 1 <= Len(values), KeptFirst(values, n)
    PROVE  KeptFirst(values, n + 1)
<1> DEFINE list == KeptOf(values)[n]
           longer == KeptOf(values)[n + 1]
           name == values[n + 1]
<1>1. longer = KeepModifier(list, name)
  <2>1. n + 1 \in 1..Len(values) /\ (n + 1) - 1 = n
    OBVIOUS
  <2> QED  BY <2>1, KeptExists
<1>2. /\ list \in Seq(OutputModifiers) /\ IsInjective(list)
      /\ Names(list) = {values[i] : i \in 1..n} \cap OutputModifiers
      /\ \A p, q \in DOMAIN list : p < q =>
            \E i \in 1..n : /\ values[i] = list[p]
                            /\ \A j \in 1..i : values[j] # list[q]
  BY DEF KeptFirst
<1> HIDE DEF list, longer, name
<1>3. /\ longer \in Seq(OutputModifiers) /\ IsInjective(longer)
      /\ Names(longer) = Names(list) \cup ({name} \cap OutputModifiers)
      /\ \/ longer = list
         \/ name \in OutputModifiers \ Names(list) /\ longer = Append(list, name)
  BY <1>1, <1>2, KeepModifierIs
<1>4. {values[i] : i \in 1..(n + 1)} = {values[i] : i \in 1..n} \cup {name}
  <2>1. \A i : i \in 1..(n + 1) <=> i \in 1..n \/ i = n + 1
    OBVIOUS
  <2> QED  BY <2>1, Zenon DEF name
<1>5. Names(longer) = {values[i] : i \in 1..(n + 1)} \cap OutputModifiers
  BY <1>2, <1>3, <1>4
<1>6. ASSUME NEW p \in DOMAIN longer, NEW q \in DOMAIN longer, p < q
      PROVE  \E i \in 1..(n + 1) : /\ values[i] = longer[p]
                                   /\ \A j \in 1..i : values[j] # longer[q]
  <2>1. CASE longer = list \/ q \in DOMAIN list
    <3>1. /\ p \in DOMAIN list /\ q \in DOMAIN list
          /\ longer[p] = list[p] /\ longer[q] = list[q]
      BY <1>2, <1>3, <1>6, <2>1
    <3>2. PICK i \in 1..n : /\ values[i] = list[p]
                            /\ \A j \in 1..i : values[j] # list[q]
      BY <1>2, <1>6, <3>1
    <3> QED  BY <3>1, <3>2
  <2>2. CASE longer # list /\ q \notin DOMAIN list
    <3>1. /\ name \in OutputModifiers \ Names(list) /\ longer = Append(list, name)
          /\ q = Len(list) + 1 /\ longer[q] = name
          /\ p \in 1..Len(list) /\ longer[p] = list[p]
      BY <1>2, <1>3, <1>6, <2>2
    <3>2. list[p] \in Names(list)
      BY <3>1 DEF Names
    <3>3. PICK i \in 1..n : values[i] = list[p]
      BY <1>2, <3>2
    <3>4. \A j \in 1..n : values[j] # name
      BY <1>2, <3>1
    <3> QED  BY <3>1, <3>3, <3>4
  <2> QED  BY <2>1, <2>2
<1> QED  BY <1>3, <1>5, <1>6 DEF KeptFirst, longer

(* By induction on the number of rounds, for a list of any length.         *)
LEMMA KeptIsFirst ==
    ASSUME NEW values, Len(values) \in Nat
    PROVE  KeptFirst(values, Len(values))
<1> DEFINE Right == {n \in Nat : n <= Len(values) => KeptFirst(values, n)}
<1>1. KeptFirst(values, 0)
  <2>1. KeptOf(values)[0] = <<>>
    BY KeptExists
  <2>2. /\ <<>> \in Seq(OutputModifiers) /\ DOMAIN <<>> = {}
        /\ IsInjective(<<>>) /\ Names(<<>>) = {}
    BY DEF IsInjective, Names
  <2>3. {values[i] : i \in 1..0} = {}
    OBVIOUS
  <2> QED  BY <2>1, <2>2, <2>3 DEF KeptFirst
<1>2. 0 \in Right
  BY <1>1
<1>3. ASSUME NEW n \in Nat, n \in Right
      PROVE  n + 1 \in Right
  <2>1. n + 1 <= Len(values) => KeptFirst(values, n)
    BY <1>3
  <2>2. n + 1 <= Len(values) => KeptFirst(values, n + 1)
    BY <2>1, KeptFirstNext
  <2> QED  BY <2>2
<1>4. Len(values) \in Right
  <2> HIDE DEF Right
  <2> QED  BY <1>2, <1>3, InductiveSet
<1> QED  BY <1>4

(* There are three modifiers, so a list without repetition has three.      *)
LEMMA InjectiveIsShort ==
    ASSUME NEW list \in Seq(OutputModifiers), IsInjective(list), list # <<>>
    PROVE  Len(list) \in 1..3
<1>1. ASSUME Len(list) >= 4
      PROVE  FALSE
  <2>1. \A i \in 1..4 : i \in DOMAIN list /\ list[i] \in {"Control", "Alt", "Shift"}
    BY <1>1 DEF OutputModifiers
  <2>2. \A i, j \in 1..4 : i # j => list[i] # list[j]
    BY <2>1 DEF IsInjective
  <2> QED  BY <2>1, <2>2
<1>2. Len(list) \in Nat \ {0}
  BY EmptySeq
<1>3. ~(Len(list) >= 4)
  BY <1>1
<1>4. \A n \in Nat \ {0} : ~(n >= 4) => n \in 1..3
  OBVIOUS
<1> QED  BY <1>2, <1>3, <1>4

LEMMA DefaultModifiers ==
    /\ Defaults.output_modifiers \in Seq(OutputModifiers)
    /\ IsInjective(Defaults.output_modifiers)
    /\ Len(Defaults.output_modifiers) = 3
BY DEF Defaults, OutputModifiers, IsInjective

(* What is left of a list in the end, or the defaults.                     *)
LEMMA ParsedModifiers ==
    ASSUME NEW values \in {Missing} \cup RawModifiers
    PROVE  /\ ParseModifiers(values) \in Seq(OutputModifiers)
           /\ IsInjective(ParseModifiers(values))
           /\ Len(ParseModifiers(values)) \in 1..3
<1>1. CASE values = Missing \/ KeptOf(values)[Len(values)] = <<>>
  <2>1. ParseModifiers(values) = Defaults.output_modifiers
    BY <1>1, ParseModifiersIs
  <2> QED  BY <2>1, DefaultModifiers
<1>2. CASE values # Missing /\ KeptOf(values)[Len(values)] # <<>>
  <2> DEFINE list == KeptOf(values)[Len(values)]
  <2>1. Len(values) \in Nat
    BY <1>2 DEF RawModifiers
  <2>2. list \in Seq(OutputModifiers) /\ IsInjective(list)
    BY <2>1, KeptIsFirst DEF KeptFirst
  <2>3. ParseModifiers(values) = list
    BY <1>2, ParseModifiersIs
  <2> HIDE DEF list
  <2>4. list # <<>>
    BY <1>2 DEF list
  <2>5. Len(list) \in 1..3
    BY <2>2, <2>4, InjectiveIsShort, Zenon
  <2> QED  BY <2>2, <2>3, <2>5
<1> QED  BY <1>1, <1>2

(* One round of parse_modifiers over a list without repetition.            *)
LEMMA KeepsNext ==
    ASSUME NEW list \in Seq(OutputModifiers), IsInjective(list),
           NEW i \in 1..Len(list)
    PROVE  KeepModifier(SubSeq(list, 1, i - 1), list[i]) = SubSeq(list, 1, i)
<1>1. /\ Len(SubSeq(list, 1, i - 1)) = i - 1
      /\ \A j \in 1..(i - 1) : SubSeq(list, 1, i - 1)[j] = list[j]
  OBVIOUS
<1>2. \A j \in 1..(i - 1) : list[j] # list[i]
  BY DEF IsInjective
<1>3. list[i] \notin Names(SubSeq(list, 1, i - 1))
  BY <1>1, <1>2 DEF Names
<1>4. list[i] \in OutputModifiers
  OBVIOUS
<1>5. Append(SubSeq(list, 1, i - 1), list[i]) = SubSeq(list, 1, i)
  OBVIOUS
<1> QED  BY <1>3, <1>4, <1>5 DEF KeepModifier

(* A list without repetition and without unknown names stays as it is.     *)
LEMMA ListsAreKept ==
    ASSUME NEW list \in Seq(OutputModifiers), IsInjective(list), list # <<>>
    PROVE  list # Missing /\ ParseModifiers(list) = list
<1> DEFINE Right == {n \in Nat : n <= Len(list) => KeptOf(list)[n] = SubSeq(list, 1, n)}
<1>1. 0 \in Right
  <2>1. SubSeq(list, 1, 0) = <<>> /\ Len(list) \in Nat
    OBVIOUS
  <2> QED  BY <2>1, KeptExists
<1>2. ASSUME NEW n \in Nat, n \in Right
      PROVE  n + 1 \in Right
  <2>1. SUFFICES ASSUME n + 1 <= Len(list)
                 PROVE  KeptOf(list)[n + 1] = SubSeq(list, 1, n + 1)
    OBVIOUS
  <2>2. n + 1 \in 1..Len(list) /\ (n + 1) - 1 = n /\ Len(list) \in Nat /\ n <= Len(list)
    BY <2>1
  <2>3. KeptOf(list)[n + 1] = KeepModifier(KeptOf(list)[n], list[n + 1])
    BY <2>2, KeptExists
  <2>4. KeptOf(list)[n] = SubSeq(list, 1, n)
    BY <1>2, <2>2
  <2>5. KeepModifier(SubSeq(list, 1, n), list[n + 1]) = SubSeq(list, 1, n + 1)
    BY <2>2, KeepsNext
  <2> QED  BY <2>3, <2>4, <2>5
<1>3. Len(list) \in Right
  <2>1. Len(list) \in Nat
    OBVIOUS
  <2> HIDE DEF Right
  <2> QED  BY <1>1, <1>2, <2>1, InductiveSet
<1>4. KeptOf(list)[Len(list)] = list
  <2>1. SubSeq(list, 1, Len(list)) = list /\ Len(list) <= Len(list)
    OBVIOUS
  <2> QED  BY <1>3, <2>1
<1>5. list # Missing
  <2>1. list \in RawModifiers
    BY DEF RawModifiers
  <2> QED  BY <2>1, MissingAssumption
<1> QED  BY <1>4, <1>5, ParseModifiersIs

---------------------------------------------------------------------------
(* Documents.                                                              *)

(* Every value of a document of a supported schema is repaired to one the  *)
(* program accepts.                                                        *)
LEMMA ParsedIsAccepted ==
    ASSUME NEW document \in Documents,
           document.schemaVersion \in 1..CurrentSchemaVersion \cup {Missing}
    PROVE  Parsed(document) \in SettingsRecords /\ Accepts(Parsed(document))
<1> DEFINE settings == Parsed(document)
<1>1. /\ settings.output_modifiers = ParseModifiers(document.outputModifiers)
      /\ settings.schema_version \in 1..2
      /\ settings.enabled \in BOOLEAN
      /\ settings.trigger \in Triggers
      /\ settings.launch_at_startup \in BOOLEAN
      /\ settings.launch_to_tray \in BOOLEAN
      /\ settings.tap_behavior = "CapsLock"
  <2>1. settings.schema_version \in 1..2
    BY DEF Parsed, CurrentSchemaVersion
  <2>2. /\ document.enabled \in Booleans
        /\ document.launchAtStartup \in Booleans
        /\ document.launchToTray \in Booleans
    BY DEF Documents
  <2>3. /\ settings.enabled \in BOOLEAN
        /\ settings.launch_at_startup \in BOOLEAN
        /\ settings.launch_to_tray \in BOOLEAN
    BY <2>2 DEF Parsed, Booleans, Defaults
  <2>4. settings.trigger \in Triggers
    BY TriggersAssumption DEF Parsed, Defaults
  <2> QED  BY <2>1, <2>3, <2>4 DEF Parsed
<1>2. /\ settings.output_modifiers \in Seq(OutputModifiers)
      /\ IsInjective(settings.output_modifiers)
      /\ Len(settings.output_modifiers) \in 1..3
  <2>1. document.outputModifiers \in {Missing} \cup RawModifiers
    BY DEF Documents
  <2> HIDE DEF settings
  <2> QED  BY <1>1, <2>1, ParsedModifiers
<1>3. settings = [schema_version |-> settings.schema_version,
                  enabled |-> settings.enabled,
                  trigger |-> settings.trigger,
                  output_modifiers |-> settings.output_modifiers,
                  launch_at_startup |-> settings.launch_at_startup,
                  launch_to_tray |-> settings.launch_to_tray,
                  tap_behavior |-> settings.tap_behavior]
  BY DEF Parsed
<1> HIDE DEF settings
<1>4. settings \in SettingsRecords
  BY <1>1, <1>2, <1>3 DEF SettingsRecords
<1>5. Accepts(settings)
  BY <1>1, <1>2, DefaultModifiers DEF Accepts, CurrentSchemaVersion
<1> QED  BY <1>4, <1>5 DEF settings

(* So a readable document is always used, and nothing else ever is.        *)
LEMMA ParseReadable ==
    ASSUME NEW document \in Documents,
           document.schemaVersion \in 1..CurrentSchemaVersion \cup {Missing}
    PROVE  Parse(document)
             = [settings |-> Parsed(document), used_defaults |-> FALSE,
                repairs |-> Repairs(document), file_corrupt |-> FALSE]
<1>1. document # NoDocument
  BY NoDocumentAssumption
<1>2. Parse(document) = Usable(document)
  BY <1>1 DEF Parse
<1> QED  BY <1>2, ParsedIsAccepted DEF Usable

LEMMA ParseUnreadable ==
    ASSUME NEW text \in Documents \cup {NoDocument},
           \/ text = NoDocument
           \/ text.schemaVersion \notin 1..CurrentSchemaVersion \cup {Missing}
    PROVE  Parse(text).settings = Defaults /\ Parse(text).used_defaults
<1>1. Parse(text) \in {Unusable(TRUE), Unusable(FALSE)}
  BY DEF Parse, Unsupported
<1> QED  BY <1>1 DEF Unusable

LEMMA DefaultsAccepted == Defaults \in SettingsRecords /\ Accepts(Defaults)
BY TriggersAssumption, DefaultModifiers
   DEF Defaults, SettingsRecords, Accepts, CurrentSchemaVersion

LEMMA SerializedIsDocument ==
    ASSUME NEW settings \in SettingsRecords
    PROVE  Serialize(settings) \in Documents
<1>1. settings.output_modifiers \in RawModifiers
  BY DEF SettingsRecords, RawModifiers
<1> QED  BY <1>1 DEF Serialize, Documents, SettingsRecords, Booleans, CurrentSchemaVersion

(* json.rs: a document written by serialize is read back by parse as the   *)
(* settings that were written, in the newest schema, with nothing repaired *)
(* and the file not called corrupt.                                        *)
THEOREM ReadBack ==
    ASSUME NEW settings \in SettingsRecords, Accepts(settings)
    PROVE  Parse(Serialize(settings))
             = [settings |-> [settings EXCEPT !.schema_version = CurrentSchemaVersion],
                used_defaults |-> FALSE, repairs |-> {}, file_corrupt |-> FALSE]
<1> DEFINE document == Serialize(settings)
           list == settings.output_modifiers
<1>1. list \in Seq(OutputModifiers) /\ IsInjective(list) /\ list # <<>>
  <2>1. Len(list) \in 1..3
    BY DefaultModifiers DEF Accepts
  <2> QED  BY <2>1 DEF SettingsRecords, Accepts
<1>2. ParseModifiers(list) = list /\ list # Missing
  BY <1>1, ListsAreKept
<1>3. document \in Documents
  BY SerializedIsDocument
<1>4. Parsed(document) = [settings EXCEPT !.schema_version = CurrentSchemaVersion]
  BY <1>2, MissingAssumption
     DEF Parsed, Serialize, SettingsRecords, CurrentSchemaVersion
<1>5. Repairs(document) = {}
  <2>1. \A i \in DOMAIN list :
           list[i] # Unknown /\ \A j \in 1..(i - 1) : list[j] # list[i]
    BY <1>1, UnknownAssumption DEF IsInjective
  <2> QED
    BY <1>1, <1>2, <2>1, MissingAssumption, UnknownAssumption
       DEF Repairs, Serialize, SettingsRecords
<1>6. document.schemaVersion \in 1..CurrentSchemaVersion \cup {Missing}
  BY DEF Serialize, CurrentSchemaVersion
<1>7. Parse(document)
        = [settings |-> Parsed(document), used_defaults |-> FALSE,
           repairs |-> Repairs(document), file_corrupt |-> FALSE]
  <2> HIDE DEF document
  <2> QED  BY <1>3, <1>6, ParseReadable
<1> QED  BY <1>4, <1>5, <1>7
=============================================================================
