------------------------- MODULE MCSettingsRoundTrip -------------------------
(* Every combination of field values with lists of up to two names, and    *)
(* lists of up to four names in an otherwise clean document.               *)
EXTENDS SettingsRoundTrip

CONSTANTS caps, scroll

MCTriggers == {caps, scroll}

(* Lists of up to MaxNames raw names.                                      *)
RawLists(MaxNames) ==
    UNION {[1..n -> OutputModifiers \cup {Unknown}] : n \in 0..MaxNames}

MCDocuments ==
    [schemaVersion: 0..(CurrentSchemaVersion + 1) \cup {Missing},
     enabled: Booleans,
     trigger: Triggers \cup {Unknown, Missing},
     outputModifiers: RawLists(2) \cup {Missing},
     launchAtStartup: Booleans,
     launchToTray: Booleans,
     tapBehavior: {"CapsLock", "Undecided", Unknown, Missing}]

MCTexts ==
    {NoDocument}
    \cup MCDocuments
    \cup {[Serialize(Defaults) EXCEPT !.outputModifiers = names] : names \in RawLists(4)}
=============================================================================
