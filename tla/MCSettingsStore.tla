--------------------------- MODULE MCSettingsStore ---------------------------
(* A corrupt text, a clean one of the old schema, one that needs repair and *)
(* one of a newer version; two choices of the user.                        *)
EXTENDS SettingsStore

CONSTANTS caps, scroll

MCTriggers == {caps, scroll}

MCSavable ==
    {[Defaults EXCEPT !.trigger = scroll], [Defaults EXCEPT !.enabled = FALSE]}

MCTexts ==
    {NoDocument,
     [Serialize(Defaults) EXCEPT !.schemaVersion = 1, !.trigger = scroll],
     [Serialize(Defaults) EXCEPT !.trigger = Unknown, !.launchToTray = TRUE],
     [Serialize(Defaults) EXCEPT !.schemaVersion = CurrentSchemaVersion + 1]}
=============================================================================
