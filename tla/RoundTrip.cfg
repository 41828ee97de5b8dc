SPECIFICATION Spec
CONSTANTS
  caps = caps
  scroll = scroll
  CapsLock = caps
  Unknown = Unknown
  Missing = Missing
  NoDocument = NoDocument
  Triggers <- MCTriggers
  Texts <- MCTexts
INVARIANTS
  ReadableIsUsed
  NoSilentChange
  ModifiersInOrder
  FieldsIndependent
PROPERTIES
  SavedIsReadBack
