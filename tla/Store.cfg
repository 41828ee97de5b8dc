SPECIFICATION Spec
CONSTANTS
  caps = caps
  scroll = scroll
  CapsLock = caps
  Unknown = Unknown
  Missing = Missing
  NoDocument = NoDocument
  None = None
  Torn = Torn
  Triggers <- MCTriggers
  Texts <- MCTexts
  Savable <- MCSavable
INVARIANTS
  TypeOK
  NoWarningMeansSaved
PROPERTIES
  FileReplacedWhole
  CorruptFileKept
  ImplementsSettingsFile
