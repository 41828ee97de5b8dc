SPECIFICATION Spec
CONSTANTS
  caps = caps
  scroll = scroll
  key = key
  ctrl = ctrl
  shift = shift
  NoCall = NoCall
  TriggerKeys <- MCTriggerKeys
  OrdinaryKeys <- MCOrdinaryKeys
  Modifiers <- MCModifiers
  ModifierLists <- MCModifierLists
  SendMayFail = TRUE
  Faults = {"nested", "hookloss", "install", "panic", "session"}
INVARIANTS
  TypeOK
  LayerTracked
PROPERTIES
  ChordCarriesLayer
