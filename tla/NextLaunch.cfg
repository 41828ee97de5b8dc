SPECIFICATION Spec
CONSTANTS
  enter = enter
  key = key
  ctrl = ctrl
  shift = shift
  NoKey = NoKey
  NoTray = NoTray
  Triggers <- MCTriggers
  ActivationKeys <- MCActivationKeys
  OutputModifiers <- MCOutputModifiers
  FirstSettings <- MCFirstSettings
  DefaultSettings <- MCDefaultSettings
  MaxMessages = 2
PROPERTIES
  NextLaunchReactivates
