SPECIFICATION Spec
CONSTANTS
  Bus <- MCBus
  NoDevice = NoDevice
  Plugs <- MCPlugs
  Earlier = Earlier
  Memories <- MCMemories
  MAX_USB = 3
  MAX_PCI = 4
  MAX_CONTROLLERS = 2
INVARIANTS TypeOK RegisteredRight DescriptorsRight EnumerationComplete
CHECK_DEADLOCK FALSE
