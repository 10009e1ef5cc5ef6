SPECIFICATION Spec
CONSTANTS
  usb = usb
  floppy = floppy
  dot = dot
  MAX_BLOCK_DEVICES = 16
  MAX_MOUNTPOINTS = 16
  MaxUsb = 4
  Entries = 4
  Extents <- OneExtent
INVARIANT TableNotOverrun
CHECK_DEADLOCK FALSE
