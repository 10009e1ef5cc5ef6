SPECIFICATION FairSpec
CONSTANTS
  usb = usb
  floppy = floppy
  dot = dot
  MAX_BLOCK_DEVICES = 16
  MAX_MOUNTPOINTS = 16
  MaxUsb = 2
  Entries = 3
  Extents <- MCExtents
INVARIANTS TypeOK NamesUnique PartitionsComplete MountsApart StartsFromFloppy
PROPERTY BootEnds
CHECK_DEADLOCK FALSE
