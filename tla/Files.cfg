SPECIFICATION Spec
CONSTANTS
  MAX_FILES = 7
  Streams = 4
  Mounts = {"fd0", "hd1"}
  Devices = {"floppy0", "usb0"}
  Contents <- MCContents
  Damaged <- MCDamaged
  Shell = "shell.exe"
  Returning = {"sayhi.exe"}
  Home = "fd0"
  Words <- MCWords
  Paths <- MCPaths
  MaxCalls = 3
INVARIANTS TypeOK HandleForShell LostOnlyByRead OpenableIsListed
PROPERTY HandlesKeepFile
CHECK_DEADLOCK FALSE
