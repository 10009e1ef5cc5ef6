SPECIFICATION FairSpec
CONSTANTS
  Printable = {"a", "A", "."}
  Unhandled = {"esc"}
  Backspace = "bs"
  Newline = "nl"
  Limit = 2
  CharKeys <- MCCharKeys
  Lower <- MCLower
  Upper <- MCUpper
  InUse <- MCInUse
  MaxTyped = 3
INVARIANTS TypeOK Handshake LineFits ModifiersNotStuck
PROPERTIES ImplementsLineInput KeyReachesReader
