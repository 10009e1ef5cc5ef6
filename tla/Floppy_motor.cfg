SPECIFICATION Spec
CONSTANTS
  SectorsPerTrack = 2
  Lbas = {1, 2, 5}
  IdleTicks = 1
  SettleTicks = 3
  PollTicks = 5
  SpinTicks = 8
  Polls = 2
  SeekTries = 2
INVARIANT MotorOnForRead
