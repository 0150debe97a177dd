SPECIFICATION WatchSpec
CONSTANTS
  R = 4
  Timeout = 3
  MaxPass = 9
  Late = 3
  MayStall = TRUE
  Jumps <- BackAndForth
  MaxJumps = 2
  Horizon = 48
INVARIANTS AlarmMeansStalled AlarmInTime
CHECK_DEADLOCK FALSE
