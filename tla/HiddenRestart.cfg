SPECIFICATION GateSpec
CONSTANTS
  Watched = {"laya", "llm"}
  Laya = "laya"
  MaxClock = 2
  MaxPressure = 1
  MaxStarts = 1
INVARIANT ResetsAreSeen
CHECK_DEADLOCK FALSE
