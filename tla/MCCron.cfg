SPECIFICATION CronSpec
CONSTANTS
  Expressions <- MCExpressions
  Starts <- MCStarts
  MaxFires = 3
  InvalidTime = NoTime
PROPERTIES NextIsNext
CHECK_DEADLOCK FALSE
