SPECIFICATION StackSpec
CONSTANTS
  Top = 8
  Alignment = 2
  Frame = 2
  Increments = {0, 2, 4}
  NoLimit = NoLimit
INVARIANT ExceptionReportIsTrue
CHECK_DEADLOCK FALSE
