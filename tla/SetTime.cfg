SPECIFICATION ClockSpec
CONSTANTS
  ClockWord = 16
  ALT_US = 6
  Rate = 2
  Seconds = {0, 1, 7}
  NoTime = NoTime
INVARIANTS SetReadsBack
