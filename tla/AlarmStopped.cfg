SPECIFICATION AlarmsSpec
CONSTANTS
  Alarm = {a, b, c}
  ListHead = ListHead
  NoNode = NoNode
  Word = 6
  Delay = {0, 1, 4}
  Period = {0, 1, 3, 5}
  MayStopNext = TRUE
PROPERTIES StoppedIsSilent
