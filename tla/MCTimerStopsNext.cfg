SPECIFICATION HistorySpec
CONSTANTS
  t1 = t1
  t2 = t2
  c1 = c1
  c2 = c2
  Node = {t1, t2}
  NULL = NULL
  List = {c1, c2}
  StartedOn <- BothAndFirst
  Half = 4
  MaxLag <- EveryTick
  MaxBehind = 3
  OneShotIntervals = {1}
  RepeatIntervals = {1}
  CallbacksChange = TRUE
  CallbacksStopNext = TRUE
PROPERTY StoppedTimerNeverFires
