SPECIFICATION HistorySpec
CONSTANTS
  t1 = t1
  t2 = t2
  c1 = c1
  c2 = c2
  Node = {t1, t2}
  NULL = NULL
  List = {c1, c2}
  StartedOn <- BothAndFirst
  Half = 4
  MaxLag <- EveryTick
  MaxBehind = 1
  OneShotIntervals = {0, 3}
  RepeatIntervals = {1}
  CallbacksChange = TRUE
  CallbacksStopNext = FALSE
VIEW View
INVARIANTS
  TimerTypeOK
  RunNeverReturnsZero
  RunCountsThePending
  StopFindsTheTimer
PROPERTIES
  StoppedTimerNeverFires
  ImplementsExactTimers
  EarlyByAtMostTheLag
  StartedTimerFires
  EveryRunReturns
