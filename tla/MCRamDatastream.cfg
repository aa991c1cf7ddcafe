SPECIFICATION RamSpec
CONSTANTS
  small = small
  large = large
  one = one
  two = two
  Node = {s1, s2, s3}
  NULL = NULL
  Stream = {small, large}
  Key = {0, 1}
  ConfigOf <- OwnConfig
  Entries <- OneAndTwoEntries
  List <- Lists
  Value = {0, 1}
  Zero = 0
  MaxDepth = 2
  CallbackOps = {"subscribe", "unsubscribe others"}
  RewriteInFlight = FALSE
SYMMETRY Symmetry
INVARIANTS
  RamTypeOK
  HeardIsCurrent
PROPERTIES
  ImplementsWatchedStores
  UnsubscribeIsComplete
  InitStartsAfresh
