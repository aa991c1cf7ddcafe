SPECIFICATION EventSpec
CONSTANTS
  Node = {s1, s2, s3, s4}
  NULL = NULL
  List = {e1, e2}
  MaxDepth = 3
  CallbackOps = {"subscribe", "unsubscribe others"}
SYMMETRY Symmetry
INVARIANTS
  EventTypeOK
  PublishReachesAll
PROPERTIES
  OnlySubscribersCalled
  ImplementsNotifier
