SPECIFICATION EventFairSpec
CONSTANTS
  Node = {s1, s2, s3}
  NULL = NULL
  List = {e1, e2}
  MaxDepth = 1
  CallbackOps = {"unsubscribe itself", "resubscribe itself", "unsubscribe others"}
PROPERTY EveryPublishReturns
