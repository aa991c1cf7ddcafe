SPECIFICATION QueueSpec
CONSTANTS
  Node = {n1, n2, n3}
  NULL = NULL
  List = {q1, q2}
  SizeMod = 4
INVARIANTS
  ListsWellFormed
  QueueTypeOK
  SizeIsLength
PROPERTIES
  ImplementsFifo
  ImplementsAbstractLists
