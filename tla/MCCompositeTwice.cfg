SPECIFICATION CompositeFairSpec
CONSTANTS
  ram = ram
  bsp = bsp
  small = small
  large = large
  Node = {s1, s2}
  NULL = NULL
  Stream = {ram, bsp}
  Streams <- TwoStreams
  ForAll = {s1, s2}
  Key = {0, 1, 2}
  ConfigOf <- Configs
  Entries <- Overlapping
  List <- Lists
  Value = {0, 1}
  Zero = 0
  MaxDepth = 1
  CallbackOps = {}
  RewriteInFlight = FALSE
PROPERTY EachCalledOnce
