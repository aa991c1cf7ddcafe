SPECIFICATION DisplaySpec
CONSTANTS
  ram = ram
  bsp = bsp
  display = display
  home = home
  settings = settings
  other = other
  Node <- Nodes
  NULL = NULL
  Stream <- Streams
  Ram = ram
  Bsp = bsp
  Key = {0, 1}
  ConfigOf <- Configs
  Entries <- TwoAndTwo
  List <- Lists
  Value = {0, 1, 2}
  Zero = 0
  RewriteInFlight = TRUE
  MaxDepth = 4
  CallbackOps = {}
  Display = {display}
  ViewKey <- KeyOfView
  InputKeys <- TwoInputs
  InputValue = {0, 1}
  View = {1, 2}
  ViewSub <- Subscriptions
  Watched = 0
  NullStored = TRUE
  StoresIn = {"load"}
  InitLate = FALSE
INVARIANTS
  DisplayTypeOK
  OneViewLoaded
  OnlyLoadedViewsHear
  ShowsTheStoredView
PROPERTIES
  NothingLeftLoaded
  InputsArrive
