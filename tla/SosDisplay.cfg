\* The function returns: no deadlock check.
SPECIFICATION LedSpec
CONSTANT Framebuffers = 3
INVARIANTS
  ShowsWindow
  EndsClean
PROPERTY Ends
CHECK_DEADLOCK FALSE
