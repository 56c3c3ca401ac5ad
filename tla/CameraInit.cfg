\* The bound on calls ends the behaviours: no deadlock check.
SPECIFICATION Spec
CONSTANTS
  Asked = 3
  MaxGranted = 4
  MaxImage = 2
  MaxSize = 3
  MaxCalls = 4
INVARIANTS
  TypeOK
  StaticsTrue
  NothingLeaked
  ThreadHasAll
CHECK_DEADLOCK FALSE
