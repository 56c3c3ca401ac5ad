SPECIFICATION FairSpec
CONSTANT BufferCount = 3
INVARIANTS
  ImageStable
  ImageAnswersCall
  NeverBusy
  BuffersConserved
PROPERTIES
  ImplementsService
  RequestAnswered
  DeinitCompletes
  SnapshotReturns
