SPECIFICATION Spec
CONSTANTS
  r1 = r1
  r2 = r2
  Readers <- MCReaders
  BufferSize = 3
  ReadLens = {2, 3}
  MaxWrites = 7
INVARIANTS
  TypeOK
  SealedReadExact
  ReadNeverStale
PROPERTY ImplementsCrashLog
