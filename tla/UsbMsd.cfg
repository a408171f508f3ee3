SPECIFICATION Spec
CONSTANTS
  Sectors = 3
  PerErase = 2
  Buffering = 1
  MaxLength = 2
  MaxCommands = 2
  MaxGiveUps = 1
INVARIANTS
  TypeOK
  InStep
  ReadsTrue
  DiskAgrees
  NoWorkLeftBehind
PROPERTY
  EveryCommandServed
CHECK_DEADLOCK FALSE
