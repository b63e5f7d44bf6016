SPECIFICATION FairSpec
CONSTANTS
  BufSize <- MCBufSize
  MaxInput <- MCMaxInput
  MaxFeed <- MCMaxFeed
  None = None
INVARIANTS
  TypeOK
  NoByteLost
PROPERTIES
  ImplementsFifo
  HeldKeyAccepted
