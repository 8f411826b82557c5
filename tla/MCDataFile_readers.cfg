\* One process that saves beside one that only loads, killed at any point.
SPECIFICATION InstalledSpec
CONSTANTS
  NumLevels = 2
  Unknown = Unknown
  NoPass = NoPass
  NoFile = NoFile
  NoCommand = NoCommand
  p1 = p1
  p2 = p2
  secret = secret
  Passwords = {secret}
  NumBlocks = 3
  HeadBlock <- ThreeBlocksHead
  TailBlock <- ThreeBlocksTail
  Procs = {p1, p2}
  Inodes = {i1, i2, i3, i4}
  Commands <- OneWriter
INVARIANTS RecordsInPlace OnlyLastBlockLost EarlyProgressKept
PROPERTIES ReadersFileStable ImplementsEarlyStore
