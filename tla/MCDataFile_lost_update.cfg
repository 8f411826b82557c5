\* Two processes that save, none killed: one save undoes the other.
SPECIFICATION Spec
CONSTANTS
  NumLevels = 3
  Unknown = Unknown
  NoPass = NoPass
  NoFile = NoFile
  NoCommand = NoCommand
  p1 = p1
  p2 = p2
  secret = secret
  Passwords = {secret}
  NumBlocks = 2
  HeadBlock <- TwoBlocksHead
  TailBlock <- TwoBlocksTail
  Procs = {p1, p2}
  Inodes = {i1, i2, i3, i4}
  Commands <- TwoWriters
INVARIANT ProgressKept
