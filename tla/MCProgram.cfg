\* One invocation at a time, none killed, from an empty directory.
SPECIFICATION ProgramSpec
CONSTANTS
  NumLevels = 3
  Unknown = Unknown
  NoPass = NoPass
  NoFile = NoFile
  NoCommand = NoCommand
  NoText = NoText
  p1 = p1
  Procs = {p1}
  Inodes = {i1, i2, i3}
  NumBlocks = 2
  HeadBlock <- TwoBlocksHead
  TailBlock <- TwoBlocksTail
  Passwords <- ThePasswords
  Natas <- TheNatas
  InitMaxlevel <- TwoGames
  Maxlevel <- TwoGames
  Lines <- TheLines
  Commands <- TheCommands
INVARIANTS TypeOK ReportIsTrue ProgressKept
PROPERTIES ImplementsStore OnlyWhatWasAsked
