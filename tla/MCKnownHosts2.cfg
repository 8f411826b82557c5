\* Two logins at a time, to two games, over a file of at most three lines.
SPECIFICATION Spec
CONSTANTS
  maze = maze
  formulaone = formulaone
  p1 = p1
  p2 = p2
  Procs = {p1, p2}
  Games = {maze, formulaone}
  NameLen <- Names1and3
  Width = 2
  Digests <- ThreeDigests
  Logins <- FourLogins
  Hole = Hole
  None = None
  MaxSize = 14
SYMMETRY Symmetric
INVARIANTS TypeOK SilentOnlyIfTrusted FirstTrustedFound AlarmOnlyIfChanged TextOfDigest
