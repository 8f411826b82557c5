\* Up to three keys, a null byte among them, up to three bytes and an end of file,
\* through buffers of two.
SPECIFICATION Spec
CONSTANTS
  Keys = {k, NL, NUL}
  NL = NL
  Bytes = {b, c, NUL}
  NUL = NUL
  EOF = EOF
  Junk = Junk
  LineMax = 2
  ReadMax = 2
  MaxKeys = 3
  MaxOut = 3
  MaxBoth = 4
  MaxWindow = 3
INVARIANTS TypeOK KeysInOrder ScreenInOrder EndShowsAll
PROPERTIES KeySent OutputShown
CHECK_DEADLOCK FALSE
