\* A typed password the server accepts.
SPECIFICATION Spec
CONSTANTS
  Width = 4
  Query = Query
  NUL = NUL
  None = None
  Chars = {Query, a}
  MaxLen = 5
INVARIANT AcceptedIsStored
