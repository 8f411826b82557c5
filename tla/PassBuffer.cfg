\* A field of four bytes; strings shorter than it, as long as it holds, and longer.
SPECIFICATION Spec
CONSTANTS
  Width = 4
  Query = Query
  NUL = NUL
  None = None
  Chars = {Query, a}
  MaxLen = 5
INVARIANTS TypeOK Terminated GivenKept
