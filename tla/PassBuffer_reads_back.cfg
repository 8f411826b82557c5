\* A shorter password stored over a longer one.
SPECIFICATION Spec
CONSTANTS
  Width = 4
  Query = Query
  NUL = NUL
  None = None
  Chars = {Query, a}
  MaxLen = 5
INVARIANT GivenReadsBack
