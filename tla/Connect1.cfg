\* One login with two resizes and any number of SIGTERMs; it ends, so the system stops.
SPECIFICATION Spec
CONSTANT
  MaxResizes = 2
INVARIANTS TypeOK WindowKnown TerminalRestored FreedOnce AskedAfterSaved
PROPERTIES ResizeArrives RemoteCloseEnds
CHECK_DEADLOCK FALSE
