\* A login that fails before the terminal settings are saved.
SPECIFICATION Spec
CONSTANT
  Settings = {"cooked", "noecho"}
INVARIANT TerminalRestored
