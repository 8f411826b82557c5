\* Logins one after another; a process may end in store_pass.
SPECIFICATION Spec
CONSTANT
  Settings = {"cooked", "noecho"}
INVARIANTS TypeOK StdinKept TerminalKeptByShell
PROPERTY ReleasesInOrder
