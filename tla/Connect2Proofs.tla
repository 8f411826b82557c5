--------------------------- MODULE Connect2Proofs ---------------------------
(***************************************************************************)
(* Theorems about Connect2, for any settings a terminal may have and any   *)
(* number of logins.                                                       *)
(***************************************************************************)
EXTENDS Connect2, TLAPS

BeforeFlags == {"socket", "connect", "session", "handshake", "auth", "channel",
                "sockflags", "stdinflags"}
BeforeRaw   == BeforeFlags \cup {"pty", "raw"}
Undoing     == {"shutdown", "session_down", "sock_down", "restore"}

\* Where stdin's flags at the start of the login are to be found.
FlagsAtHand ==
  /\ pc \in {"idle", "lib_down"} => flags = start[2]
  /\ pc \in BeforeFlags => flags = start[2] /\ termchanged = FALSE
  /\ pc \in {"pty", "raw", "loop"} => old_flags = start[2] /\ termchanged = TRUE
  /\ pc \in Undoing => IF termchanged THEN old_flags = start[2] ELSE flags = start[2]

\* Where the terminal's settings are, once the login has reached the shell.
SettingsAtHand ==
  /\ pc \in BeforeRaw => tty = start[1] /\ shell = FALSE
  /\ pc \in Undoing \cup {"loop"} /\ shell =>
       termchanged = TRUE /\ oldtc = start[1] /\ oldtc # "unset"
  /\ pc \in {"idle", "lib_down"} /\ shell => tty = start[1]

Inv == TypeOK /\ FlagsAtHand /\ SettingsAtHand

\* The types that are not BOOLEAN, and the others.
Words ==
  /\ pc \in {"idle", "socket", "connect", "session", "handshake", "auth", "channel",
             "sockflags", "stdinflags", "pty", "raw", "loop"} \cup ShutdownLabels
  /\ tty \in Settings \cup {"raw", "junk"}
  /\ oldtc \in Settings \cup {"raw", "junk", "unset"}

Flags ==
  /\ lib \in BOOLEAN /\ sock \in BOOLEAN /\ session \in BOOLEAN /\ channel \in BOOLEAN
  /\ flags \in BOOLEAN /\ old_flags \in BOOLEAN /\ termchanged \in BOOLEAN
  /\ shell \in BOOLEAN

LEMMA InitInv == Init => Inv
PROOF
  <1> SUFFICES ASSUME Init PROVE Inv
    OBVIOUS
  <1>1. Words
    BY DEF Init, Words
  <1>2. Flags
    BY Zenon DEF Init, Flags
  <1>3. start \in (Settings \cup {"raw", "junk"}) \X BOOLEAN
    <2>1. start = <<tty, flags>>
      BY DEF Init
    <2> QED BY <1>1, <1>2, <2>1, Zenon DEF Words, Flags
  <1>4. TypeOK
    BY <1>1, <1>2, <1>3, Zenon DEF Words, Flags, TypeOK
  <1>5. FlagsAtHand /\ SettingsAtHand
    BY DEF Init, FlagsAtHand, SettingsAtHand,
           BeforeFlags, BeforeRaw, Undoing
  <1> QED BY <1>4, <1>5 DEF Inv

LEMMA TypeStep == TypeOK /\ [Next]_vars => TypeOK'
PROOF
  <1> SUFFICES ASSUME TypeOK, [Next]_vars PROVE TypeOK'
    OBVIOUS
  <1>1. Words /\ Flags
    BY DEF TypeOK, Words, Flags
  <1>2. Words'
    <2> USE <1>1 DEF Words, Goto, ShutdownLabels
    <2>1. CASE LibInit
      BY <2>1 DEF LibInit, local
    <2>2. CASE Socket
      BY <2>2 DEF Socket, local
    <2>3. CASE Connect
      BY <2>3 DEF Connect, local
    <2>4. CASE SessionInit
      BY <2>4 DEF SessionInit, local
    <2>5. CASE Negotiate
      BY <2>5 DEF Negotiate, local
    <2>6. CASE Accepted
      BY <2>6 DEF Accepted, local
    <2>7. CASE Refused
      BY <2>7 DEF Refused, local
    <2>8. CASE StoreExits
      BY <2>8 DEF StoreExits, local
    <2>9. CASE ChannelOpen
      BY <2>9 DEF ChannelOpen, local
    <2>10. CASE SocketNonBlocking
      BY <2>10 DEF SocketNonBlocking, local
    <2>11. CASE StdinNonBlocking
      BY <2>11 DEF StdinNonBlocking, local
    <2>12. CASE RequestShell
      BY <2>12 DEF RequestShell, local
    <2>13. CASE RawMode
      BY <2>13 DEF RawMode, local
    <2>14. CASE LoopEnds
      BY <2>14 DEF LoopEnds, local
    <2>15. CASE ChannelDown
      BY <2>15 DEF ChannelDown, local
    <2>16. CASE SessionDown
      BY <2>16 DEF SessionDown, local
    <2>17. CASE SocketDown
      BY <2>17 DEF SocketDown, local
    <2>18. CASE RestoreTerminal
      BY <2>18 DEF RestoreTerminal, local
    <2>19. CASE LibDown
      BY <2>19 DEF LibDown, local
    <2>20. CASE UNCHANGED vars
      BY <2>20 DEF vars, local
    <2> QED
      BY <2>1, <2>2, <2>3, <2>4, <2>5, <2>6, <2>7, <2>8, <2>9, <2>10,
         <2>11, <2>12, <2>13, <2>14, <2>15, <2>16, <2>17, <2>18, <2>19, <2>20
         DEF Next, Login, Shutdown
  <1>3. Flags'
    <2> USE <1>1 DEF Flags, held, local, history
    <2>1. CASE LibInit
      BY <2>1, Zenon DEF LibInit
    <2>2. CASE Socket
      BY <2>2, Zenon DEF Socket
    <2>3. CASE Connect
      BY <2>3, Zenon DEF Connect
    <2>4. CASE SessionInit
      BY <2>4, Zenon DEF SessionInit
    <2>5. CASE Negotiate
      BY <2>5, Zenon DEF Negotiate
    <2>6. CASE Accepted
      BY <2>6, Zenon DEF Accepted
    <2>7. CASE Refused
      BY <2>7, Zenon DEF Refused
    <2>8. CASE StoreExits
      BY <2>8, Zenon DEF StoreExits
    <2>9. CASE ChannelOpen
      BY <2>9, Zenon DEF ChannelOpen
    <2>10. CASE SocketNonBlocking
      BY <2>10, Zenon DEF SocketNonBlocking
    <2>11. CASE StdinNonBlocking
      BY <2>11, Zenon DEF StdinNonBlocking
    <2>12. CASE RequestShell
      BY <2>12, Zenon DEF RequestShell
    <2>13. CASE RawMode
      BY <2>13, Zenon DEF RawMode
    <2>14. CASE LoopEnds
      BY <2>14, Zenon DEF LoopEnds
    <2>15. CASE ChannelDown
      BY <2>15, Zenon DEF ChannelDown
    <2>16. CASE SessionDown
      BY <2>16, Zenon DEF SessionDown
    <2>17. CASE SocketDown
      BY <2>17, Zenon DEF SocketDown
    <2>18. CASE RestoreTerminal
      BY <2>18, Zenon DEF RestoreTerminal
    <2>19. CASE LibDown
      BY <2>19, Zenon DEF LibDown
    <2>20. CASE UNCHANGED vars
      BY <2>20, Zenon DEF vars
    <2> QED
      BY <2>1, <2>2, <2>3, <2>4, <2>5, <2>6, <2>7, <2>8, <2>9, <2>10,
         <2>11, <2>12, <2>13, <2>14, <2>15, <2>16, <2>17, <2>18, <2>19, <2>20
         DEF Next, Login, Shutdown
  <1>4. start' \in (Settings \cup {"raw", "junk"}) \X BOOLEAN
    <2>1. LibInit \/ UNCHANGED start
      BY DEF Next, Login, Shutdown, vars, history, Socket, Connect, SessionInit, Negotiate,
             Accepted, Refused, StoreExits, ChannelOpen, SocketNonBlocking,
             StdinNonBlocking, RequestShell, RawMode, LoopEnds, ChannelDown,
             SessionDown, SocketDown, RestoreTerminal, LibDown
    <2>2. tty \in Settings \cup {"raw", "junk"} /\ flags \in BOOLEAN
      BY Zenon DEF TypeOK
    <2>3. CASE LibInit
      <3>1. start' = <<tty, flags>>
        BY <2>3 DEF LibInit
      <3> QED BY <2>2, <3>1, Zenon
    <2>4. CASE UNCHANGED start
      BY <2>4 DEF TypeOK
    <2> QED BY <2>1, <2>3, <2>4
  <1> QED
    BY <1>2, <1>3, <1>4, Zenon DEF Words, Flags, TypeOK

LEMMA StepInv == Inv /\ [Next]_vars => Inv'
PROOF
  <1> SUFFICES ASSUME Inv, [Next]_vars PROVE Inv'
    OBVIOUS
  <1>0. TypeOK'
    BY TypeStep DEF Inv
  <1> USE DEF Inv, FlagsAtHand, SettingsAtHand,
              Goto, BeforeFlags, BeforeRaw, Undoing, held, local, history
  <1>1. CASE LibInit
    BY <1>0, <1>1 DEF LibInit
  <1>2. CASE Socket \/ Connect \/ SessionInit \/ Negotiate
    BY <1>0, <1>2 DEF Socket, Connect, SessionInit, Negotiate
  <1>3. CASE Accepted
    BY <1>0, <1>3 DEF Accepted
  <1>4. CASE Refused \/ StoreExits
    BY <1>0, <1>4 DEF Refused, StoreExits
  <1>5. CASE ChannelOpen \/ SocketNonBlocking
    BY <1>0, <1>5 DEF ChannelOpen, SocketNonBlocking
  <1>6. CASE StdinNonBlocking
    BY <1>0, <1>6 DEF StdinNonBlocking
  <1>7. CASE RequestShell \/ LoopEnds
    BY <1>0, <1>7 DEF RequestShell, LoopEnds
  <1>8. CASE RawMode
    \* start[1] is a setting: it is not the mark of a variable nobody assigned.
    <2>1. tty # "unset"
      BY SettingsAssumption DEF TypeOK
    <2> QED BY <1>0, <1>8, <2>1 DEF RawMode
  <1>9. CASE ChannelDown \/ SessionDown \/ SocketDown
    BY <1>0, <1>9 DEF ChannelDown, SessionDown, SocketDown
  <1>10. CASE RestoreTerminal
    BY <1>0, <1>10 DEF RestoreTerminal
  <1>11. CASE LibDown
    BY <1>0, <1>11 DEF LibDown
  <1>12. CASE UNCHANGED vars
    BY <1>0, <1>12 DEF vars
  <1> QED
    BY <1>1, <1>2, <1>3, <1>4, <1>5, <1>6, <1>7, <1>8, <1>9, <1>10, <1>11, <1>12
       DEF Next, Login, Shutdown

LEMMA Invariance == Spec => []Inv
PROOF
  BY InitInv, StepInv, PTL DEF Spec

(***************************************************************************)
(* Every variable of a login keeps its type.                               *)
(***************************************************************************)
THEOREM TypeCorrect == Spec => []TypeOK
PROOF
  <1>1. Inv => TypeOK
    BY DEF Inv
  <1> QED BY <1>1, Invariance, PTL

(***************************************************************************)
(* Whichever call fails, stdin is blocking or not after the login as it    *)
(* was before: termchanged tells where its flags are to be found.          *)
(***************************************************************************)
THEOREM StdinAlwaysKept == Spec => []StdinKept
PROOF
  <1>1. Inv => StdinKept
    BY DEF Inv, FlagsAtHand, StdinKept
  <1> QED BY <1>1, Invariance, PTL

(***************************************************************************)
(* A login that reached the remote shell restores the terminal.            *)
(***************************************************************************)
THEOREM TerminalAlwaysKept == Spec => []TerminalKeptByShell
PROOF
  <1>1. Inv => TerminalKeptByShell
    BY DEF Inv, SettingsAtHand, TerminalKeptByShell
  <1> QED BY <1>1, Invariance, PTL

-----------------------------------------------------------------------------
(* What a login holds *)

Opened  == {"connect", "session"}
Started == {"handshake", "auth", "channel"}
Through == {"sockflags", "stdinflags", "pty", "raw", "loop"}

\* Each thing is held on top of the one before it, and each label of the
\* function is reached with a prefix of them.
Nested ==
  /\ channel = TRUE => session = TRUE
  /\ session = TRUE => sock = TRUE
  /\ sock = TRUE => lib = TRUE
  /\ lib = TRUE <=> pc # "idle"
  /\ pc \in {"socket", "restore", "lib_down"} => sock # TRUE
  /\ pc \in Opened => sock = TRUE /\ session # TRUE
  /\ pc \in Started => session = TRUE /\ channel # TRUE
  /\ pc \in Through => channel = TRUE
  /\ pc = "session_down" => channel # TRUE
  /\ pc = "sock_down" => session # TRUE

LEMMA NestedInit == Init => Nested
PROOF
  BY DEF Init, Nested, Opened, Started, Through

LEMMA NestedStep == Nested /\ [Next]_vars => Nested'
PROOF
  <1> SUFFICES ASSUME Nested, [Next]_vars PROVE Nested'
    OBVIOUS
  <1> USE DEF Nested, Opened, Started, Through, Goto, held
  <1>1. CASE LibInit \/ Socket \/ Connect \/ SessionInit \/ Negotiate
    BY <1>1 DEF LibInit, Socket, Connect, SessionInit, Negotiate
  <1>2. CASE Accepted \/ Refused \/ StoreExits
    BY <1>2 DEF Accepted, Refused, StoreExits
  <1>3. CASE ChannelOpen \/ SocketNonBlocking \/ StdinNonBlocking \/ RequestShell
    BY <1>3 DEF ChannelOpen, SocketNonBlocking, StdinNonBlocking, RequestShell
  <1>4. CASE RawMode \/ LoopEnds
    BY <1>4 DEF RawMode, LoopEnds
  <1>5. CASE ChannelDown \/ SessionDown \/ SocketDown \/ RestoreTerminal \/ LibDown
    BY <1>5 DEF ChannelDown, SessionDown, SocketDown, RestoreTerminal, LibDown
  <1>6. CASE UNCHANGED vars
    BY <1>6 DEF vars
  <1> QED
    BY <1>1, <1>2, <1>3, <1>4, <1>5, <1>6 DEF Next, Login, Shutdown

\* A step of a login is a step of the stack of things it holds, or none.
LEMMA StackStep == Nested /\ [Next]_vars => [Stack!Next]_(Stack!vars)
PROOF
  <1> SUFFICES ASSUME Nested, [Next]_vars PROVE [Stack!Next]_(Stack!vars)
    OBVIOUS
  <1>0. Nested'
    BY NestedStep
  <1> USE <1>0 DEF Nested, Opened, Started, Through, Goto, held, ShutdownLabels,
          Stack!Next, Stack!Acquire, Stack!Close, Stack!Release, Stack!Vanish, Stack!vars
  <1>1. CASE LibInit
    BY <1>1 DEF LibInit
  <1>2. CASE Socket \/ Connect
    BY <1>2 DEF Socket, Connect
  <1>3. CASE SessionInit \/ Negotiate
    BY <1>3 DEF SessionInit, Negotiate
  <1>4. CASE Accepted \/ Refused \/ StoreExits
    BY <1>4 DEF Accepted, Refused, StoreExits
  <1>5. CASE ChannelOpen \/ SocketNonBlocking
    BY <1>5 DEF ChannelOpen, SocketNonBlocking
  <1>6. CASE StdinNonBlocking \/ RequestShell \/ RawMode \/ LoopEnds
    BY <1>6 DEF StdinNonBlocking, RequestShell, RawMode, LoopEnds
  <1>7. CASE ChannelDown
    BY <1>7 DEF ChannelDown
  <1>8. CASE SessionDown
    BY <1>8 DEF SessionDown
  <1>9. CASE SocketDown
    BY <1>9 DEF SocketDown
  <1>10. CASE RestoreTerminal
    BY <1>10 DEF RestoreTerminal
  <1>11. CASE LibDown
    BY <1>11 DEF LibDown
  <1>12. CASE UNCHANGED vars
    BY <1>12 DEF vars
  <1> QED
    BY <1>1, <1>2, <1>3, <1>4, <1>5, <1>6, <1>7, <1>8, <1>9, <1>10, <1>11, <1>12
       DEF Next, Login, Shutdown

(***************************************************************************)
(* The safety half of ReleasesInOrder: whatever fails, what was acquired   *)
(* is released last first, and all of it before the next login.            *)
(***************************************************************************)
THEOREM ImplementsStack == Spec => Stack!Init /\ [][Stack!Next]_(Stack!vars)
PROOF
  <1>1. Init => Stack!Init
    BY DEF Init, Stack!Init, ShutdownLabels
  <1> QED BY <1>1, NestedInit, NestedStep, StackStep, PTL DEF Spec
=============================================================================
