--------------------------- MODULE Connect1Proofs ---------------------------
(***************************************************************************)
(* Theorems about Connect1, for any number of resizes and of SIGTERMs.     *)
(***************************************************************************)
EXTENDS Connect1, TLAPS

Asking   == {"ssh_init", "ssh_new", "connect", "verify", "auth", "channel", "save"}
Setup    == {"ioctl", "pty", "shell", "raw"}
Session  == Setup \cup {"setsignal", "reset", "down"} \cup LoopLabels
Leaving  == {"disconnect", "finalize", "returned"}

\* The settings of the terminal are in the variable terminal from shell on, and
\* in the terminal itself whenever it is not raw.
SettingsAtHand ==
  /\ tty \in {"original", "raw", "zero"} /\ terminal \in {"original", "zero"}
  /\ pc \in Asking => terminal = "zero" /\ tty # "raw"
  /\ pc \in Asking \cup Setup \cup Leaving => early = TRUE \/ tty = "original"
  /\ pc \in Session => early = TRUE \/ terminal = "original"

\* A session that was connected is freed on the way out and nowhere else.
Freed ==
  /\ pc \in {"ssh_init", "ssh_new", "connect"} => connected = FALSE /\ frees = 0
  /\ pc \in {"verify", "auth", "channel", "save"} \cup Session => frees = 0
  /\ pc = "disconnect" /\ connected = TRUE => frees = 0
  /\ pc \in {"finalize", "returned"} /\ connected = TRUE => frees = 1
  /\ pc = "returned" /\ connected = TRUE => lib = FALSE

\* Between a change of the size and the loop's next look at it the size is on its
\* way to the server, or remembered, or lost.
SizeOnItsWay ==
  /\ pc \in {"pty", "change_size"} => win = size \/ lost = TRUE
  /\ pc \in {"shell", "raw", "setsignal", "reset", "resetsignal", "rereset"} =>
       remote = size \/ lost = TRUE
  /\ pc \in {"reset"} \cup LoopLabels => winch = TRUE
  /\ pc \in {"loop", "poll"} => remote = size \/ delayed = TRUE \/ lost = TRUE

\* Each attempt was a prompt, but for the first of them when a password is saved.
Asked ==
  /\ tries \in 0..3
  /\ pc \in {"ssh_init", "ssh_new", "connect", "verify"} => tries = 0 /\ prompts = 0
  /\ pc = "auth" =>
       tries < 3 /\ prompts = IF saved /\ tries > 0 THEN tries - 1 ELSE tries
  /\ tries = 3 => prompts = IF saved THEN 2 ELSE 3

-----------------------------------------------------------------------------
LEMMA SettingsAtHandInit == Init => SettingsAtHand
PROOF
  BY DEF Init, SettingsAtHand, Asking, Setup, Session, Leaving, LoopLabels

LEMMA SettingsAtHandStep == SettingsAtHand /\ [Next]_vars => SettingsAtHand'
PROOF
  <1> SUFFICES ASSUME SettingsAtHand, [Next]_vars PROVE SettingsAtHand'
    OBVIOUS
  <1> USE DEF SettingsAtHand, Asking, Setup, Session, Leaving, LoopLabels,
          Goto, resources, terms, window, auth, history
  <1>1. CASE SshInit \/ SshNew
    BY <1>1 DEF SshInit, SshNew
  <1>2. CASE Disconnect \/ Finalize
    BY <1>2 DEF Disconnect, Finalize
  <1>3. CASE SshConnect \/ VerifyKnownHost
    BY <1>3 DEF SshConnect, VerifyKnownHost
  <1>4. CASE Attempt \/ NoPassword
    BY <1>4 DEF Attempt, NoPassword
  <1>5. CASE ChannelOpen \/ SaveTerminal
    BY <1>5 DEF ChannelOpen, SaveTerminal
  <1>6. CASE RequestPty
    BY <1>6 DEF RequestPty
  <1>7. CASE RequestShell \/ RawMode
    BY <1>7 DEF RequestShell, RawMode
  <1>8. CASE LoopTop \/ Poll
    BY <1>8 DEF LoopTop, Poll
  <1>9. CASE ReadSize \/ ChangeSize
    BY <1>9 DEF ReadSize, ChangeSize
  <1>10. CASE SetSignal \/ ResetDelayed
    BY <1>10 DEF SetSignal, ResetDelayed
  <1>11. CASE ShellEnds \/ RemoteCloses
    BY <1>11 DEF ShellEnds, RemoteCloses
  <1>12. CASE Resize
    BY <1>12 DEF Resize
  <1>13. CASE SigTerm
    BY <1>13 DEF SigTerm
  <1>14. CASE UNCHANGED vars
    BY <1>14 DEF vars
  <1> QED
    BY <1>1, <1>2, <1>3, <1>4, <1>5, <1>6, <1>7, <1>8, <1>9,
       <1>10, <1>11, <1>12, <1>13, <1>14
       DEF Next, Program, SelectLoop

(***************************************************************************)
(* Whatever fails and whenever a SIGTERM comes after the settings were     *)
(* saved, the terminal is left as it was found.                            *)
(***************************************************************************)
THEOREM TerminalAlwaysRestored == Spec => []TerminalRestored
PROOF
  <1>1. SettingsAtHand => TerminalRestored
    BY DEF SettingsAtHand, TerminalRestored, Leaving
  <1> QED BY <1>1, SettingsAtHandInit, SettingsAtHandStep, PTL DEF Spec

-----------------------------------------------------------------------------
LEMMA FreedInit == Init => Freed
PROOF
  BY DEF Init, Freed, Setup, Session, LoopLabels

LEMMA FreedStep == Freed /\ [Next]_vars => Freed'
PROOF
  <1> SUFFICES ASSUME Freed, [Next]_vars PROVE Freed'
    OBVIOUS
  <1> USE DEF Freed, Setup, Session, LoopLabels,
          Goto, resources, terms, window, auth, history
  <1>1. CASE SshInit \/ SshNew
    BY <1>1 DEF SshInit, SshNew
  <1>2. CASE Disconnect \/ Finalize
    BY <1>2 DEF Disconnect, Finalize
  <1>3. CASE SshConnect \/ VerifyKnownHost
    BY <1>3 DEF SshConnect, VerifyKnownHost
  <1>4. CASE Attempt \/ NoPassword
    BY <1>4 DEF Attempt, NoPassword
  <1>5. CASE ChannelOpen \/ SaveTerminal
    BY <1>5 DEF ChannelOpen, SaveTerminal
  <1>6. CASE RequestPty
    BY <1>6 DEF RequestPty
  <1>7. CASE RequestShell \/ RawMode
    BY <1>7 DEF RequestShell, RawMode
  <1>8. CASE LoopTop \/ Poll
    BY <1>8 DEF LoopTop, Poll
  <1>9. CASE ReadSize \/ ChangeSize
    BY <1>9 DEF ReadSize, ChangeSize
  <1>10. CASE SetSignal \/ ResetDelayed
    BY <1>10 DEF SetSignal, ResetDelayed
  <1>11. CASE ShellEnds \/ RemoteCloses
    BY <1>11 DEF ShellEnds, RemoteCloses
  <1>12. CASE Resize
    BY <1>12 DEF Resize
  <1>13. CASE SigTerm
    BY <1>13 DEF SigTerm
  <1>14. CASE UNCHANGED vars
    BY <1>14 DEF vars
  <1> QED
    BY <1>1, <1>2, <1>3, <1>4, <1>5, <1>6, <1>7, <1>8, <1>9,
       <1>10, <1>11, <1>12, <1>13, <1>14
       DEF Next, Program, SelectLoop

(***************************************************************************)
(* A session that was connected is freed exactly once and the library      *)
(* finalized, whichever return client and shell took.                      *)
(***************************************************************************)
THEOREM AlwaysFreedOnce == Spec => []FreedOnce
PROOF
  <1>1. Freed => FreedOnce
    BY DEF Freed, FreedOnce
  <1> QED BY <1>1, FreedInit, FreedStep, PTL DEF Spec

-----------------------------------------------------------------------------
LEMMA SizeOnItsWayInit == Init => SizeOnItsWay
PROOF
  BY DEF Init, SizeOnItsWay, LoopLabels

LEMMA SizeOnItsWayStep == SizeOnItsWay /\ [Next]_vars => SizeOnItsWay'
PROOF
  <1> SUFFICES ASSUME SizeOnItsWay, [Next]_vars PROVE SizeOnItsWay'
    OBVIOUS
  <1> USE DEF SizeOnItsWay, LoopLabels,
          Goto, resources, terms, window, auth, history
  <1>1. CASE SshInit \/ SshNew
    BY <1>1 DEF SshInit, SshNew
  <1>2. CASE Disconnect \/ Finalize
    BY <1>2 DEF Disconnect, Finalize
  <1>3. CASE SshConnect \/ VerifyKnownHost
    BY <1>3 DEF SshConnect, VerifyKnownHost
  <1>4. CASE Attempt \/ NoPassword
    BY <1>4 DEF Attempt, NoPassword
  <1>5. CASE ChannelOpen \/ SaveTerminal
    BY <1>5 DEF ChannelOpen, SaveTerminal
  <1>6. CASE RequestPty
    BY <1>6 DEF RequestPty
  <1>7. CASE RequestShell \/ RawMode
    BY <1>7 DEF RequestShell, RawMode
  <1>8. CASE LoopTop \/ Poll
    BY <1>8 DEF LoopTop, Poll
  <1>9. CASE ReadSize \/ ChangeSize
    BY <1>9 DEF ReadSize, ChangeSize
  <1>10. CASE SetSignal \/ ResetDelayed
    BY <1>10 DEF SetSignal, ResetDelayed
  <1>11. CASE ShellEnds \/ RemoteCloses
    BY <1>11 DEF ShellEnds, RemoteCloses
  <1>12. CASE Resize
    BY <1>12 DEF Resize
  <1>13. CASE SigTerm
    BY <1>13 DEF SigTerm
  <1>14. CASE UNCHANGED vars
    BY <1>14 DEF vars
  <1> QED
    BY <1>1, <1>2, <1>3, <1>4, <1>5, <1>6, <1>7, <1>8, <1>9,
       <1>10, <1>11, <1>12, <1>13, <1>14
       DEF Next, Program, SelectLoop

(***************************************************************************)
(* Before it waits the loop has told the server the size of the window,    *)
(* or remembers that it has not, or the resize was one that gets lost.     *)
(***************************************************************************)
THEOREM WindowAlwaysKnown == Spec => []WindowKnown
PROOF
  <1>1. SizeOnItsWay => WindowKnown
    BY DEF SizeOnItsWay, WindowKnown
  <1> QED BY <1>1, SizeOnItsWayInit, SizeOnItsWayStep, PTL DEF Spec

-----------------------------------------------------------------------------
LEMMA AskedInit == Init => Asked
PROOF
  BY DEF Init, Asked

LEMMA AskedStep == Asked /\ [Next]_vars => Asked'
PROOF
  <1> SUFFICES ASSUME Asked, [Next]_vars PROVE Asked'
    OBVIOUS
  <1> USE DEF Asked,
          Goto, resources, terms, window, auth, history
  <1>1. CASE SshInit \/ SshNew
    BY <1>1 DEF SshInit, SshNew
  <1>2. CASE Disconnect \/ Finalize
    BY <1>2 DEF Disconnect, Finalize
  <1>3. CASE SshConnect \/ VerifyKnownHost
    BY <1>3 DEF SshConnect, VerifyKnownHost
  <1>4. CASE Attempt \/ NoPassword
    BY <1>4 DEF Attempt, NoPassword
  <1>5. CASE ChannelOpen \/ SaveTerminal
    BY <1>5 DEF ChannelOpen, SaveTerminal
  <1>6. CASE RequestPty
    BY <1>6 DEF RequestPty
  <1>7. CASE RequestShell \/ RawMode
    BY <1>7 DEF RequestShell, RawMode
  <1>8. CASE LoopTop \/ Poll
    BY <1>8 DEF LoopTop, Poll
  <1>9. CASE ReadSize \/ ChangeSize
    BY <1>9 DEF ReadSize, ChangeSize
  <1>10. CASE SetSignal \/ ResetDelayed
    BY <1>10 DEF SetSignal, ResetDelayed
  <1>11. CASE ShellEnds \/ RemoteCloses
    BY <1>11 DEF ShellEnds, RemoteCloses
  <1>12. CASE Resize
    BY <1>12 DEF Resize
  <1>13. CASE SigTerm
    BY <1>13 DEF SigTerm
  <1>14. CASE UNCHANGED vars
    BY <1>14 DEF vars
  <1> QED
    BY <1>1, <1>2, <1>3, <1>4, <1>5, <1>6, <1>7, <1>8, <1>9,
       <1>10, <1>11, <1>12, <1>13, <1>14
       DEF Next, Program, SelectLoop

(***************************************************************************)
(* When three attempts have failed the user was asked three times, or      *)
(* twice after a saved password.                                           *)
(***************************************************************************)
THEOREM AlwaysAsked == Spec => []AskedAfterSaved
PROOF
  <1>1. Asked => AskedAfterSaved
    BY DEF Asked, AskedAfterSaved
  <1> QED BY <1>1, AskedInit, AskedStep, PTL DEF Spec

-----------------------------------------------------------------------------
Flags ==
  /\ lib \in BOOLEAN /\ channel \in BOOLEAN /\ open \in BOOLEAN
  /\ handler \in BOOLEAN /\ winch \in BOOLEAN /\ delayed \in BOOLEAN
  /\ saved \in BOOLEAN /\ connected \in BOOLEAN /\ early \in BOOLEAN /\ lost \in BOOLEAN

\* libssh_connect and client free the session twice at most.
Numbers ==
  /\ pc \in Asking \cup Session \cup Leaving \cup {"killed"}
  /\ session \in {"null", "live", "freed"}
  /\ size \in 0..MaxResizes /\ win \in 0..MaxResizes /\ remote \in 0..MaxResizes
  /\ frees \in 0..2 /\ prompts \in 0..3
  /\ pc \in Asking \cup Session => frees = 0
  /\ pc = "disconnect" => frees < 2

LEMMA FlagsInit == Init => Flags
PROOF
  BY DEF Init, Flags

LEMMA FlagsStep == Flags /\ [Next]_vars => Flags'
PROOF
  <1> SUFFICES ASSUME Flags, [Next]_vars PROVE Flags'
    OBVIOUS
  <1> USE DEF Flags, Goto, resources, terms, window, auth, history
  <1>1. CASE SshInit \/ SshNew
    BY <1>1, Zenon DEF SshInit, SshNew
  <1>2. CASE Disconnect \/ Finalize
    BY <1>2, Zenon DEF Disconnect, Finalize
  <1>3. CASE SshConnect \/ VerifyKnownHost
    BY <1>3, Zenon DEF SshConnect, VerifyKnownHost
  <1>4. CASE Attempt \/ NoPassword
    BY <1>4, Zenon DEF Attempt, NoPassword
  <1>5. CASE ChannelOpen \/ SaveTerminal
    BY <1>5, Zenon DEF ChannelOpen, SaveTerminal
  <1>6. CASE RequestPty
    BY <1>6, Zenon DEF RequestPty
  <1>7. CASE RequestShell \/ RawMode
    BY <1>7, Zenon DEF RequestShell, RawMode
  <1>8. CASE LoopTop \/ Poll
    BY <1>8, Zenon DEF LoopTop, Poll
  <1>9. CASE ReadSize \/ ChangeSize
    BY <1>9, Zenon DEF ReadSize, ChangeSize
  <1>10. CASE SetSignal \/ ResetDelayed
    BY <1>10, Zenon DEF SetSignal, ResetDelayed
  <1>11. CASE ShellEnds \/ RemoteCloses
    BY <1>11, Zenon DEF ShellEnds, RemoteCloses
  <1>12. CASE Resize
    <2>1. delayed' = (delayed \/ winch) /\ delayed' \in BOOLEAN
      BY <1>12, Zenon DEF Resize
    <2>2. lost' \in BOOLEAN
      <3> DEFINE Untold == {"pty", "shell", "raw", "setsignal", "reset",
                            "change_size", "resetsignal", "rereset"}
      <3>1. lost' = (pc \in Untold)
        BY <1>12, Zenon DEF Resize
      <3> HIDE DEF Untold
      <3>2. (pc \in Untold) \in BOOLEAN
        OBVIOUS
      <3> QED BY <3>1, <3>2
    <2> QED BY <1>12, <2>1, <2>2, Zenon DEF Resize
  <1>13. CASE SigTerm
    BY <1>13, Zenon DEF SigTerm
  <1>14. CASE UNCHANGED vars
    BY <1>14, Zenon DEF vars
  <1> QED
    BY <1>1, <1>2, <1>3, <1>4, <1>5, <1>6, <1>7, <1>8, <1>9,
       <1>10, <1>11, <1>12, <1>13, <1>14
       DEF Next, Program, SelectLoop

LEMMA NumbersInit == Init => Numbers
PROOF
  BY ResizesAssumption DEF Init, Numbers, Asking, Setup, Session, Leaving, LoopLabels

LEMMA NumbersStep == Numbers /\ Asked /\ Flags /\ [Next]_vars => Numbers'
PROOF
  <1> SUFFICES ASSUME Numbers, Asked, Flags, [Next]_vars PROVE Numbers'
    OBVIOUS
  <1> USE ResizesAssumption
      DEF Numbers, Asking, Setup, Session, Leaving, LoopLabels,
          Goto, resources, terms, window, auth, history
  <1>1. CASE SshInit \/ SshNew
    BY <1>1 DEF SshInit, SshNew
  <1>2. CASE Disconnect \/ Finalize
    BY <1>2 DEF Disconnect, Finalize
  <1>3. CASE SshConnect \/ VerifyKnownHost
    BY <1>3 DEF SshConnect, VerifyKnownHost
  <1>4. CASE Attempt \/ NoPassword
    BY <1>4 DEF Asked, Flags, Attempt, NoPassword
  <1>5. CASE ChannelOpen \/ SaveTerminal
    BY <1>5 DEF ChannelOpen, SaveTerminal
  <1>6. CASE RequestPty
    BY <1>6 DEF RequestPty
  <1>7. CASE RequestShell \/ RawMode
    BY <1>7 DEF RequestShell, RawMode
  <1>8. CASE LoopTop \/ Poll
    BY <1>8 DEF LoopTop, Poll
  <1>9. CASE ReadSize \/ ChangeSize
    BY <1>9 DEF ReadSize, ChangeSize
  <1>10. CASE SetSignal \/ ResetDelayed
    BY <1>10 DEF SetSignal, ResetDelayed
  <1>11. CASE ShellEnds \/ RemoteCloses
    BY <1>11 DEF ShellEnds, RemoteCloses
  <1>12. CASE Resize
    BY <1>12 DEF Resize
  <1>13. CASE SigTerm
    BY <1>13 DEF SigTerm
  <1>14. CASE UNCHANGED vars
    BY <1>14 DEF vars
  <1> QED
    BY <1>1, <1>2, <1>3, <1>4, <1>5, <1>6, <1>7, <1>8, <1>9,
       <1>10, <1>11, <1>12, <1>13, <1>14
       DEF Next, Program, SelectLoop

(***************************************************************************)
(* The variables of a login keep their types; in particular the session is *)
(* freed twice at most, and the user asked for three passwords at most.    *)
(***************************************************************************)
THEOREM TypeCorrect == Spec => []TypeOK
PROOF
  <1>1. SettingsAtHand /\ Asked /\ Flags /\ Numbers => TypeOK
    BY DEF SettingsAtHand, Asked, Flags, Numbers, TypeOK, Asking, Setup, Session, Leaving
  <1> QED
    BY <1>1, SettingsAtHandInit, SettingsAtHandStep, AskedInit, AskedStep, FlagsInit,
       FlagsStep, NumbersInit, NumbersStep, PTL DEF Spec
=============================================================================
