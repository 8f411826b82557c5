------------------------------ MODULE Connect2 ------------------------------
(***************************************************************************)
(* libssh2_connect: the calls one login makes in order, each of which may  *)
(* fail, what a failure at any of them leaves to be undone under the label *)
(* shutdown, and the local terminal.  One login follows another, each in a *)
(* process of its own, on the same terminal.  What store_pass makes of the *)
(* record and the data file is in PassBuffer and DataFile; what matters    *)
(* here is that it may end the process in the middle of a login.           *)
(*                                                                         *)
(* A call that returns LIBSSH2_ERROR_EAGAIN is made again: such a return   *)
(* changes nothing and is a stuttering step.  So is a turn of the polling  *)
(* loop, whose data is not modelled here.                                  *)
(***************************************************************************)
EXTENDS Naturals

CONSTANTS
  Settings   \* the settings a user's terminal may have

ASSUME SettingsAssumption == Settings \cap {"raw", "junk", "unset"} = {}

VARIABLES
  pc,           \* the next call
  lib, sock, session, channel,   \* libssh2_init'ed, open, allocated, allocated
  tty,          \* the settings of the local terminal
  flags,        \* is stdin non-blocking?
  oldtc,        \* the local variables oldtc,
  old_flags,    \*   old_flags
  termchanged,  \*   and termchanged
  start,        \* history: tty and flags when this login began
  shell         \* history: the remote shell of this login was reached

held    == <<lib, sock, session, channel>>
local   == <<oldtc, old_flags, termchanged>>
history == <<start, shell>>
vars    == <<pc, held, tty, flags, local, history>>

Goto(from, to) == pc = from /\ pc' = to

Init ==
  /\ pc = "idle"
  /\ lib = FALSE /\ sock = FALSE /\ session = FALSE /\ channel = FALSE
  /\ tty \in Settings /\ flags \in BOOLEAN
  /\ oldtc = "unset" /\ old_flags = FALSE /\ termchanged = FALSE
  /\ start = <<tty, flags>> /\ shell = FALSE

\* libssh2_init; when it fails the function returns at once.
LibInit ==
  /\ Goto("idle", "socket")
  /\ lib' = TRUE
  /\ oldtc' = "unset" /\ old_flags' = FALSE /\ termchanged' = FALSE
  /\ start' = <<tty, flags>> /\ shell' = FALSE
  /\ UNCHANGED <<sock, session, channel, tty, flags>>

Socket ==
  /\ \/ Goto("socket", "connect") /\ sock' = TRUE
     \/ Goto("socket", "shutdown") /\ UNCHANGED sock
  /\ UNCHANGED <<lib, session, channel, tty, flags, local, history>>

\* getaddrinfo, connect
Connect ==
  /\ Goto("connect", "session") \/ Goto("connect", "shutdown")
  /\ UNCHANGED <<held, tty, flags, local, history>>

SessionInit ==
  /\ \/ Goto("session", "handshake") /\ session' = TRUE
     \/ Goto("session", "shutdown") /\ UNCHANGED session
  /\ UNCHANGED <<lib, sock, channel, tty, flags, local, history>>

\* handshake, host key, known hosts, list of authentication methods
Negotiate ==
  /\ Goto("handshake", "auth") \/ Goto("handshake", "shutdown")
  /\ UNCHANGED <<held, tty, flags, local, history>>

\* get_level_pass and libssh2_userauth_password; when the server takes a password
\* that was typed, store_pass raises the flag of the record.
Accepted ==
  /\ Goto("auth", "channel")
  /\ UNCHANGED <<held, tty, flags, local, history>>

\* The server refuses it, or the connection fails: store_pass clears a stored one.
Refused ==
  /\ Goto("auth", "shutdown")
  /\ UNCHANGED <<held, tty, flags, local, history>>

\* Either store_pass cannot open the temporary data file: save_data ends the program
\* inside the login, nothing under shutdown is run, and the kernel takes back what
\* the process held.
StoreExits ==
  /\ Goto("auth", "idle")
  /\ lib' = FALSE /\ sock' = FALSE /\ session' = FALSE
  /\ UNCHANGED <<channel, tty, flags, local, history>>

ChannelOpen ==
  /\ \/ Goto("channel", "sockflags") /\ channel' = TRUE
     \/ Goto("channel", "shutdown") /\ UNCHANGED channel
  /\ UNCHANGED <<lib, sock, session, tty, flags, local, history>>

SocketNonBlocking ==
  /\ Goto("sockflags", "stdinflags") \/ Goto("sockflags", "shutdown")
  /\ UNCHANGED <<held, tty, flags, local, history>>

\* Mutant of StdinNonBlocking: termchanged is left to a later call.
StdinNonBlockingUnmarked ==
  /\ old_flags' = flags
  /\ \/ Goto("stdinflags", "pty") /\ flags' = TRUE
     \/ Goto("stdinflags", "shutdown") /\ UNCHANGED flags
  /\ UNCHANGED <<held, tty, oldtc, termchanged, history>>

\* fcntl(STDIN_FILENO, ..); termchanged is set whether it fails or not.
StdinNonBlocking ==
  /\ old_flags' = flags
  /\ termchanged' = TRUE
  /\ \/ Goto("stdinflags", "pty") /\ flags' = TRUE
     \/ Goto("stdinflags", "shutdown") /\ UNCHANGED flags
  /\ UNCHANGED <<held, tty, oldtc, history>>

\* remote pty, remote shell
RequestShell ==
  /\ Goto("pty", "raw") \/ Goto("pty", "shutdown")
  /\ UNCHANGED <<held, tty, flags, local, history>>

\* Mutant of RawMode: oldtc is a copy of what cfmakeraw made.
RawModeCopiedLate ==
  /\ Goto("raw", "loop")
  /\ oldtc' = "raw"
  /\ tty' = "raw"
  /\ shell' = TRUE
  /\ UNCHANGED <<held, flags, old_flags, termchanged, start>>

\* tcgetattr, memcpy to oldtc, cfmakeraw, tcsetattr
RawMode ==
  /\ Goto("raw", "loop")
  /\ oldtc' = tty
  /\ tty' = "raw"
  /\ shell' = TRUE
  /\ UNCHANGED <<held, flags, old_flags, termchanged, start>>

\* poll, a read or a write fails, or the remote side is at its end.
LoopEnds ==
  /\ Goto("loop", "shutdown")
  /\ UNCHANGED <<held, tty, flags, local, history>>

\* Mutant of ChannelDown: the session is taken down under an open channel.
ChannelDownSkipped ==
  /\ Goto("shutdown", "session_down")
  /\ UNCHANGED <<held, tty, flags, local, history>>

\* shutdown: the channel is closed and freed, if there is one,
ChannelDown ==
  /\ Goto("shutdown", "session_down")
  /\ channel' = FALSE
  /\ UNCHANGED <<lib, sock, session, tty, flags, local, history>>

\* the session is disconnected and freed, if there is one,
SessionDown ==
  /\ Goto("session_down", "sock_down")
  /\ session' = FALSE
  /\ UNCHANGED <<lib, sock, channel, tty, flags, local, history>>

\* the socket is shut down and closed, if there is one,
SocketDown ==
  /\ Goto("sock_down", "restore")
  /\ sock' = FALSE
  /\ UNCHANGED <<lib, session, channel, tty, flags, local, history>>

\* Mutant of RestoreTerminal: it is restored whether it was changed or not.
RestoreTerminalAlways ==
  /\ Goto("restore", "lib_down")
  /\ flags' = old_flags
  /\ tty' = oldtc
  /\ UNCHANGED <<held, local, history>>

\* the terminal is restored from oldtc and old_flags, if termchanged is set: out
\* of an oldtc nobody assigned come arbitrary settings, or a call that fails,
RestoreTerminal ==
  /\ Goto("restore", "lib_down")
  /\ IF termchanged
       THEN /\ flags' = old_flags
            /\ tty' \in IF oldtc = "unset" THEN {tty, "junk"} ELSE {oldtc}
       ELSE UNCHANGED <<tty, flags>>
  /\ UNCHANGED <<held, local, history>>

\* libssh2_exit, and the function returns.
LibDown ==
  /\ Goto("lib_down", "idle")
  /\ lib' = FALSE
  /\ UNCHANGED <<sock, session, channel, tty, flags, local, history>>

Login ==
  \/ LibInit \/ Socket \/ Connect \/ SessionInit \/ Negotiate
  \/ Accepted \/ Refused \/ StoreExits
  \/ ChannelOpen \/ SocketNonBlocking \/ StdinNonBlocking \/ RequestShell
  \/ RawMode \/ LoopEnds

Shutdown ==
  ChannelDown \/ SessionDown \/ SocketDown \/ RestoreTerminal \/ LibDown

Next == Login \/ Shutdown

\* The process runs on, and no library call returns EAGAIN for ever.
Spec == Init /\ [][Next]_vars /\ WF_vars(Shutdown)
-----------------------------------------------------------------------------
(* Properties *)

ShutdownLabels == {"shutdown", "session_down", "sock_down", "restore", "lib_down"}

TypeOK ==
  /\ pc \in {"idle", "socket", "connect", "session", "handshake", "auth", "channel",
             "sockflags", "stdinflags", "pty", "raw", "loop"} \cup ShutdownLabels
  /\ lib \in BOOLEAN /\ sock \in BOOLEAN /\ session \in BOOLEAN /\ channel \in BOOLEAN
  /\ tty \in Settings \cup {"raw", "junk"} /\ flags \in BOOLEAN
  /\ oldtc \in Settings \cup {"raw", "junk", "unset"}
  /\ old_flags \in BOOLEAN /\ termchanged \in BOOLEAN
  /\ start \in (Settings \cup {"raw", "junk"}) \X BOOLEAN
  /\ shell \in BOOLEAN

(***************************************************************************)
(* Whichever call fails, what was acquired before it is released in the    *)
(* opposite order, nothing is released twice or under something that needs *)
(* it, and the function does return; only a process that ends inside the   *)
(* login leaves the release to the kernel.  (the goto shutdown of every    *)
(* failure, the four blocks under the label, and the exit in save_data)    *)
(***************************************************************************)
Stack == INSTANCE ResourceStack WITH
  Depth   <- 4,
  held    <- IF channel THEN 4 ELSE IF session THEN 3 ELSE IF sock THEN 2
             ELSE IF lib THEN 1 ELSE 0,
  closing <- pc \in ShutdownLabels

ReleasesInOrder == Stack!Spec

(***************************************************************************)
(* Between logins stdin is blocking or not as it was before the first, and *)
(* a program that ends inside a login, in store_pass, leaves it so too.    *)
(* (termchanged, set before the result of fcntl is looked at)              *)
(***************************************************************************)
StdinKept == pc = "idle" => flags = start[2]

(***************************************************************************)
(* A login that got as far as the remote shell leaves the terminal as it   *)
(* found it, however the polling loop ended.                               *)
(***************************************************************************)
TerminalKeptByShell == pc = "idle" /\ shell => tty = start[1]

(***************************************************************************)
(* "Restore local terminal to its original state" (libssh2_client.c:301).  *)
(***************************************************************************)
TerminalRestored == pc = "idle" => tty = start[1]
=============================================================================
