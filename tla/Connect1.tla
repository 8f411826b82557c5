------------------------------ MODULE Connect1 ------------------------------
(***************************************************************************)
(* libssh_connect with client, shell and select_loop: one login of the     *)
(* variant built on libssh, and the two signals it handles.  SIGTERM may   *)
(* come at any point, SIGWINCH whenever the user resizes the window; a     *)
(* handler runs between two calls of the program.                          *)
(*                                                                         *)
(* The size of the window is the number of times it was resized.           *)
(***************************************************************************)
EXTENDS Naturals

CONSTANT MaxResizes   \* bound: resizes during one login

ASSUME ResizesAssumption == MaxResizes \in Nat

VARIABLES
  pc,         \* the next call
  lib,        \* has ssh_init, and not yet ssh_finalize, been called?
  session,    \* "null", "live" or "freed"
  channel,    \* is the channel allocated?
  open,       \* is it open on both sides?
  tty,        \* the settings of the local terminal
  terminal,   \* the static variable terminal: "zero" until shell saves tty in it
  handler,    \* does SIGTERM call do_exit or do_cleanup?  Both only do_cleanup.
  winch,      \* does SIGWINCH call sigwindowchanged?
  delayed,    \* the static variable signal_delayed
  size,       \* the size of the local window
  win,        \* the local variable win of shell and sizechanged
  remote,     \* the size the remote pty was last given
  tries,      \* retries in do_password_authentication
  saved,      \* level->is_pass_saved
  connected,  \* history: ssh_connect succeeded
  prompts,    \* history: passwords the user was asked for
  frees,      \* history: calls of ssh_free(session)
  early,      \* history: do_cleanup ran before shell saved the terminal
  lost        \* history: no signal_delayed will tell of the last resize

resources == <<lib, session, channel, open>>
terms     == <<tty, terminal, handler>>
window    == <<winch, delayed, size, win, remote, lost>>
auth      == <<tries, saved, prompts>>
history   == <<connected, frees, early>>
vars      == <<pc, resources, terms, window, auth, history>>

Goto(from, to) == pc = from /\ pc' = to

Init ==
  /\ pc = "ssh_init"
  /\ lib = FALSE /\ session = "null" /\ channel = FALSE /\ open = FALSE
  /\ tty = "original" /\ terminal = "zero" /\ handler = FALSE
  /\ winch = FALSE /\ delayed = FALSE
  /\ size = 0 /\ win = 0 /\ remote = 0 /\ lost = FALSE
  /\ tries = 0 /\ saved \in BOOLEAN /\ prompts = 0
  /\ connected = FALSE /\ frees = 0 /\ early = FALSE

-----------------------------------------------------------------------------
(* libssh_connect *)

SshInit ==
  /\ \/ Goto("ssh_init", "ssh_new") /\ lib' = TRUE
     \/ Goto("ssh_init", "returned") /\ UNCHANGED lib
  /\ UNCHANGED <<session, channel, open, terms, window, auth, history>>

\* ssh_new, and the handler for SIGTERM.
SshNew ==
  /\ \/ Goto("ssh_new", "connect") /\ session' = "live" /\ handler' = TRUE
     \/ Goto("ssh_new", "returned") /\ UNCHANGED <<session, handler>>
  /\ UNCHANGED <<lib, channel, open, tty, terminal, window, auth, history>>

\* The end of libssh_connect takes session to be valid.  When client has freed it,
\* the calls on it are undefined: the program goes on, or is killed.
Disconnect ==
  /\ \/ Goto("disconnect", "finalize")
     \/ session = "freed" /\ Goto("disconnect", "killed")
  /\ session' = "freed"
  /\ frees' = frees + 1
  /\ UNCHANGED <<lib, channel, open, terms, window, auth, connected, early>>

\* Mutant of Finalize: when it fails the session is taken down again.
FinalizeAgain ==
  /\ Goto("finalize", "returned") \/ Goto("finalize", "disconnect")
  /\ lib' = FALSE
  /\ UNCHANGED <<session, channel, open, terms, window, auth, history>>

Finalize ==
  /\ Goto("finalize", "returned")
  /\ lib' = FALSE
  /\ UNCHANGED <<session, channel, open, terms, window, auth, history>>

-----------------------------------------------------------------------------
(* client *)

\* Mutant of SshConnect: the session is freed when the connection succeeds, too.
SshConnectFrees ==
  /\ \/ Goto("connect", "verify") /\ connected' = TRUE
     \/ Goto("connect", "disconnect") /\ UNCHANGED connected
  /\ session' = "freed" /\ frees' = frees + 1
  /\ UNCHANGED <<lib, channel, open, terms, window, auth, early>>

\* The options and ssh_connect; client frees the session when they fail.
SshConnect ==
  /\ \/ Goto("connect", "verify") /\ connected' = TRUE /\ UNCHANGED <<session, frees>>
     \/ /\ Goto("connect", "disconnect") /\ UNCHANGED connected
        /\ session' = "freed" /\ frees' = frees + 1
  /\ UNCHANGED <<lib, channel, open, terms, window, auth, early>>

\* verify_knownhost: a changed key, an error or a user who refuses ends the
\* login.  Nothing is stored: the user of an unknown key is asked every time.
VerifyKnownHost ==
  /\ Goto("verify", "auth") \/ Goto("verify", "disconnect")
  /\ UNCHANGED <<resources, terms, window, auth, history>>

\* Mutant of Attempt: the saved password is tried every time.
AttemptSavedAgain ==
  /\ pc = "auth"
  /\ IF saved THEN UNCHANGED prompts ELSE prompts' = prompts + 1
  /\ \/ pc' = "channel" /\ UNCHANGED tries
     \/ pc' = "disconnect" /\ UNCHANGED tries
     \/ tries' = tries + 1 /\ pc' = IF tries' < 3 THEN "auth" ELSE "disconnect"
  /\ UNCHANGED <<resources, terms, window, saved, history>>

\* One turn of do_password_authentication: the saved password the first time,
\* then what the user types.  It is taken, fails for good, or is wrong.
Attempt ==
  /\ pc = "auth"
  /\ IF saved /\ tries = 0 THEN UNCHANGED prompts ELSE prompts' = prompts + 1
  /\ \/ pc' = "channel" /\ UNCHANGED tries
     \/ pc' = "disconnect" /\ UNCHANGED tries
     \/ tries' = tries + 1 /\ pc' = IF tries' < 3 THEN "auth" ELSE "disconnect"
  /\ UNCHANGED <<resources, terms, window, saved, history>>

\* The server takes no passwords, or ssh_getpass fails.
NoPassword ==
  /\ Goto("auth", "disconnect")
  /\ UNCHANGED <<resources, terms, window, auth, history>>

-----------------------------------------------------------------------------
(* shell *)

ChannelOpen ==
  /\ \/ Goto("channel", "save") /\ channel' = TRUE /\ open' = TRUE
     \/ Goto("channel", "disconnect") /\ UNCHANGED <<channel, open>>
  /\ UNCHANGED <<lib, session, terms, window, auth, history>>

SaveTerminal ==
  /\ Goto("save", "ioctl")
  /\ terminal' = tty
  /\ UNCHANGED <<resources, tty, handler, window, auth, history>>

\* Mutant of ReadSize: sizechanged sends the size shell once read.
ReadSizeOnce ==
  /\ \/ Goto("ioctl", "pty") /\ win' = size
     \/ Goto("sizechanged", "change_size") /\ UNCHANGED win
  /\ lost' = FALSE
  /\ UNCHANGED <<resources, terms, winch, delayed, size, remote, auth, history>>

\* ioctl(TIOCGWINSZ), in shell and in sizechanged.
ReadSize ==
  /\ Goto("ioctl", "pty") \/ Goto("sizechanged", "change_size")
  /\ win' = size
  /\ lost' = FALSE
  /\ UNCHANGED <<resources, terms, winch, delayed, size, remote, auth, history>>

\* The pty request; when it fails the terminal is restored and the channel freed.
RequestPty ==
  /\ \/ Goto("pty", "shell") /\ remote' = win /\ UNCHANGED <<channel, open, tty>>
     \/ /\ Goto("pty", "disconnect")
        /\ channel' = FALSE /\ open' = FALSE /\ tty' = terminal
        /\ UNCHANGED remote
  /\ UNCHANGED <<lib, session, terminal, handler, winch, delayed, size, win, lost,
                 auth, history>>

RequestShell ==
  /\ \/ Goto("shell", "raw") /\ UNCHANGED <<channel, open, tty>>
     \/ /\ Goto("shell", "disconnect")
        /\ channel' = FALSE /\ open' = FALSE /\ tty' = terminal
  /\ UNCHANGED <<lib, session, terminal, handler, window, auth, history>>

RawMode ==
  /\ Goto("raw", "setsignal")
  /\ tty' = "raw"
  /\ UNCHANGED <<resources, terminal, handler, window, auth, history>>

\* setsignal, first half: signal(SIGWINCH, ..).
SetSignal ==
  /\ Goto("setsignal", "reset") \/ Goto("resetsignal", "rereset")
  /\ winch' = TRUE
  /\ UNCHANGED <<resources, terms, delayed, size, win, remote, lost, auth, history>>

\* setsignal, second half: signal_delayed = 0.
ResetDelayed ==
  /\ Goto("reset", "loop") \/ Goto("rereset", "poll")
  /\ delayed' = FALSE
  /\ UNCHANGED <<resources, terms, winch, size, win, remote, lost, auth, history>>

\* Mutant of ShellEnds: the terminal stays raw.
ShellEndsRaw ==
  /\ Goto("down", "disconnect")
  /\ channel' = FALSE /\ open' = FALSE
  /\ UNCHANGED <<lib, session, terms, window, auth, history>>

\* do_cleanup and ssh_channel_free.
ShellEnds ==
  /\ Goto("down", "disconnect")
  /\ tty' = terminal
  /\ channel' = FALSE /\ open' = FALSE
  /\ UNCHANGED <<lib, session, terminal, handler, window, auth, history>>

-----------------------------------------------------------------------------
(* select_loop *)

\* Mutant of LoopTop: the channel is not looked at.
LoopTopDeaf ==
  /\ pc = "loop"
  /\ pc' = IF delayed THEN "sizechanged" ELSE "poll"
  /\ UNCHANGED <<resources, terms, window, auth, history>>

\* Mutant of LoopTop: a change of the window is looked at only when the channel closes.
LoopTopBlind ==
  /\ pc = "loop"
  /\ pc' = IF open THEN "poll" ELSE IF delayed THEN "sizechanged" ELSE "down"
  /\ UNCHANGED <<resources, terms, window, auth, history>>

LoopTop ==
  /\ pc = "loop"
  /\ pc' = IF ~open THEN "down" ELSE IF delayed THEN "sizechanged" ELSE "poll"
  /\ UNCHANGED <<resources, terms, window, auth, history>>

\* ssh_channel_change_pty_size; a failure is printed and nothing else.
ChangeSize ==
  /\ Goto("change_size", "resetsignal")
  /\ \/ remote' = win /\ UNCHANGED lost
     \/ lost' = TRUE /\ UNCHANGED remote
  /\ UNCHANGED <<resources, terms, winch, delayed, size, win, auth, history>>

\* ssh_event_dopoll returns after some input or output, or after 60 seconds; a
\* signal alone does not make it return.
Poll ==
  /\ Goto("poll", "loop") \/ Goto("poll", "down")
  /\ UNCHANGED <<resources, terms, window, auth, history>>

-----------------------------------------------------------------------------
(* The world outside *)

\* The user resizes the window.  What no handler is told, and what the reset
\* of signal_delayed is going to undo, is lost.
Resize ==
  /\ pc \notin {"returned", "killed"}
  /\ size < MaxResizes
  /\ size' = size + 1
  /\ delayed' = (delayed \/ winch)
  /\ lost' = (pc \in {"pty", "shell", "raw", "setsignal", "reset",
                      "change_size", "resetsignal", "rereset"})
  /\ UNCHANGED <<pc, resources, terms, winch, win, remote, auth, history>>

\* SIGTERM: the default action, or do_cleanup, after which the program goes on.
SigTerm ==
  /\ pc \notin {"returned", "killed"}
  /\ IF handler
       THEN /\ tty' = terminal
            /\ early' = (early \/ terminal = "zero")
            /\ UNCHANGED pc
       ELSE pc' = "killed" /\ UNCHANGED <<tty, early>>
  /\ UNCHANGED <<resources, terminal, handler, window, auth, connected, frees>>

RemoteCloses ==
  /\ open
  /\ open' = FALSE
  /\ UNCHANGED <<pc, lib, session, channel, terms, window, auth, history>>

-----------------------------------------------------------------------------
SelectLoop ==
  \/ LoopTop \/ ReadSize \/ ChangeSize \/ SetSignal \/ ResetDelayed \/ Poll

Program ==
  \/ SshInit \/ SshNew \/ Disconnect \/ Finalize
  \/ SshConnect \/ VerifyKnownHost \/ Attempt \/ NoPassword
  \/ ChannelOpen \/ SaveTerminal \/ RequestPty \/ RequestShell \/ RawMode
  \/ SelectLoop \/ ShellEnds

Next == Program \/ Resize \/ SigTerm \/ RemoteCloses

\* Once in the loop the program runs on: dopoll's timeout brings it round without
\* any input, and what follows the loop waits for nobody.  Before it, the user may
\* leave a question unanswered for ever.
Spec ==
  Init /\ [][Next]_vars /\ WF_vars(SelectLoop \/ ShellEnds \/ Disconnect \/ Finalize)
-----------------------------------------------------------------------------
(* Properties *)

Ended == pc \in {"returned", "killed"}

LoopLabels == {"loop", "poll", "sizechanged", "change_size", "resetsignal", "rereset"}

TypeOK ==
  /\ pc \in {"ssh_init", "ssh_new", "connect", "verify", "auth", "channel", "save",
             "ioctl", "pty", "shell", "raw", "setsignal", "reset", "down",
             "disconnect", "finalize", "returned", "killed"} \cup LoopLabels
  /\ lib \in BOOLEAN /\ session \in {"null", "live", "freed"}
  /\ channel \in BOOLEAN /\ open \in BOOLEAN
  /\ tty \in {"original", "raw", "zero"} /\ terminal \in {"original", "zero"}
  /\ handler \in BOOLEAN /\ winch \in BOOLEAN /\ delayed \in BOOLEAN
  /\ size \in 0..MaxResizes /\ win \in 0..MaxResizes /\ remote \in 0..MaxResizes
  /\ tries \in 0..3 /\ saved \in BOOLEAN /\ prompts \in 0..3
  /\ connected \in BOOLEAN /\ frees \in 0..2 /\ early \in BOOLEAN /\ lost \in BOOLEAN

(***************************************************************************)
(* The remote pty has the size of the window whenever the loop is about to *)
(* wait, or signal_delayed remembers that it has not, unless the resize    *)
(* fell between ioctl and the reset of signal_delayed or the server        *)
(* refused it.  (sizechanged, setsignal, sigwindowchanged)                 *)
(***************************************************************************)
WindowKnown == pc \in {"loop", "poll"} => remote = size \/ delayed \/ lost

(***************************************************************************)
(* A resize during the session reaches the remote pty, with the same two   *)
(* exceptions, or the session ends.  (the loop notices signal_delayed only *)
(* when dopoll returns, which a signal does not make it do)                *)
(***************************************************************************)
ResizeArrives ==
  pc \in LoopLabels /\ remote # size ~> remote = size \/ lost \/ pc \notin LoopLabels

(***************************************************************************)
(* When the server closes the channel the loop ends and so does the login, *)
(* even if the closing and a resize come together.                         *)
(***************************************************************************)
RemoteCloseEnds == pc \in LoopLabels /\ ~open ~> Ended

(***************************************************************************)
(* However far a login comes and whatever fails, the terminal is left as   *)
(* it was found, provided no SIGTERM came before shell saved its settings. *)
(* (do_cleanup at every return of shell after tcsetattr)                   *)
(***************************************************************************)
TerminalRestored == pc = "returned" /\ ~early => tty = "original"

(***************************************************************************)
(* A session that was connected is freed exactly once, by libssh_connect,  *)
(* and the library finalized, whichever return client and shell took.      *)
(***************************************************************************)
FreedOnce == pc = "returned" /\ connected => frees = 1 /\ ~lib

(***************************************************************************)
(* A saved password that is refused costs one of the three attempts: the   *)
(* user is still asked, twice.  (is_pass_saved && retries == 0)            *)
(***************************************************************************)
AskedAfterSaved == tries = 3 => prompts = IF saved THEN 2 ELSE 3
=============================================================================
