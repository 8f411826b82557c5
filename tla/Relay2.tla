------------------------------- MODULE Relay2 -------------------------------
(***************************************************************************)
(* The polling loop of libssh2_connect: what the user types goes through   *)
(* the terminal, the buffer of stdin and commandbuf to the channel; what   *)
(* the remote shell prints goes through the socket, the queue of libssh2   *)
(* and inputbuf to the screen.  poll looks at the terminal and the socket  *)
(* only, and knows nothing of the buffer of stdin and the queue of libssh2.*)
(*                                                                         *)
(* The session is established, and the login is Connect2 at its label      *)
(* "loop"; a call that fails, and what follows the loop, is modelled there.*)
(***************************************************************************)
EXTENDS Naturals, Sequences, FiniteSets

CONSTANTS
  Keys,      \* what a user types
  NL,        \* the one of them that ends a line of fgets: not Enter, which is
             \* a carriage return on a raw terminal
  Bytes,     \* what a remote shell prints
  NUL,       \* the null byte, which is one of both (Ctrl-Space types it)
  EOF,       \* the remote end of file
  Junk,      \* what lies behind inputbuf
  LineMax,   \* keys one fgets takes at most: BUFSIZE - 3
  ReadMax,   \* BUFSIZE
  MaxKeys,   \* bound: keys typed
  MaxOut,    \* bound: bytes printed
  MaxBoth,   \* bound: both together
  MaxWindow  \* bound: keys the remote side makes room for

ASSUME RelayAssumption ==
  /\ NL \in Keys /\ NUL \in Keys \cap Bytes /\ EOF \notin Bytes /\ Junk \notin Bytes
  /\ LineMax \in Nat \ {0} /\ ReadMax \in Nat \ {0}
  /\ MaxKeys \in Nat /\ MaxOut \in Nat /\ MaxBoth \in Nat /\ MaxWindow \in Nat

VARIABLES
  pc,          \* the next step of the loop
  ready,       \* revents: which of "sock" and "stdin" poll found ready
  tty,         \* keys the terminal has for the program
  stdio,       \* keys in the buffer of stdin
  commandbuf,  \* what fgets put into it
  written,     \* how much of it the loop believes it wrote
  window,      \* room for keys on the remote side
  sock,        \* what the socket has for libssh2
  queue,       \* what libssh2 has for the channel
  screen,      \* what was printed
  typed,       \* history: all keys
  taken,       \* history: all keys fgets took
  due,         \* history: of each line it took, the keys up to a null byte
  sent,        \* history: all keys the channel took
  out,         \* history: all the remote side sent
  whole,       \* history: every write took the whole of commandbuf
  plain,       \* history: every read left a string in inputbuf
  unseen       \* history: a write took something off the socket since the last read

lines   == <<taken, due>>
input   == <<tty, stdio, commandbuf, written, window, typed, lines, sent, whole>>
output  == <<sock, queue, screen, out, plain, unseen>>
vars    == <<pc, ready, input, output>>

Lower(m, n) == IF m < n THEN m ELSE n

First(s, n) == SubSeq(s, 1, Lower(n, Len(s)))
Rest(s, n)  == SubSeq(s, n + 1, Len(s))

\* The place of the first x of s; one beyond the end, if there is none.
PlaceOf(x, s) ==
  1 + Cardinality({n \in 1..Len(s) : \A m \in 1..n : s[m] # x})

\* The string in a buffer: what strlen and printf see of it.
Str(s) == First(s, PlaceOf(NUL, s) - 1)

\* What a stream from the remote side has before its end of file.
Data(s) == IF s # <<>> /\ s[Len(s)] = EOF THEN First(s, Len(s) - 1) ELSE s

Init ==
  /\ pc = "poll" /\ ready = {}
  /\ tty = <<>> /\ stdio = <<>> /\ commandbuf = <<>> /\ written = 0 /\ window = 0
  /\ sock = <<>> /\ queue = <<>> /\ screen = <<>>
  /\ typed = <<>> /\ taken = <<>> /\ due = <<>> /\ sent = <<>> /\ out = <<>>
  /\ whole = TRUE /\ plain = TRUE /\ unseen = FALSE

-----------------------------------------------------------------------------
(* The loop *)

\* Mutant of Poll: the events of stdin are not asked for.
PollSocketOnly ==
  /\ pc = "poll"
  /\ sock # <<>>
  /\ ready' = {"sock"} /\ pc' = "read"
  /\ UNCHANGED <<input, output>>

\* poll waits until one of them has something, however long.
Poll ==
  /\ pc = "poll"
  /\ ready' = {f \in {"sock", "stdin"} : IF f = "sock" THEN sock # <<>> ELSE tty # <<>>}
  /\ ready' # {}
  /\ pc' = IF "sock" \in ready' THEN "read" ELSE "fgets"
  /\ UNCHANGED <<input, output>>

\* What printf("%s") prints of n bytes in inputbuf: the string up to the first null
\* byte.  A read that fills the buffer leaves none, and printf goes on behind it.
Printed(chunk) ==
  IF Len(Str(chunk)) = ReadMax THEN {Str(chunk), Append(Str(chunk), Junk)} ELSE {Str(chunk)}

\* Mutant of Read: inputbuf is not cleared.
ReadStale ==
  /\ pc = "read"
  /\ LET all   == queue \o sock
         chunk == First(Data(all), ReadMax)
     IN  /\ sock' = <<>>
         /\ queue' = Rest(all, Len(chunk))
         /\ IF chunk = <<>> /\ screen # <<>>
              THEN screen' = Append(screen, screen[Len(screen)])
              ELSE \E s \in Printed(chunk) : screen' = screen \o s
         /\ plain' = (plain /\ Printed(chunk) = {chunk})
         /\ unseen' = FALSE
         /\ pc' = IF chunk # <<>> THEN "read"
                  ELSE IF "stdin" \in ready THEN "fgets" ELSE "eof"
  /\ UNCHANGED <<ready, input, out>>

\* Mutant of Read: one read for each time poll returns.
ReadOnce ==
  /\ pc = "read"
  /\ LET all   == queue \o sock
         chunk == First(Data(all), ReadMax)
     IN  /\ sock' = <<>>
         /\ queue' = Rest(all, Len(chunk))
         /\ \E s \in Printed(chunk) : screen' = screen \o s
         /\ plain' = (plain /\ Printed(chunk) = {chunk})
         /\ unseen' = FALSE
         /\ pc' = IF "stdin" \in ready THEN "fgets" ELSE "eof"
  /\ UNCHANGED <<ready, input, out>>

\* libssh2_channel_read takes what the socket has, and returns part of the queue;
\* it is printed, and inputbuf cleared.  Once nothing is returned (EAGAIN, or 0 at
\* the end of file) the loop goes on.
Read ==
  /\ pc = "read"
  /\ LET all   == queue \o sock
         chunk == First(Data(all), ReadMax)
     IN  /\ sock' = <<>>
         /\ queue' = Rest(all, Len(chunk))
         /\ \E s \in Printed(chunk) : screen' = screen \o s
         /\ plain' = (plain /\ Printed(chunk) = {chunk})
         /\ unseen' = FALSE
         /\ pc' = IF chunk # <<>> THEN "read"
                  ELSE IF "stdin" \in ready THEN "fgets" ELSE "eof"
  /\ UNCHANGED <<ready, input, out>>

\* How many keys of s one fgets takes.
Line(s) == Lower(Lower(PlaceOf(NL, s), Len(s)), LineMax)

\* The buffer of stdin has a whole line, or as much as fgets takes.
FullLine(s) == PlaceOf(NL, s) <= Len(s) \/ Len(s) >= LineMax

\* Mutants of Fgets: what follows the line is thrown away; commandbuf is overrun.
FgetsFlushed ==
  /\ pc = "fgets"
  /\ commandbuf' = First(stdio \o tty, Line(stdio \o tty))
  /\ stdio' = <<>> /\ tty' = <<>>
  /\ taken' = taken \o commandbuf' /\ due' = due \o Str(commandbuf')
  /\ written' = 0
  /\ pc' = "write"
  /\ UNCHANGED <<ready, window, typed, sent, whole, output>>
FgetsLong ==
  /\ pc = "fgets"
  /\ commandbuf' = stdio \o tty
  /\ stdio' = <<>> /\ tty' = <<>>
  /\ taken' = taken \o commandbuf' /\ due' = due \o Str(commandbuf')
  /\ written' = 0
  /\ pc' = "write"
  /\ UNCHANGED <<ready, window, typed, sent, whole, output>>

\* fgets takes a line from the buffer of stdin; while there is none it reads all the
\* terminal has, and it is content with less when the terminal has no more.
Fgets ==
  /\ pc = "fgets"
  /\ LET all == IF FullLine(stdio) THEN stdio ELSE stdio \o tty
     IN  /\ commandbuf' = First(all, Line(all))
         /\ stdio' = Rest(all, Line(all))
         /\ tty' = IF FullLine(stdio) THEN tty ELSE <<>>
  /\ taken' = taken \o commandbuf' /\ due' = due \o Str(commandbuf')
  /\ written' = 0
  /\ pc' = "write"
  /\ UNCHANGED <<ready, window, typed, sent, whole, output>>

\* libssh2_channel_write takes what the socket has, first, and then as much of the
\* string in commandbuf, from its beginning, as there is room for.  The loop tries
\* again until the numbers add up to the length, or nothing was taken (EAGAIN, or 0);
\* then all of commandbuf is cleared, what lies behind a null byte with it.
Write ==
  /\ pc = "write"
  /\ queue' = queue \o sock /\ sock' = <<>>
  /\ unseen' = (unseen \/ sock # <<>>)
  /\ LET command == Str(commandbuf)
         n       == Lower(window, Len(command))
     IN  /\ sent' = sent \o First(command, n)
         /\ window' = window - n
         /\ whole' = (whole /\ n = Len(command))
         /\ IF n = 0 \/ written + n = Len(command)
              THEN pc' = "eof" /\ commandbuf' = <<>> /\ written' = 0
              ELSE written' = written + n /\ UNCHANGED <<pc, commandbuf>>
  /\ UNCHANGED <<ready, tty, stdio, typed, lines, screen, out, plain>>

\* Mutant of TurnEnds: the end of file ends the loop before all is read.
TurnEndsEarly ==
  /\ pc = "eof"
  /\ pc' = IF Data(queue) # queue THEN "ended" ELSE "poll"
  /\ UNCHANGED <<ready, input, output>>

\* libssh2_channel_eof: the end of file is all that is left to read.
TurnEnds ==
  /\ pc = "eof"
  /\ pc' = IF queue = <<EOF>> THEN "ended" ELSE "poll"
  /\ UNCHANGED <<ready, input, output>>

-----------------------------------------------------------------------------
(* The world outside, as long as the loop runs *)

Type(k) ==
  /\ pc # "ended"
  /\ Len(typed) < MaxKeys /\ Len(typed) + Len(out) < MaxBoth
  /\ typed' = Append(typed, k)
  /\ tty' = Append(tty, k)
  /\ UNCHANGED <<pc, ready, stdio, commandbuf, written, window, lines, sent, whole, output>>

RemoteSends(b) ==
  /\ pc # "ended"
  /\ Data(out) = out /\ Len(out) < MaxOut /\ Len(typed) + Len(out) < MaxBoth
  /\ out' = Append(out, b)
  /\ sock' = Append(sock, b)
  /\ UNCHANGED <<pc, ready, input, queue, screen, plain, unseen>>

WindowAdjust ==
  /\ pc # "ended"
  /\ \E n \in 1..(MaxWindow - (Len(sent) + window)) : window' = window + n
  /\ UNCHANGED <<pc, ready, tty, stdio, commandbuf, written, typed, lines, sent, whole, output>>

Outside ==
  \/ \E k \in Keys : Type(k)
  \/ \E b \in Bytes \cup {EOF} : RemoteSends(b)
  \/ WindowAdjust

Turn == Poll \/ Read \/ Fgets \/ Write \/ TurnEnds

Next == Turn \/ Outside

\* poll returns when there is something to read, and the other calls do not wait.
Spec == Init /\ [][Next]_vars /\ WF_vars(Turn)
-----------------------------------------------------------------------------
(* Properties *)

TypeOK ==
  /\ pc \in {"poll", "read", "fgets", "write", "eof", "ended"}
  /\ ready \subseteq {"sock", "stdin"}
  /\ tty \in Seq(Keys) /\ stdio \in Seq(Keys)
  /\ commandbuf \in Seq(Keys) /\ Len(commandbuf) <= LineMax
  /\ written \in Nat /\ window \in 0..MaxWindow
  /\ sock \in Seq(Bytes \cup {EOF}) /\ queue \in Seq(Bytes \cup {EOF})
  /\ screen \in Seq(Bytes \cup {Junk})
  /\ typed \in Seq(Keys) /\ taken \in Seq(Keys) /\ due \in Seq(Keys)
  /\ sent \in Seq(Keys) /\ out \in Seq(Bytes \cup {EOF})
  /\ whole \in BOOLEAN /\ plain \in BOOLEAN /\ unseen \in BOOLEAN

(***************************************************************************)
(* fgets takes the keys from the terminal in order, none twice and none    *)
(* left out, however the lines are cut by the width of commandbuf and by   *)
(* what is left in the buffer of stdin; and as long as the channel takes   *)
(* the whole of every string, what arrives is those keys, but for what a   *)
(* line has from a null byte on.  So with no null byte typed no key is     *)
(* lost.  (fgets, strlen, the write loop and the memset behind it; a short *)
(* write sends the beginning of the string again)                          *)
(***************************************************************************)
KeysInOrder ==
  /\ typed = taken \o stdio \o tty
  /\ whole => due = sent \o Str(commandbuf)
  /\ (\A i \in 1..Len(typed) : typed[i] # NUL) => due = taken

(***************************************************************************)
(* As long as every chunk is a string, nothing the remote side sent is     *)
(* lost, doubled or overtaken on its way to the screen, whether a read or  *)
(* a write took it off the socket.                                         *)
(***************************************************************************)
ScreenInOrder == plain => out = screen \o queue \o sock

(***************************************************************************)
(* When the remote side's end of file ends the loop, everything it printed *)
(* before is on the screen.                                                *)
(***************************************************************************)
EndShowsAll == pc = "ended" /\ plain => screen = Data(out)

(***************************************************************************)
(* When the terminal has a key, fgets takes it, and with it everything     *)
(* that was left in the buffer of stdin before, and what it took is        *)
(* written: so what poll cannot see waits for one more key, not for ever.  *)
(* (poll sees the terminal only; fgets takes one line at a time)           *)
(***************************************************************************)
KeySent ==
  \A n \in 1..MaxKeys :
    tty # <<>> /\ Len(typed) - Len(tty) = n - 1
      ~> pc = "ended" \/ (Len(taken) >= n /\ (whole => sent = due))

(***************************************************************************)
(* When the remote side pauses, all it printed is read and printed, but    *)
(* for what a write took off the socket.  (poll sees the socket only)      *)
(***************************************************************************)
OutputShown ==
  []<>(Data(queue \o sock) = <<>> \/ pc = "ended" \/ (pc = "poll" /\ sock = <<>> /\ unseen))
=============================================================================
