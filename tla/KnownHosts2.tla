----------------------------- MODULE KnownHosts2 -----------------------------
(***************************************************************************)
(* check_for_known_host of the libssh2 variant: logins, several of which   *)
(* may run at once, look the digest of a server's host key up in one file  *)
(* of lines "game:digest", ask the user about an unknown one, and append   *)
(* a line at the end they found before they asked.                         *)
(*                                                                         *)
(* A line is a row of pieces: the characters of the name, the colon, the   *)
(* text of the digest and the newline.  All lines have digests of one      *)
(* length, so that where lines overlap depends on the names alone.         *)
(***************************************************************************)
EXTENDS Naturals, Fingerprint

CONSTANTS
  Procs,     \* processes that may run at the same time
  Games,     \* names of games
  NameLen,   \* NameLen[g]: pieces of the name g
  Digests,   \* digests of host keys
  Logins,    \* pairs of a game and a digest its server may present
  Hole,      \* a null byte that nobody wrote
  None,      \* no digest
  MaxSize    \* bound: pieces of the file

ASSUME GamesAssumption ==
  /\ NameLen \in [Games -> Nat \ {0}]
  /\ MaxSize \in Nat
  /\ Digests \subseteq Digest /\ Logins \subseteq Games \X Digests

Texts == {Text(d) : d \in Digests}

ASSUME NoneAssumption == None \notin Texts

VARIABLES
  pc,        \* pc[p]: where process p is
  game,      \* game[p], digest[p]: the arguments of its login
  digest,
  at,        \* at[p]: the offset of its stream
  retries,   \* retries[p]: questions the user has not answered with yes or no
  verdict,   \* verdict[p]: what its last login came to
  exists,    \* is there a known hosts file?
  size,      \* its length
  text,      \* its pieces
  trusted,   \* history: pairs of game and digest the user said yes to
  first,     \* history: first[g]: the text of the first of them written for g
  overlaid   \* history: a line, or an fopen, fell on lines already there

procVars == <<pc, game, digest, at, retries, verdict>>
fileVars == <<exists, size, text>>
history  == <<trusted, first, overlaid>>
vars     == <<procVars, fileVars, history>>

Places == 1..MaxSize

\* Piece k of the line g:t.  What a reader sees of it depends on k alone where it
\* is the colon or the newline, and on t alone where it is the digest.
LineLen(g) == NameLen[g] + 3
Piece(g, t, k) == [game |-> g, text |-> t, k |-> k]
Pieces == UNION {{Piece(g, t, k) : t \in Texts, k \in 1..LineLen(g)} : g \in Games}

ASSUME HoleAssumption == Hole \notin Pieces

IsColon(c)   == c # Hole /\ c.k = NameLen[c.game] + 1
IsDigest(c)  == c # Hole /\ c.k = NameLen[c.game] + 2
IsNewline(c) == c # Hole /\ c.k = NameLen[c.game] + 3

-----------------------------------------------------------------------------
(* What fgets and sscanf make of the file *)

LineStart(i) == i > 1 => IsNewline(text[i - 1])

\* The line at place i begins with "g:".
Names(g, i) ==
  /\ i + NameLen[g] < size
  /\ LineStart(i)
  /\ \A k \in 1..NameLen[g] :
       text[i + k - 1] # Hole /\ text[i + k - 1].game = g /\ text[i + k - 1].k = k
  /\ IsColon(text[i + NameLen[g]])

\* Mutant of IsFirstLine: the last line of g decides.
IsLastLine(g, i) == Names(g, i) /\ \A j \in Places : j > i => ~Names(g, j)

\* The first line of g.
IsFirstLine(g, i) == Names(g, i) /\ \A j \in 1..(i - 1) : ~Names(g, j)

HasLine(g) == \E i \in Places : Names(g, i)

\* The digest of the line of g at place i: none when something was written over it.
Key(g, i) ==
  LET c == text[i + NameLen[g] + 1]
  IN  IF IsDigest(c) THEN c.text ELSE None

\* Some line is longer than a line of the program, or a digest lost its colon: the
\* buffers of sscanf are too small for it.
Overruns ==
  \E i \in 1..(size - 1) :
    \/ text[i] = Hole
    \/ IsDigest(text[i]) /\ (i = 1 \/ ~IsColon(text[i - 1]) \/ ~IsNewline(text[i + 1]))
    \/ IsColon(text[i]) /\ ~IsDigest(text[i + 1])

-----------------------------------------------------------------------------
Goto(p, l) == pc' = [pc EXCEPT ![p] = l]

\* The function returns: its stream and its locals are gone.
Returns(p, v) ==
  /\ Goto(p, "idle")
  /\ verdict' = [verdict EXCEPT ![p] = v]
  /\ at' = [at EXCEPT ![p] = 0]
  /\ retries' = [retries EXCEPT ![p] = 0]

Init ==
  /\ pc = [p \in Procs |-> "idle"]
  /\ \E l \in Logins : game = [p \in Procs |-> l[1]] /\ digest = [p \in Procs |-> l[2]]
  /\ at = [p \in Procs |-> 0]
  /\ retries = [p \in Procs |-> 0]
  /\ verdict = [p \in Procs |-> "none"]
  /\ exists = FALSE /\ size = 0 /\ text = [i \in Places |-> Hole]
  /\ trusted = {} /\ first = [g \in Games |-> None] /\ overlaid = FALSE

\* libssh2_connect has the digest of the server's host key.
Login(p, g, d) ==
  /\ pc[p] = "idle"
  /\ Goto(p, "fopen")
  /\ game' = [game EXCEPT ![p] = g]
  /\ digest' = [digest EXCEPT ![p] = d]
  /\ verdict' = [verdict EXCEPT ![p] = "none"]
  /\ UNCHANGED <<at, retries, fileVars, history>>

\* fopen(.., "r+"): at the start of the file, if there is one.
Fopen(p) ==
  /\ pc[p] = "fopen"
  /\ Goto(p, IF exists THEN "scan" ELSE "create")
  /\ UNCHANGED <<game, digest, at, retries, verdict, fileVars, history>>

\* fopen(.., "w"): there was no file before, and this one is empty; what another
\* login has created and written in the meantime is gone.  The stream cannot be
\* read, so that nothing is scanned.
FopenCreate(p) ==
  /\ pc[p] = "create"
  /\ Goto(p, "seek")
  /\ exists' = TRUE
  /\ size' = 0
  /\ text' = [i \in Places |-> Hole]
  /\ overlaid' = (overlaid \/ size > 0)
  /\ UNCHANGED <<game, digest, at, retries, verdict, trusted, first>>

FopenFails(p) ==
  /\ pc[p] = "create"
  /\ Returns(p, "refused")
  /\ UNCHANGED <<game, digest, fileVars, history>>

\* Mutant of ScanMatch: the digest is not compared.
ScanMatchAny(p) ==
  /\ pc[p] = "scan"
  /\ HasLine(game[p])
  /\ Returns(p, "known")
  /\ UNCHANGED <<game, digest, fileVars, history>>

\* The loop of fgets: the first line of the game decides.
ScanMatch(p) ==
  /\ pc[p] = "scan"
  /\ \E i \in Places :
       /\ IsFirstLine(game[p], i)
       /\ Returns(p, IF Key(game[p], i) = Text(digest[p]) THEN "known" ELSE "changed")
  /\ UNCHANGED <<game, digest, fileVars, history>>

ScanNoMatch(p) ==
  /\ pc[p] = "scan"
  /\ ~HasLine(game[p])
  /\ Goto(p, "seek")
  /\ UNCHANGED <<game, digest, at, retries, verdict, fileVars, history>>

\* A line that does not fit writes over the stack: the program may be killed.
ScanKilled(p) ==
  /\ pc[p] = "scan"
  /\ Overruns
  /\ Returns(p, "killed")
  /\ UNCHANGED <<game, digest, fileVars, history>>

\* fseek(fp, 0, SEEK_END)
Seek(p) ==
  /\ pc[p] = "seek"
  /\ Goto(p, "ask")
  /\ at' = [at EXCEPT ![p] = size]
  /\ UNCHANGED <<game, digest, retries, verdict, fileVars, history>>

\* The user says yes: fprintf and fclose write the line where the stream stands.
AnswerYes(p) ==
  LET g == game[p]
      t == Text(digest[p])
      n == LineLen(g)
  IN  /\ pc[p] = "ask"
      /\ at[p] + n <= MaxSize
      /\ Returns(p, "trusted")
      /\ text' = [i \in Places |->
                    IF i > at[p] /\ i <= at[p] + n THEN Piece(g, t, i - at[p]) ELSE text[i]]
      /\ size' = IF size < at[p] + n THEN at[p] + n ELSE size
      /\ trusted' = trusted \cup {<<g, digest[p]>>}
      /\ first' = [first EXCEPT ![g] = IF @ = None THEN t ELSE @]
      /\ overlaid' = (overlaid \/ at[p] # size)
      /\ UNCHANGED <<game, digest, exists>>

\* The user says no.
AnswerNo(p) ==
  /\ pc[p] = "ask"
  /\ Returns(p, "refused")
  /\ UNCHANGED <<game, digest, fileVars, history>>

\* Mutant of AnswerNeither: the answers are not counted right.
AnswerNeitherMore(p) ==
  /\ pc[p] = "ask"
  /\ IF retries[p] < 3
       THEN retries' = [retries EXCEPT ![p] = @ + 1] /\ UNCHANGED <<pc, at, verdict>>
       ELSE Returns(p, "refused")
  /\ UNCHANGED <<game, digest, fileVars, history>>

\* Another answer, or none because the input is at its end: the question is asked
\* again, up to three times.
AnswerNeither(p) ==
  /\ pc[p] = "ask"
  /\ IF retries[p] < 2
       THEN retries' = [retries EXCEPT ![p] = @ + 1] /\ UNCHANGED <<pc, at, verdict>>
       ELSE Returns(p, "refused")
  /\ UNCHANGED <<game, digest, fileVars, history>>

Next ==
  \E p \in Procs :
    \/ \E l \in Logins : Login(p, l[1], l[2])
    \/ Fopen(p) \/ FopenCreate(p) \/ FopenFails(p)
    \/ ScanMatch(p) \/ ScanNoMatch(p) \/ ScanKilled(p) \/ Seek(p)
    \/ AnswerYes(p) \/ AnswerNo(p) \/ AnswerNeither(p)

Spec == Init /\ [][Next]_vars
-----------------------------------------------------------------------------
(* Properties *)

TypeOK ==
  /\ pc \in [Procs -> {"idle", "fopen", "create", "scan", "seek", "ask"}]
  /\ game \in [Procs -> Games] /\ digest \in [Procs -> Digests]
  /\ at \in [Procs -> 0..MaxSize] /\ retries \in [Procs -> 0..2]
  /\ verdict \in [Procs -> {"none", "known", "changed", "trusted", "refused", "killed"}]
  /\ exists \in BOOLEAN /\ size \in 0..MaxSize
  /\ text \in [Places -> Pieces \cup {Hole}]
  /\ trusted \subseteq Games \X Digests
  /\ first \in [Games -> Texts \cup {None}] /\ overlaid \in BOOLEAN

(***************************************************************************)
(* A login passes without a question only when the user once said yes to   *)
(* that game with that key, up to the low bits of the bytes above 0x7f,    *)
(* however many logins wrote over each other's lines.  (fgets, sscanf and  *)
(* the two strncmp, over a file of lines, tails of lines and holes)        *)
(***************************************************************************)
SilentOnlyIfTrusted ==
  \A p \in Procs : verdict[p] = "known" =>
    \E d \in Digests : <<game[p], d>> \in trusted /\ LooksLike(d, digest[p])

(***************************************************************************)
(* While no line and no fopen has fallen on lines already there, the file  *)
(* is a map from games to keys that only grows: the line found for a game  *)
(* is the first the user said yes to, although later ones may follow it.   *)
(***************************************************************************)
FirstTrustedFound ==
  ~overlaid =>
    \A g \in Games :
      /\ HasLine(g) <=> first[g] # None
      /\ \A i \in Places : IsFirstLine(g, i) => Key(g, i) = first[g]

(***************************************************************************)
(* Under the same condition "its hostkey has changed" (validate.c:75-78)   *)
(* is said only of a key that differs from the one the user trusted.       *)
(***************************************************************************)
AlarmOnlyIfChanged ==
  ~overlaid =>
    \A p \in Procs : verdict[p] = "changed" =>
      first[game[p]] # None /\ first[game[p]] # Text(digest[p])

(***************************************************************************)
(* The text a login compares and writes is its digest with "FF" for every  *)
(* byte above 0x7f, although each of those prints as eight digits into a   *)
(* place for two.  (validate.c:57-61)                                      *)
(***************************************************************************)
TextOfDigest == \A p \in Procs : Prints(digest[p])
=============================================================================
