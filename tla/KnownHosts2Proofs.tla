-------------------------- MODULE KnownHosts2Proofs --------------------------
(***************************************************************************)
(* Theorems about KnownHosts2, for any number of logins at once, any games *)
(* and digests, and lines that fall on one another in any way.             *)
(***************************************************************************)
EXTENDS KnownHosts2, WellFoundedInduction, TLAPS

\* Piece c may come after piece b: the next of its line, or what is left of a line
\* after the newline of another that was written over it.
Follows(c, b) ==
  c.k > 1 => b # Hole /\ (b = Piece(c.game, c.text, c.k - 1) \/ IsNewline(b))

LinesFollow ==
  \A i \in Places : text[i] # Hole =>
    /\ i = 1 => text[i].k = 1
    /\ i > 1 => Follows(text[i], text[i - 1])

\* Every piece is of a line the user said yes to.
LinesTrusted ==
  \A i \in Places : text[i] # Hole =>
    \E d \in Digests : <<text[i].game, d>> \in trusted /\ text[i].text = Text(d)

\* SilentOnlyIfTrusted in terms of texts.
SilentTexts ==
  \A p \in Procs : verdict[p] = "known" =>
    \E d \in Digests : <<game[p], d>> \in trusted /\ Text(d) = Text(digest[p])

-----------------------------------------------------------------------------
LEMMA PieceFields ==
  ASSUME NEW c \in Pieces
  PROVE  /\ c.game \in Games /\ c.text \in Texts /\ c.k \in 1..LineLen(c.game)
         /\ NameLen[c.game] \in Nat \ {0}
         /\ c = Piece(c.game, c.text, c.k)
PROOF
  <1>1. PICK g \in Games : \E t \in Texts, k \in 1..LineLen(g) : c = Piece(g, t, k)
    BY DEF Pieces
  <1>. PICK t \in Texts, k \in 1..LineLen(g) : c = Piece(g, t, k)
    BY <1>1
  <1>2. c.game = g /\ c.text = t /\ c.k = k
    BY DEF Piece
  <1> QED
    BY <1>2, GamesAssumption

LEMMA PieceIn ==
  ASSUME NEW g \in Games, NEW t \in Texts, NEW k \in 1..LineLen(g)
  PROVE  /\ Piece(g, t, k) \in Pieces /\ Piece(g, t, k) # Hole
         /\ Piece(g, t, k).game = g /\ Piece(g, t, k).text = t /\ Piece(g, t, k).k = k
PROOF
  BY HoleAssumption DEF Pieces, Piece

LEMMA LineLenNat == \A g \in Games : LineLen(g) \in Nat /\ LineLen(g) >= 4
PROOF
  BY GamesAssumption DEF LineLen

\* Equal texts are of digests that differ at most in bytes above 0x7f.
LEMMA TextsLookAlike ==
  ASSUME NEW d \in Digest, NEW e \in Digest, Text(d) = Text(e)
  PROVE  LooksLike(d, e)
PROOF
  <1> SUFFICES ASSUME NEW i \in 1..Width, d[i] # e[i]
               PROVE  IsNegative(d[i]) /\ IsNegative(e[i])
    BY DEF LooksLike
  <1>1. Text(d)[i] = Text(e)[i]
    OBVIOUS
  <1>2. Text(d)[i] = (IF IsNegative(d[i]) THEN <<15, 15>> ELSE d[i])
    BY DEF Text
  <1>3. Text(e)[i] = (IF IsNegative(e[i]) THEN <<15, 15>> ELSE e[i])
    BY DEF Text
  <1>4. IsNegative(<<15, 15>>)
    BY DEF IsNegative
  <1> QED
    BY <1>1, <1>2, <1>3, <1>4

-----------------------------------------------------------------------------
LEMMA TypeInit == Init => TypeOK
PROOF
  <1> SUFFICES ASSUME Init PROVE TypeOK
    OBVIOUS
  <1>1. PICK l \in Logins : game = [p \in Procs |-> l[1]] /\ digest = [p \in Procs |-> l[2]]
    BY DEF Init
  <1>2. game \in [Procs -> Games] /\ digest \in [Procs -> Digests]
    BY <1>1, GamesAssumption
  <1>3. exists \in BOOLEAN /\ overlaid \in BOOLEAN
    BY DEF Init
  <1>4. /\ pc \in [Procs -> {"idle", "fopen", "create", "scan", "seek", "ask"}]
        /\ at \in [Procs -> 0..MaxSize] /\ retries \in [Procs -> 0..2]
        /\ verdict \in [Procs -> {"none", "known", "changed", "trusted", "refused", "killed"}]
        /\ size \in 0..MaxSize
    BY GamesAssumption DEF Init
  <1>5. /\ text \in [Places -> Pieces \cup {Hole}]
        /\ trusted \subseteq Games \X Digests
        /\ first \in [Games -> Texts \cup {None}]
    BY DEF Init
  <1> QED
    BY <1>2, <1>3, <1>4, <1>5 DEF TypeOK

LEMMA ReturnsType ==
  ASSUME TypeOK, NEW p \in Procs,
         NEW v \in {"known", "changed", "trusted", "refused", "killed"}, Returns(p, v)
  PROVE  /\ pc' \in [Procs -> {"idle", "fopen", "create", "scan", "seek", "ask"}]
         /\ at' \in [Procs -> 0..MaxSize] /\ retries' \in [Procs -> 0..2]
         /\ verdict' \in [Procs -> {"none", "known", "changed", "trusted", "refused", "killed"}]
PROOF
  BY GamesAssumption DEF TypeOK, Returns, Goto

\* What AnswerYes makes of the file.
LEMMA WrittenPieces ==
  ASSUME TypeOK, NEW p \in Procs, AnswerYes(p)
  PROVE  /\ game[p] \in Games /\ Text(digest[p]) \in Texts
         /\ at[p] \in Nat /\ LineLen(game[p]) \in Nat /\ at[p] + LineLen(game[p]) <= MaxSize
         /\ \A i \in Places :
              text'[i] = IF i > at[p] /\ i <= at[p] + LineLen(game[p])
                           THEN Piece(game[p], Text(digest[p]), i - at[p]) ELSE text[i]
         /\ \A i \in Places : i > at[p] /\ i <= at[p] + LineLen(game[p]) =>
              i - at[p] \in 1..LineLen(game[p])
PROOF
  BY GamesAssumption, LineLenNat DEF TypeOK, AnswerYes, Texts, Places

LEMMA TypeStep == TypeOK /\ [Next]_vars => TypeOK'
PROOF
  <1> SUFFICES ASSUME TypeOK, [Next]_vars PROVE TypeOK'
    OBVIOUS
  <1> USE GamesAssumption
  <1>1. ASSUME NEW p \in Procs, NEW l \in Logins, Login(p, l[1], l[2]) PROVE TypeOK'
    <2>1. l[1] \in Games /\ l[2] \in Digests
      OBVIOUS
    <2> QED
      BY <1>1, <2>1 DEF TypeOK, Login, Goto, fileVars, history
  <1>2. ASSUME NEW p \in Procs, Fopen(p) \/ ScanNoMatch(p) \/ Seek(p) PROVE TypeOK'
    BY <1>2 DEF TypeOK, Fopen, ScanNoMatch, Seek, Goto, fileVars, history
  <1>3. ASSUME NEW p \in Procs, FopenCreate(p) PROVE TypeOK'
    BY <1>3 DEF TypeOK, FopenCreate, Goto, Places
  <1>4. ASSUME NEW p \in Procs, FopenFails(p) \/ ScanMatch(p) \/ ScanKilled(p) \/ AnswerNo(p)
        PROVE  TypeOK'
    BY <1>4 DEF TypeOK, FopenFails, ScanMatch, ScanKilled, AnswerNo, Returns, Goto,
                fileVars, history
  <1>5. ASSUME NEW p \in Procs, AnswerNeither(p) PROVE TypeOK'
    BY <1>5 DEF TypeOK, AnswerNeither, Returns, Goto, fileVars, history
  <1>6. ASSUME NEW p \in Procs, AnswerYes(p) PROVE TypeOK'
    <2>1. text' \in [Places -> Pieces \cup {Hole}]
      BY <1>6, WrittenPieces, PieceIn DEF TypeOK, AnswerYes
    <2>2. size' \in 0..MaxSize
      BY <1>6, WrittenPieces DEF TypeOK, AnswerYes
    <2>5. trusted' \subseteq Games \X Digests
      BY <1>6 DEF TypeOK, AnswerYes
    <2>6. first' \in [Games -> Texts \cup {None}]
      BY <1>6, WrittenPieces DEF TypeOK, AnswerYes
    <2>3. /\ pc' \in [Procs -> {"idle", "fopen", "create", "scan", "seek", "ask"}]
          /\ at' \in [Procs -> 0..MaxSize] /\ retries' \in [Procs -> 0..2]
          /\ verdict' \in [Procs -> {"none", "known", "changed", "trusted", "refused", "killed"}]
      BY <1>6, ReturnsType DEF AnswerYes
    <2>4. overlaid' \in BOOLEAN /\ exists' \in BOOLEAN /\ UNCHANGED <<game, digest>>
      BY <1>6 DEF TypeOK, AnswerYes
    <2> QED
      BY <2>1, <2>2, <2>3, <2>4, <2>5, <2>6 DEF TypeOK
  <1>7. CASE UNCHANGED vars
    BY <1>7 DEF TypeOK, vars, procVars, fileVars, history
  <1> QED
    BY <1>1, <1>2, <1>3, <1>4, <1>5, <1>6, <1>7 DEF Next

(***************************************************************************)
(* Type correctness: offsets stay within the file's bound and every piece  *)
(* of the file is one the program writes, or a hole.                       *)
(***************************************************************************)
THEOREM TypeCorrect == Spec => []TypeOK
PROOF
  BY TypeInit, TypeStep, PTL DEF Spec

-----------------------------------------------------------------------------
LEMMA SilentInit == Init => LinesFollow /\ LinesTrusted /\ SilentTexts
PROOF
  BY DEF Init, LinesFollow, LinesTrusted, SilentTexts, Places

\* A line falls whole on the file, and its newline parts it from what follows.
LEMMA LinesFollowStep == TypeOK /\ LinesFollow /\ [Next]_vars => LinesFollow'
PROOF
  <1> SUFFICES ASSUME TypeOK, LinesFollow, [Next]_vars PROVE LinesFollow'
    OBVIOUS
  <1>1. CASE UNCHANGED text
    BY <1>1 DEF LinesFollow, Follows, IsNewline
  <1>2. ASSUME NEW p \in Procs, FopenCreate(p) PROVE LinesFollow'
    BY <1>2 DEF FopenCreate, LinesFollow
  <1>3. ASSUME NEW p \in Procs, AnswerYes(p) PROVE LinesFollow'
    <2> DEFINE g == game[p]
               t == Text(digest[p])
               o == at[p]
               n == LineLen(game[p])
               New(i) == i > o /\ i <= o + n
    <2>1. /\ g \in Games /\ t \in Texts /\ o \in Nat /\ n \in Nat /\ n >= 4
          /\ n = NameLen[g] + 3 /\ NameLen[g] \in Nat
          /\ \A i \in Places : text'[i] = IF New(i) THEN Piece(g, t, i - o) ELSE text[i]
          /\ \A i \in Places : New(i) => i - o \in 1..n
      BY <1>3, WrittenPieces, LineLenNat, GamesAssumption DEF LineLen
    <2> HIDE DEF g, t, o, n
    <2> SUFFICES ASSUME NEW i \in Places, text'[i] # Hole
                 PROVE  /\ i = 1 => text'[i].k = 1
                        /\ i > 1 => Follows(text'[i], text'[i - 1])
      BY DEF LinesFollow
    <2>2. i \in Nat /\ i >= 1 /\ (i > 1 => i - 1 \in Places)
      BY GamesAssumption DEF Places
    <2>3. CASE New(i)
      <3>1. text'[i] = Piece(g, t, i - o) /\ i - o \in 1..n
        BY <2>1, <2>3
      <3>2. text'[i].game = g /\ text'[i].text = t /\ text'[i].k = i - o
        BY <3>1 DEF Piece
      <3>3. CASE i = o + 1
        BY <3>2, <3>3, <2>1, <2>2 DEF Follows
      <3>4. CASE i # o + 1
        <4>1. i > 1 /\ New(i - 1) /\ (i - 1) - o = (i - o) - 1 /\ (i - o) - 1 \in 1..n
          BY <3>4, <2>1, <2>2, <2>3
        <4>2. text'[i - 1] = Piece(g, t, (i - o) - 1)
          BY <4>1, <2>1, <2>2
        <4>3. Piece(g, t, (i - o) - 1) # Hole
          BY <4>1, <2>1, PieceIn DEF n, g
        <4> QED
          BY <3>2, <4>1, <4>2, <4>3 DEF Follows
      <3> QED
        BY <3>3, <3>4
    <2>4. CASE ~New(i)
      <3>1. text'[i] = text[i]
        BY <2>1, <2>4
      <3>2. /\ i = 1 => text[i].k = 1
            /\ i > 1 => Follows(text[i], text[i - 1])
        BY <3>1 DEF LinesFollow
      <3>3. CASE i > 1 /\ New(i - 1)
        <4>1. (i - 1) - o = n
          BY <3>3, <2>1, <2>2, <2>4
        <4>2. text'[i - 1] = Piece(g, t, n) /\ n \in 1..n
          BY <3>3, <4>1, <2>1, <2>2
        <4>3. IsNewline(text'[i - 1])
          BY <4>2, <2>1, PieceIn DEF IsNewline, n, g
        <4>4. text'[i - 1] # Hole
          BY <4>3 DEF IsNewline
        <4> QED
          BY <3>1, <3>3, <4>3, <4>4 DEF Follows
      <3>4. CASE i > 1 /\ ~New(i - 1)
        BY <3>1, <3>2, <3>4, <2>1, <2>2 DEF Follows
      <3>5. CASE ~(i > 1)
        BY <3>1, <3>2, <3>5
      <3> QED
        BY <3>3, <3>4, <3>5
    <2> QED
      BY <2>3, <2>4
  <1>4. UNCHANGED text \/ (\E p \in Procs : FopenCreate(p) \/ AnswerYes(p))
    BY DEF Next, Login, Fopen, FopenFails, ScanMatch, ScanNoMatch, ScanKilled, Seek,
           AnswerNo, AnswerNeither, vars, fileVars
  <1> QED
    BY <1>1, <1>2, <1>3, <1>4

LEMMA LinesTrustedStep == TypeOK /\ LinesTrusted /\ [Next]_vars => LinesTrusted'
PROOF
  <1> SUFFICES ASSUME TypeOK, LinesTrusted, [Next]_vars PROVE LinesTrusted'
    OBVIOUS
  <1>1. CASE UNCHANGED <<text, trusted>>
    BY <1>1 DEF LinesTrusted
  <1>2. ASSUME NEW p \in Procs, FopenCreate(p) PROVE LinesTrusted'
    BY <1>2 DEF FopenCreate, LinesTrusted
  <1>3. ASSUME NEW p \in Procs, AnswerYes(p) PROVE LinesTrusted'
    <2> SUFFICES ASSUME NEW i \in Places, text'[i] # Hole
                 PROVE  \E d \in Digests :
                          <<text'[i].game, d>> \in trusted' /\ text'[i].text = Text(d)
      BY DEF LinesTrusted
    <2>1. trusted' = trusted \cup {<<game[p], digest[p]>>} /\ digest[p] \in Digests
      BY <1>3 DEF AnswerYes, TypeOK
    <2>2. CASE text'[i] = text[i]
      BY <2>1, <2>2 DEF LinesTrusted
    <2>3. CASE text'[i] = Piece(game[p], Text(digest[p]), i - at[p])
      BY <2>1, <2>3 DEF Piece
    <2> QED
      BY <1>3, <2>2, <2>3, WrittenPieces
  <1>4. UNCHANGED <<text, trusted>> \/ (\E p \in Procs : FopenCreate(p) \/ AnswerYes(p))
    BY DEF Next, Login, Fopen, FopenFails, ScanMatch, ScanNoMatch, ScanKilled, Seek,
           AnswerNo, AnswerNeither, vars, fileVars, history
  <1> QED
    BY <1>1, <1>2, <1>3, <1>4

\* What the reader finds under the name of g was written for g.
LEMMA DigestOfItsName ==
  ASSUME TypeOK, LinesFollow, NEW g \in Games, NEW i \in Places, Names(g, i),
         IsDigest(text[i + NameLen[g] + 1])
  PROVE  /\ i + NameLen[g] + 1 \in Places
         /\ text[i + NameLen[g] + 1].game = g
PROOF
  <1> DEFINE j == i + NameLen[g]
             c == text[j + 1]
             b == text[j]
             a == text[j - 1]
  <1>1. /\ NameLen[g] \in Nat /\ NameLen[g] >= 1 /\ i \in Nat /\ i >= 1
        /\ j \in Places /\ j + 1 \in Places /\ j - 1 \in Places /\ j > 1
    BY GamesAssumption DEF Names, TypeOK, Places
  <1>2. c # Hole /\ c \in Pieces /\ c.k = NameLen[c.game] + 2
    BY <1>1 DEF IsDigest, TypeOK
  <1>3. b # Hole /\ b \in Pieces /\ b.k = NameLen[b.game] + 1
    BY <1>1 DEF Names, IsColon, TypeOK
  <1>4. a # Hole /\ a \in Pieces /\ a.game = g /\ a.k = NameLen[g]
    <2>1. NameLen[g] \in 1..NameLen[g] /\ i + NameLen[g] - 1 = j - 1
      BY <1>1
    <2> QED
      BY <1>1, <2>1 DEF Names, TypeOK
  <1>5. NameLen[b.game] \in Nat /\ NameLen[c.game] \in Nat /\ NameLen[b.game] >= 1
    BY <1>2, <1>3, PieceFields
  <1>6. Follows(c, b) /\ Follows(b, a)
    <2>1. (j + 1) - 1 = j /\ j + 1 > 1
      BY <1>1
    <2> QED
      BY <1>1, <1>2, <1>3, <2>1 DEF LinesFollow
  <1> HIDE DEF a, b, c
  <1>7. b.game = c.game
    BY <1>2, <1>3, <1>5, <1>6 DEF Follows, IsNewline, Piece
  <1>8. a.game = b.game
    BY <1>1, <1>3, <1>4, <1>5, <1>6 DEF Follows, IsNewline, Piece
  <1> QED
    BY <1>1, <1>4, <1>7, <1>8 DEF c

LEMMA SilentStep ==
  TypeOK /\ LinesFollow /\ LinesTrusted /\ SilentTexts /\ [Next]_vars => SilentTexts'
PROOF
  <1> SUFFICES ASSUME TypeOK, LinesFollow, LinesTrusted, SilentTexts, [Next]_vars,
                      NEW q \in Procs, verdict'[q] = "known"
               PROVE  \E d \in Digests :
                        <<game'[q], d>> \in trusted' /\ Text(d) = Text(digest'[q])
    BY DEF SilentTexts
  <1>1. CASE verdict'[q] = verdict[q] /\ game'[q] = game[q] /\ digest'[q] = digest[q]
    <2>1. trusted \subseteq trusted'
      BY DEF Next, Login, Fopen, FopenCreate, FopenFails, ScanMatch, ScanNoMatch, ScanKilled,
             Seek, AnswerYes, AnswerNo, AnswerNeither, vars, history
    <2> QED
      BY <1>1, <2>1 DEF SilentTexts
  <1>2. CASE ScanMatch(q)
    <2>1. PICK i \in Places :
            /\ IsFirstLine(game[q], i)
            /\ Returns(q, IF Key(game[q], i) = Text(digest[q]) THEN "known" ELSE "changed")
      BY <1>2 DEF ScanMatch
    <2>2. game' = game /\ digest' = digest /\ trusted' = trusted
      BY <1>2 DEF ScanMatch, history
    <2>3. game[q] \in Games /\ digest[q] \in Digests
      BY DEF TypeOK
    <2>4. Key(game[q], i) = Text(digest[q])
      BY <2>1 DEF Returns, TypeOK
    <2>5. Text(digest[q]) # None
      BY <2>3, NoneAssumption DEF Texts
    <2> DEFINE c == text[i + NameLen[game[q]] + 1]
    <2>6. IsDigest(c) /\ c.text = Text(digest[q])
      BY <2>4, <2>5 DEF Key
    <2>7. i + NameLen[game[q]] + 1 \in Places /\ c.game = game[q]
      BY <2>1, <2>3, <2>6, DigestOfItsName DEF IsFirstLine
    <2>8. c # Hole
      BY <2>6 DEF IsDigest
    <2> QED
      BY <2>2, <2>6, <2>7, <2>8 DEF LinesTrusted
  <1>3. (verdict'[q] = verdict[q] /\ game'[q] = game[q] /\ digest'[q] = digest[q])
          \/ ScanMatch(q)
    <2>1. ASSUME NEW p \in Procs, NEW l \in Logins, Login(p, l[1], l[2])
          PROVE  verdict'[q] = verdict[q] /\ game'[q] = game[q] /\ digest'[q] = digest[q]
      BY <2>1 DEF Login, TypeOK
    <2>2. ASSUME NEW p \in Procs, Fopen(p) \/ FopenCreate(p) \/ ScanNoMatch(p) \/ Seek(p)
          PROVE  verdict' = verdict /\ game' = game /\ digest' = digest
      BY <2>2 DEF Fopen, FopenCreate, ScanNoMatch, Seek
    <2>3. ASSUME NEW p \in Procs,
                 FopenFails(p) \/ ScanKilled(p) \/ AnswerYes(p) \/ AnswerNo(p) \/ AnswerNeither(p)
          PROVE  verdict'[q] = verdict[q] /\ game' = game /\ digest' = digest
      BY <2>3 DEF FopenFails, ScanKilled, AnswerYes, AnswerNo, AnswerNeither, Returns, TypeOK
    <2>4. ASSUME NEW p \in Procs, p # q, ScanMatch(p)
          PROVE  verdict'[q] = verdict[q] /\ game' = game /\ digest' = digest
      BY <2>4 DEF ScanMatch, Returns, TypeOK
    <2>5. CASE UNCHANGED vars
      BY <2>5 DEF vars, procVars
    <2> QED
      BY <2>1, <2>2, <2>3, <2>4, <2>5 DEF Next
  <1> QED
    BY <1>1, <1>2, <1>3

LEMMA SilentTextsEnough == TypeOK /\ SilentTexts => SilentOnlyIfTrusted
PROOF
  <1> SUFFICES ASSUME TypeOK, SilentTexts, NEW p \in Procs, verdict[p] = "known"
               PROVE  \E d \in Digests : <<game[p], d>> \in trusted /\ LooksLike(d, digest[p])
    BY DEF SilentOnlyIfTrusted
  <1>1. PICK d \in Digests : <<game[p], d>> \in trusted /\ Text(d) = Text(digest[p])
    BY DEF SilentTexts
  <1>2. d \in Digest /\ digest[p] \in Digest
    BY GamesAssumption DEF TypeOK
  <1> QED
    BY <1>1, <1>2, TextsLookAlike

(***************************************************************************)
(* However many logins write over each other's lines, none passes without  *)
(* a question unless the user trusted that key, up to the low bits of its  *)
(* bytes above 0x7f, for that game.                                        *)
(***************************************************************************)
THEOREM AlwaysAskedBefore == Spec => []SilentOnlyIfTrusted
PROOF
  <1>1. Init => TypeOK /\ LinesFollow /\ LinesTrusted /\ SilentTexts
    BY TypeInit, SilentInit
  <1>2. TypeOK /\ LinesFollow /\ LinesTrusted /\ SilentTexts /\ [Next]_vars
          => TypeOK' /\ LinesFollow' /\ LinesTrusted' /\ SilentTexts'
    BY TypeStep, LinesFollowStep, LinesTrustedStep, SilentStep
  <1> QED
    BY <1>1, <1>2, SilentTextsEnough, PTL DEF Spec
-----------------------------------------------------------------------------
(* While no line has fallen on another: the file is a row of whole lines *)

\* A line of g begins at place i.
Begins(g, i) == i \in 1..size /\ text[i] # Hole /\ text[i].game = g /\ text[i].k = 1

\* Piece i stands in a whole line of its game and text.
InWholeLine(i) ==
  LET c == text[i]
  IN  /\ c # Hole /\ c.k <= i /\ i - c.k + LineLen(c.game) <= size
      /\ \A k \in 1..LineLen(c.game) : text[i - c.k + k] = Piece(c.game, c.text, k)

WholeLines == ~overlaid => \A i \in 1..size : InWholeLine(i)

\* The first line of every game is the first the user said yes to.
FirstKept ==
  ~overlaid =>
    \A g \in Games :
      /\ (\E i \in Places : Begins(g, i)) <=> first[g] # None
      /\ \A i \in Places : Begins(g, i) /\ (\A j \in 1..(i - 1) : ~Begins(g, j)) =>
           text[i].text = first[g]

LEMMA WholeInit == Init => WholeLines /\ FirstKept
PROOF
  <1>1. Init => size = 0 /\ first = [g \in Games |-> None]
    BY DEF Init
  <1> QED
    BY <1>1 DEF WholeLines, FirstKept, Begins

\* The two steps that write the file, while nothing has fallen on anything: an
\* empty file is made, or a line is put after the last one.
LEMMA FileSteps ==
  ASSUME TypeOK, [Next]_vars, ~overlaid'
  PROVE  /\ ~overlaid
         /\ \/ UNCHANGED <<size, text, first>>
            \/ size = 0 /\ size' = 0 /\ first' = first
            \/ \E p \in Procs : AnswerYes(p) /\ at[p] = size /\ size' = size + LineLen(game[p])
PROOF
  <1>1. CASE UNCHANGED <<size, text, first, overlaid>>
    BY <1>1
  <1>2. ASSUME NEW p \in Procs, FopenCreate(p)
        PROVE  ~overlaid /\ size = 0 /\ size' = 0 /\ first' = first
    <2>1. ~(overlaid \/ size > 0)
      BY <1>2 DEF FopenCreate
    <2>2. size \in Nat
      BY GamesAssumption DEF TypeOK
    <2>3. size' = 0 /\ first' = first
      BY <1>2 DEF FopenCreate
    <2> QED
      BY <2>1, <2>2, <2>3
  <1>3. ASSUME NEW p \in Procs, AnswerYes(p)
        PROVE  ~overlaid /\ at[p] = size /\ size' = size + LineLen(game[p])
    <2>1. size \in Nat /\ LineLen(game[p]) \in Nat /\ LineLen(game[p]) >= 4
      BY LineLenNat, GamesAssumption DEF TypeOK
    <2>2. ~(overlaid \/ at[p] # size)
      BY <1>3 DEF AnswerYes
    <2>3. size' = IF size < at[p] + LineLen(game[p]) THEN at[p] + LineLen(game[p]) ELSE size
      BY <1>3 DEF AnswerYes
    <2> QED
      BY <2>1, <2>2, <2>3
  <1>4. UNCHANGED <<size, text, first, overlaid>>
          \/ (\E p \in Procs : FopenCreate(p) \/ AnswerYes(p))
    BY DEF Next, Login, Fopen, FopenFails, ScanMatch, ScanNoMatch, ScanKilled, Seek,
           AnswerNo, AnswerNeither, vars, fileVars, history
  <1> QED
    BY <1>1, <1>2, <1>3, <1>4

\* A line put at the end of the file leaves the pieces before it alone.
LEMMA Appended ==
  ASSUME TypeOK, NEW p \in Procs, AnswerYes(p), at[p] = size,
         size' = size + LineLen(game[p])
  PROVE  /\ size \in Nat /\ size' \in 0..MaxSize /\ size' > size
         /\ \A i \in 1..size : text'[i] = text[i]
         /\ \A i \in (size + 1)..size' :
              /\ text'[i] = Piece(game[p], Text(digest[p]), i - size)
              /\ i - size \in 1..LineLen(game[p])
PROOF
  <1>1. size \in Nat /\ LineLen(game[p]) \in Nat /\ LineLen(game[p]) >= 4
    BY LineLenNat, GamesAssumption DEF TypeOK
  <1>2. size' \in 0..MaxSize /\ size' > size
    BY <1>1, WrittenPieces
  <1>3. \A i \in 1..size' : i \in Places
    BY <1>2, GamesAssumption DEF Places
  <1> QED
    BY <1>1, <1>2, <1>3, WrittenPieces

LEMMA WholeLinesStep == TypeOK /\ WholeLines /\ [Next]_vars => WholeLines'
PROOF
  <1> SUFFICES ASSUME TypeOK, WholeLines, [Next]_vars, ~overlaid', NEW i \in 1..size'
               PROVE  InWholeLine(i)'
    BY DEF WholeLines
  <1>0. size \in Nat /\ size' \in Nat
    BY TypeStep, GamesAssumption DEF TypeOK
  <1>1. CASE UNCHANGED <<size, text>>
    BY <1>1, FileSteps DEF WholeLines, InWholeLine
  <1>2. CASE size' = 0
    BY <1>2
  <1>3. ASSUME NEW p \in Procs, AnswerYes(p), at[p] = size,
               size' = size + LineLen(game[p])
        PROVE  InWholeLine(i)'
    <2> DEFINE g == game[p]
               t == Text(digest[p])
               n == LineLen(g)
    <2>1. /\ g \in Games /\ t \in Texts /\ n \in Nat /\ size' = size + n
          /\ \A j \in 1..size : text'[j] = text[j]
          /\ \A j \in (size + 1)..size' : text'[j] = Piece(g, t, j - size) /\ j - size \in 1..n
      BY <1>3, WrittenPieces, Appended
    <2>2. CASE i <= size
      <3> DEFINE c == text[i]
      <3>1. InWholeLine(i) /\ i \in Places /\ i \in 1..size
        BY <2>2, <1>0, FileSteps, GamesAssumption DEF WholeLines, TypeOK, Places
      <3>2. c # Hole /\ c \in Pieces
        BY <3>1 DEF InWholeLine, TypeOK
      <3>3. c.k \in Nat /\ LineLen(c.game) \in Nat
        BY <3>2, PieceFields DEF LineLen
      <3>4. /\ c.k <= i /\ i - c.k + LineLen(c.game) <= size
            /\ \A k \in 1..LineLen(c.game) : text[i - c.k + k] = Piece(c.game, c.text, k)
        BY <3>1 DEF InWholeLine
      <3>5. \A k \in 1..LineLen(c.game) : i - c.k + k \in 1..size
        BY <3>3, <3>4, <3>1, <1>0
      <3>6. text'[i] = c
        BY <2>1, <3>1
      <3>7. size <= size'
        BY <2>1, <1>0
      <3> HIDE DEF c
      <3>8. i - c.k + LineLen(c.game) <= size'
        BY <3>3, <3>4, <3>7, <1>0, <3>1
      <3>9. \A k \in 1..LineLen(c.game) : text'[i - c.k + k] = Piece(c.game, c.text, k)
        BY <2>1, <3>4, <3>5
      <3> QED
        BY <3>2, <3>4, <3>6, <3>8, <3>9 DEF InWholeLine
    <2>3. CASE i > size
      <3>1. text'[i] = Piece(g, t, i - size) /\ i - size \in 1..n
        BY <2>1, <2>3, <1>0
      <3>2. /\ text'[i] # Hole /\ text'[i].game = g /\ text'[i].text = t
            /\ text'[i].k = i - size
        BY <3>1, <2>1, PieceIn
      <3> HIDE DEF g, t, n
      <3>3. i - (i - size) = size
        BY <1>0
      <3>4. \A k \in 1..n : text'[size + k] = Piece(g, t, k)
        <4> SUFFICES ASSUME NEW k \in 1..n PROVE text'[size + k] = Piece(g, t, k)
          OBVIOUS
        <4>1. size + k \in (size + 1)..size' /\ (size + k) - size = k
          BY <2>1, <1>0
        <4> QED
          BY <4>1, <2>1
      <3>5. n = LineLen(g)
        BY DEF n
      <3>6. text'[i].k <= i /\ i - text'[i].k = size
        BY <3>2, <3>3, <1>0
      <3> QED
        BY <3>2, <3>4, <3>5, <3>6, <2>1, <1>0 DEF InWholeLine
    <2> QED
      BY <2>2, <2>3, <1>0
  <1> QED
    BY <1>1, <1>2, <1>3, FileSteps

LEMMA FirstKeptStep == TypeOK /\ WholeLines /\ FirstKept /\ [Next]_vars => FirstKept'
PROOF
  <1> SUFFICES ASSUME TypeOK, WholeLines, FirstKept, [Next]_vars, ~overlaid', NEW h \in Games
               PROVE  /\ (\E i \in Places : Begins(h, i)') <=> first'[h] # None
                      /\ \A i \in Places :
                           Begins(h, i)' /\ (\A j \in 1..(i - 1) : ~Begins(h, j)') =>
                             text'[i].text = first'[h]
    BY DEF FirstKept
  <1>0. size \in Nat /\ size' \in Nat
    BY TypeStep, GamesAssumption DEF TypeOK
  <1>h. /\ (\E i \in Places : Begins(h, i)) <=> first[h] # None
        /\ \A i \in Places : Begins(h, i) /\ (\A j \in 1..(i - 1) : ~Begins(h, j)) =>
             text[i].text = first[h]
    BY FileSteps DEF FirstKept
  <1>1. CASE UNCHANGED <<size, text, first>>
    BY <1>1, <1>h DEF Begins
  <1>2. CASE size = 0 /\ size' = 0 /\ first' = first
    BY <1>2, <1>h DEF Begins
  <1>3. ASSUME NEW p \in Procs, AnswerYes(p), at[p] = size,
               size' = size + LineLen(game[p])
        PROVE  /\ (\E i \in Places : Begins(h, i)') <=> first'[h] # None
               /\ \A i \in Places :
                    Begins(h, i)' /\ (\A j \in 1..(i - 1) : ~Begins(h, j)') =>
                      text'[i].text = first'[h]
    <2> DEFINE g == game[p]
               t == Text(digest[p])
               n == LineLen(g)
    <2>1. /\ g \in Games /\ t \in Texts /\ n \in Nat /\ n >= 4 /\ size' = size + n
          /\ size' <= MaxSize
          /\ \A j \in 1..size : text'[j] = text[j]
          /\ \A j \in (size + 1)..size' : text'[j] = Piece(g, t, j - size) /\ j - size \in 1..n
      BY <1>3, WrittenPieces, Appended, LineLenNat
    <2>2. first' = [first EXCEPT ![g] = IF @ = None THEN t ELSE @]
      BY <1>3 DEF AnswerYes
    <2>3. t # None
      BY <2>1, NoneAssumption
    <2>4. first \in [Games -> Texts \cup {None}]
      BY DEF TypeOK
    <2> HIDE DEF g, t, n
    <2>5. \A i \in 1..size : Begins(h, i)' <=> Begins(h, i)
      BY <2>1, <1>0 DEF Begins
    <2>6. \A i \in (size + 1)..size' :
            Begins(h, i)' <=> (h = g /\ i = size + 1)
      <3> SUFFICES ASSUME NEW i \in (size + 1)..size'
                   PROVE  Begins(h, i)' <=> (h = g /\ i = size + 1)
        OBVIOUS
      <3>1. text'[i] # Hole /\ text'[i].game = g /\ text'[i].k = i - size
        BY <2>1, PieceIn DEF n
      <3> QED
        BY <3>1, <1>0 DEF Begins
    <2>7. \A i : (Begins(h, i) => i \in 1..size) /\ (Begins(h, i)' => i \in 1..size')
      BY DEF Begins
    <2>8. 1..size \subseteq Places /\ 1..size' \subseteq Places /\ 1..size \subseteq 1..size'
      BY <2>1, <1>0, GamesAssumption DEF Places
    <2>a. \A i \in Places : i \in Nat /\ i >= 1
      BY GamesAssumption DEF Places
    <2>9. CASE h # g
      <3>1. first'[h] = first[h]
        BY <2>2, <2>4, <2>9
      <3>2. \A i \in Places : Begins(h, i)' <=> Begins(h, i)
        BY <2>1, <2>5, <2>6, <2>7, <2>8, <2>9, <1>0
      <3>3. \A i \in Places : \A j \in 1..(i - 1) : j \in Places
        BY GamesAssumption DEF Places
      <3>4. \A i \in Places : Begins(h, i) => text'[i] = text[i]
        BY <2>1, <2>7
      <3> QED
        BY <3>1, <3>2, <3>3, <3>4, <1>h
    <2>10. CASE h = g
      <3>1. first'[h] = IF first[h] = None THEN t ELSE first[h]
        BY <2>2, <2>4, <2>10
      <3>2. \E i \in Places : Begins(h, i)'
        <4>1. size + 1 \in (size + 1)..size' /\ size + 1 \in Places
          BY <2>1, <2>8, <1>0
        <4>2. PICK i \in (size + 1)..size' : i = size + 1
          BY <4>1
        <4> QED
          BY <4>1, <4>2, <2>6, <2>10
      <3>3. first'[h] # None
        BY <3>1, <2>3
      <3> SUFFICES ASSUME NEW i \in Places, Begins(h, i)',
                          \A j \in 1..(i - 1) : ~Begins(h, j)'
                   PROVE  text'[i].text = first'[h]
        BY <3>2, <3>3
      <3>4. CASE i <= size
        <4>1. i \in 1..size
          BY <3>4, <2>a
        <4>2. \A j \in 1..(i - 1) : j \in 1..size
          BY <4>1, <1>0
        <4>3. Begins(h, i) /\ \A j \in 1..(i - 1) : ~Begins(h, j)
          BY <4>1, <4>2, <2>5
        <4> QED
          BY <4>1, <4>3, <3>1, <2>1, <1>h
      <3>5. CASE i > size
        <4>1. i = size + 1
          BY <3>5, <2>1, <2>6, <2>7, <2>a, <1>0
        <4>2. 1..(i - 1) = 1..size
          BY <4>1, <1>0
        <4>3. \A j \in Places : ~Begins(h, j)
          BY <4>2, <2>5, <2>7
        <4>4. text'[i].text = t
          BY <4>1, <2>1, PieceIn, <1>0 DEF n
        <4> QED
          BY <4>3, <4>4, <3>1, <1>h
      <3> QED
        BY <3>4, <3>5, <2>a, <1>0
    <2> QED
      BY <2>9, <2>10
  <1> QED
    BY <1>1, <1>2, <1>3, FileSteps

\* The reader finds the lines of a game just where they begin.
LEMMA NamesIsBegins ==
  ASSUME TypeOK, WholeLines, ~overlaid, NEW g \in Games, NEW i \in Places
  PROVE  /\ Names(g, i) <=> Begins(g, i)
         /\ Begins(g, i) => Key(g, i) = text[i].text
PROOF
  <1>1. /\ size \in Nat /\ size <= MaxSize /\ i \in Nat /\ i >= 1
        /\ NameLen[g] \in Nat /\ NameLen[g] >= 1 /\ LineLen(g) = NameLen[g] + 3
    BY GamesAssumption DEF TypeOK, Places, LineLen
  <1>2. Names(g, i) => Begins(g, i)
    <2> SUFFICES ASSUME Names(g, i) PROVE Begins(g, i)
      OBVIOUS
    <2>1. i \in 1..size
      BY <1>1 DEF Names
    <2>2. 1 \in 1..NameLen[g] /\ i + 1 - 1 = i
      BY <1>1
    <2>3. text[i] # Hole /\ text[i].game = g /\ text[i].k = 1
      BY <2>2 DEF Names
    <2> QED
      BY <2>1, <2>3 DEF Begins
  <1>3. ASSUME Begins(g, i)
        PROVE  Names(g, i) /\ Key(g, i) = text[i].text
    <2> DEFINE t == text[i].text
    <2>1. i \in 1..size /\ text[i] # Hole /\ text[i].game = g /\ text[i].k = 1
      BY <1>3 DEF Begins
    <2>2. t \in Texts
      BY <2>1, PieceFields DEF TypeOK
    <2>3. /\ i - 1 + LineLen(g) <= size
          /\ \A k \in 1..LineLen(g) : text[i - 1 + k] = Piece(g, t, k)
      BY <2>1 DEF WholeLines, InWholeLine
    <2> HIDE DEF t
    <2>4. \A k \in 1..LineLen(g) :
            LET c == text[i - 1 + k] IN c # Hole /\ c.game = g /\ c.text = t /\ c.k = k
      BY <2>2, <2>3, PieceIn
    <2>5. LineStart(i)
      <3> SUFFICES ASSUME i > 1 PROVE IsNewline(text[i - 1])
        BY DEF LineStart
      <3> DEFINE b == text[i - 1]
      <3>1. i - 1 \in 1..size /\ i - 1 \in Places
        BY <1>1, <2>1, GamesAssumption DEF Places
      <3>2. InWholeLine(i - 1)
        BY <3>1 DEF WholeLines
      <3>3. b # Hole /\ b \in Pieces
        BY <3>1, <3>2 DEF InWholeLine, TypeOK
      <3>4. b.game \in Games /\ b.text \in Texts /\ b.k \in 1..LineLen(b.game)
            /\ NameLen[b.game] \in Nat
        BY <3>3, PieceFields
      <3>5. \A k \in 1..LineLen(b.game) : text[(i - 1) - b.k + k] = Piece(b.game, b.text, k)
        BY <3>2 DEF InWholeLine
      <3> HIDE DEF b
      <3>6. CASE b.k + 1 \in 1..LineLen(b.game)
        <4>1. (i - 1) - b.k + (b.k + 1) = i
          BY <1>1, <3>4 DEF LineLen
        <4>2. text[i] = Piece(b.game, b.text, b.k + 1)
          BY <4>1, <3>5, <3>6
        <4>3. b.k + 1 = 1
          BY <4>2, <3>4, <3>6, <2>1, PieceIn
        <4> QED
          BY <4>3, <3>4 DEF LineLen
      <3>7. CASE b.k + 1 \notin 1..LineLen(b.game)
        <4>1. b.k = NameLen[b.game] + 3
          BY <3>4, <3>7 DEF LineLen
        <4> QED
          BY <4>1, <3>3 DEF IsNewline, b
      <3> QED
        BY <3>6, <3>7
    <2>6. \A k \in 1..NameLen[g] :
            text[i + k - 1] # Hole /\ text[i + k - 1].game = g /\ text[i + k - 1].k = k
      <3> SUFFICES ASSUME NEW k \in 1..NameLen[g]
                   PROVE  text[i + k - 1] # Hole /\ text[i + k - 1].game = g
                            /\ text[i + k - 1].k = k
        OBVIOUS
      <3>1. k \in 1..LineLen(g) /\ i + k - 1 = i - 1 + k
        BY <1>1
      <3> QED
        BY <3>1, <2>4
    <2>7. IsColon(text[i + NameLen[g]])
      <3>1. NameLen[g] + 1 \in 1..LineLen(g) /\ i - 1 + (NameLen[g] + 1) = i + NameLen[g]
        BY <1>1
      <3> QED
        BY <3>1, <2>4 DEF IsColon
    <2>8. Key(g, i) = t
      <3>1. NameLen[g] + 2 \in 1..LineLen(g)
            /\ i - 1 + (NameLen[g] + 2) = i + NameLen[g] + 1
        BY <1>1
      <3> QED
        BY <3>1, <2>4 DEF IsDigest, Key
    <2>9. i + NameLen[g] < size
      BY <1>1, <2>3
    <2> QED
      BY <2>5, <2>6, <2>7, <2>8, <2>9 DEF Names, t
  <1> QED
    BY <1>2, <1>3

LEMMA KeptIsFound == TypeOK /\ WholeLines /\ FirstKept => FirstTrustedFound
PROOF
  <1> SUFFICES ASSUME TypeOK, WholeLines, FirstKept, ~overlaid, NEW g \in Games
               PROVE  /\ HasLine(g) <=> first[g] # None
                      /\ \A i \in Places : IsFirstLine(g, i) => Key(g, i) = first[g]
    BY DEF FirstTrustedFound
  <1>1. \A i \in Places : /\ Names(g, i) <=> Begins(g, i)
                          /\ Begins(g, i) => Key(g, i) = text[i].text
    BY NamesIsBegins
  <1>2. /\ (\E i \in Places : Begins(g, i)) <=> first[g] # None
        /\ \A i \in Places : Begins(g, i) /\ (\A j \in 1..(i - 1) : ~Begins(g, j)) =>
             text[i].text = first[g]
    BY DEF FirstKept
  <1>3. \A i \in Places : \A j \in 1..(i - 1) : j \in Places
    BY GamesAssumption DEF Places
  <1> QED
    BY <1>1, <1>2, <1>3 DEF HasLine, IsFirstLine

LEMMA WholeAlways == Spec => [](TypeOK /\ WholeLines /\ FirstKept)
PROOF
  <1>1. TypeOK /\ WholeLines /\ FirstKept /\ [Next]_vars => TypeOK' /\ WholeLines' /\ FirstKept'
    BY TypeStep, WholeLinesStep, FirstKeptStep
  <1> QED
    BY <1>1, TypeInit, WholeInit, PTL DEF Spec

(***************************************************************************)
(* As long as no line and no fopen has fallen on lines already there, the  *)
(* scan finds a line for just the games the user trusted a key for, and in *)
(* it the first of those keys, for any number of logins at once.           *)
(***************************************************************************)
THEOREM FirstStays == Spec => []FirstTrustedFound
PROOF
  BY WholeAlways, KeptIsFound, PTL

LEMMA AlarmStep ==
  TypeOK /\ FirstTrustedFound /\ AlarmOnlyIfChanged /\ [Next]_vars => AlarmOnlyIfChanged'
PROOF
  <1> SUFFICES ASSUME TypeOK, FirstTrustedFound, AlarmOnlyIfChanged, [Next]_vars, ~overlaid',
                      NEW q \in Procs, verdict'[q] = "changed"
               PROVE  first'[game'[q]] # None /\ first'[game'[q]] # Text(digest'[q])
    BY DEF AlarmOnlyIfChanged
  <1>1. ~overlaid
    BY DEF Next, Login, Fopen, FopenCreate, FopenFails, ScanMatch, ScanNoMatch, ScanKilled,
           Seek, AnswerYes, AnswerNo, AnswerNeither, vars, history
  <1>2. \A g \in Games : first[g] # None => first'[g] = first[g]
    BY DEF TypeOK, Next, Login, Fopen, FopenCreate, FopenFails, ScanMatch, ScanNoMatch,
           ScanKilled, Seek, AnswerYes, AnswerNo, AnswerNeither, vars, history
  <1>3. CASE verdict[q] = "changed" /\ game'[q] = game[q] /\ digest'[q] = digest[q]
    <2>1. first[game[q]] # None /\ first[game[q]] # Text(digest[q]) /\ game[q] \in Games
      BY <1>1, <1>3 DEF AlarmOnlyIfChanged, TypeOK
    <2> QED
      BY <1>2, <1>3, <2>1
  <1>4. CASE ScanMatch(q)
    <2>1. PICK i \in Places :
            /\ IsFirstLine(game[q], i)
            /\ Returns(q, IF Key(game[q], i) = Text(digest[q]) THEN "known" ELSE "changed")
      BY <1>4 DEF ScanMatch
    <2>2. game' = game /\ digest' = digest /\ first' = first
      BY <1>4 DEF ScanMatch, history
    <2>3. Key(game[q], i) # Text(digest[q])
      BY <2>1 DEF Returns, TypeOK
    <2>4. game[q] \in Games /\ HasLine(game[q])
      BY <2>1 DEF TypeOK, IsFirstLine, HasLine
    <2> QED
      BY <1>1, <2>1, <2>2, <2>3, <2>4 DEF FirstTrustedFound
  <1>5. (verdict[q] = "changed" /\ game'[q] = game[q] /\ digest'[q] = digest[q])
          \/ ScanMatch(q)
    <2>1. ASSUME NEW p \in Procs, NEW l \in Logins, Login(p, l[1], l[2])
          PROVE  verdict'[q] = verdict[q] /\ game'[q] = game[q] /\ digest'[q] = digest[q]
      BY <2>1 DEF Login, TypeOK
    <2>2. ASSUME NEW p \in Procs, Fopen(p) \/ FopenCreate(p) \/ ScanNoMatch(p) \/ Seek(p)
          PROVE  verdict' = verdict /\ game' = game /\ digest' = digest
      BY <2>2 DEF Fopen, FopenCreate, ScanNoMatch, Seek
    <2>3. ASSUME NEW p \in Procs,
                 FopenFails(p) \/ ScanKilled(p) \/ AnswerYes(p) \/ AnswerNo(p) \/ AnswerNeither(p)
          PROVE  verdict'[q] = verdict[q] /\ game' = game /\ digest' = digest
      BY <2>3 DEF FopenFails, ScanKilled, AnswerYes, AnswerNo, AnswerNeither, Returns, TypeOK
    <2>4. ASSUME NEW p \in Procs, p # q, ScanMatch(p)
          PROVE  verdict'[q] = verdict[q] /\ game' = game /\ digest' = digest
      BY <2>4 DEF ScanMatch, Returns, TypeOK
    <2>5. CASE UNCHANGED vars
      BY <2>5 DEF vars, procVars
    <2> QED
      BY <2>1, <2>2, <2>3, <2>4, <2>5 DEF Next
  <1> QED
    BY <1>3, <1>4, <1>5

(***************************************************************************)
(* Under the same condition "its hostkey has changed" is said only of a    *)
(* key that differs from the first one the user trusted for the game.      *)
(***************************************************************************)
THEOREM AlarmIsTrue == Spec => []AlarmOnlyIfChanged
PROOF
  <1>1. Init => AlarmOnlyIfChanged
    BY DEF Init, AlarmOnlyIfChanged
  <1>2. TypeOK /\ FirstTrustedFound /\ AlarmOnlyIfChanged /\ [Next]_vars => AlarmOnlyIfChanged'
    BY AlarmStep
  <1> QED
    BY <1>1, <1>2, TypeCorrect, FirstStays, PTL DEF Spec
-----------------------------------------------------------------------------
(* One login at a time *)

\* What process w knows of the file while no other process runs.
FileIsMine(w) ==
  /\ ~overlaid
  /\ ~exists => size = 0
  /\ pc[w] = "create" => ~exists
  /\ pc[w] \in {"scan", "seek", "ask"} => exists
  /\ pc[w] = "ask" => at[w] = size

LEMMA FileIsMineStep ==
  ASSUME NEW w \in Procs, Procs = {w}
  PROVE  TypeOK /\ FileIsMine(w) /\ [Next]_vars => FileIsMine(w)'
PROOF
  <1> SUFFICES ASSUME TypeOK, FileIsMine(w), [Next]_vars PROVE FileIsMine(w)'
    OBVIOUS
  <1>0. size \in Nat
    BY GamesAssumption DEF TypeOK
  <1>1. ASSUME NEW l \in Logins, Login(w, l[1], l[2]) PROVE FileIsMine(w)'
    BY <1>1 DEF TypeOK, FileIsMine, Login, Goto, fileVars, history
  <1>2. CASE Fopen(w) \/ ScanNoMatch(w) \/ Seek(w)
    BY <1>2 DEF TypeOK, FileIsMine, Fopen, ScanNoMatch, Seek, Goto, fileVars, history
  <1>3. CASE FopenCreate(w)
    <2>1. ~(overlaid \/ size > 0)
      BY <1>0, <1>3 DEF FileIsMine, FopenCreate
    <2>2. pc'[w] = "seek" /\ exists' = TRUE /\ overlaid' = (overlaid \/ size > 0)
      BY <1>3 DEF FopenCreate, Goto, TypeOK
    <2> QED
      BY <2>1, <2>2 DEF FileIsMine
  <1>4. CASE FopenFails(w) \/ ScanMatch(w) \/ ScanKilled(w) \/ AnswerNo(w)
    BY <1>4 DEF TypeOK, FileIsMine, FopenFails, ScanMatch, ScanKilled, AnswerNo, Returns, Goto,
                fileVars, history
  <1>5. CASE AnswerNeither(w)
    BY <1>5 DEF TypeOK, FileIsMine, AnswerNeither, Returns, Goto, fileVars, history
  <1>6. CASE AnswerYes(w)
    <2>1. pc[w] = "ask" /\ at[w] = size /\ ~(overlaid \/ at[w] # size) /\ exists
      BY <1>6 DEF FileIsMine, AnswerYes
    <2>2. pc'[w] = "idle" /\ overlaid' = (overlaid \/ at[w] # size) /\ exists' = exists
      BY <1>6 DEF AnswerYes, Returns, Goto, TypeOK
    <2> QED
      BY <2>1, <2>2 DEF FileIsMine
  <1>7. CASE UNCHANGED vars
    BY <1>7 DEF FileIsMine, vars, procVars, fileVars, history
  <1> QED
    BY <1>1, <1>2, <1>3, <1>4, <1>5, <1>6, <1>7 DEF Next

(***************************************************************************)
(* With one login at a time no line falls on another and no fopen empties  *)
(* the file: the two theorems before this one then hold without their      *)
(* condition.                                                              *)
(***************************************************************************)
THEOREM OneLoginOverlaysNothing ==
  ASSUME NEW w \in Procs, Procs = {w}
  PROVE  Spec => [](~overlaid /\ FirstTrustedFound /\ AlarmOnlyIfChanged)
PROOF
  <1>1. Init => FileIsMine(w)
    BY DEF Init, FileIsMine
  <1>2. TypeOK /\ FileIsMine(w) /\ [Next]_vars => FileIsMine(w)'
    BY FileIsMineStep
  <1>3. FileIsMine(w) => ~overlaid
    BY DEF FileIsMine
  <1> QED
    BY <1>1, <1>2, <1>3, TypeCorrect, FirstStays, AlarmIsTrue, PTL DEF Spec

-----------------------------------------------------------------------------
(* The text of a digest, by induction over the calls of sprintf *)

\* A nonempty set of numbers has a least one, and so induction over them is sound.
LEMMA LeastNumber ==
  ASSUME NEW T \in SUBSET Nat, T # {}
  PROVE  \E m \in T : \A k \in T : m <= k
PROOF
  <1> DEFINE R == {ss \in Nat \X Nat : ss[1] < ss[2]}
  <1>1. IsWellFoundedOn(R, Nat)
    BY NatLessThanWellFounded DEF OpToRel
  <1> HIDE DEF R
  <1>2. PICK m \in T : \A k \in T : ~(<<k, m>> \in R)
    BY ONLY <1>1, WFMin, T \in SUBSET Nat, T # {}
  <1>3. \A k \in T : ~(k < m)
    BY <1>2 DEF R
  <1> QED
    BY <1>3

LEMMA NumbersByInduction ==
  ASSUME NEW S, 0 \in S, \A n \in Nat : n \in S => n + 1 \in S
  PROVE  Nat \subseteq S
PROOF
  <1> SUFFICES ASSUME Nat \ S # {} PROVE FALSE
    OBVIOUS
  <1>1. PICK m \in Nat \ S : \A k \in Nat \ S : m <= k
    BY LeastNumber
  <1> QED
    BY <1>1

\* f has the buffer after each of the first n calls of sprintf.
Fills(f, d, n) ==
  f = [i \in 0..n |-> IF i = 0 THEN Zeroed ELSE Printed(f[i - 1], d, i)]

LEMMA BuffersExist == ASSUME NEW d PROVE \A n \in Nat : \E f : Fills(f, d, n)
PROOF
  <1> DEFINE S == {n \in Nat : \E f : Fills(f, d, n)}
  <1>1. 0 \in S
    <2>1. Fills([i \in 0..0 |-> Zeroed], d, 0)
      BY DEF Fills
    <2> QED
      BY <2>1
  <1>2. ASSUME NEW n \in Nat, n \in S PROVE n + 1 \in S
    <2>1. PICK f : Fills(f, d, n)
      BY <1>2
    <2> DEFINE g == [i \in 0..(n + 1) |-> IF i <= n THEN f[i] ELSE Printed(f[n], d, i)]
    <2>2. \A i \in 0..n : f[i] = IF i = 0 THEN Zeroed ELSE Printed(f[i - 1], d, i)
      BY <2>1 DEF Fills
    <2>3. \A i \in 0..(n + 1) : g[i] = IF i = 0 THEN Zeroed ELSE Printed(g[i - 1], d, i)
      <3> SUFFICES ASSUME NEW i \in 0..(n + 1)
                   PROVE  g[i] = IF i = 0 THEN Zeroed ELSE Printed(g[i - 1], d, i)
        OBVIOUS
      <3>1. CASE i = 0
        BY <3>1, <2>2
      <3>2. CASE i \in 1..n
        <4>1. g[i] = f[i] /\ g[i - 1] = f[i - 1]
          BY <3>2
        <4> QED
          BY <3>2, <4>1, <2>2
      <3>3. CASE i = n + 1
        <4>1. g[i] = Printed(f[n], d, i) /\ g[i - 1] = f[n]
          BY <3>3
        <4> QED
          BY <3>3, <4>1
      <3> QED
        BY <3>1, <3>2, <3>3
    <2>4. Fills(g, d, n + 1)
      BY <2>3 DEF Fills
    <2> QED
      BY <2>4
  <1> HIDE DEF S
  <1>3. Nat \subseteq S
    BY <1>1, <1>2, NumbersByInduction
  <1> QED
    BY <1>3 DEF S

\* After n calls the first 2n digits are in their places for good.
LEMMA DigitsStay ==
  ASSUME NEW d \in Digest, NEW f, Fills(f, d, Width)
  PROVE  \A n \in 0..Width :
           /\ f[n] = [j \in 0..(BufLen - 1) |-> f[n][j]]
           /\ \A i \in 1..n : <<f[n][2 * (i - 1)], f[n][2 * i - 1]>> = Text(d)[i]
PROOF
  <1> USE WidthAssumption
  <1> DEFINE Good(n) == /\ f[n] = [j \in 0..(BufLen - 1) |-> f[n][j]]
                        /\ \A i \in 1..n : <<f[n][2 * (i - 1)], f[n][2 * i - 1]>> = Text(d)[i]
             S == {n \in Nat : n <= Width => Good(n)}
  <1>1. 0 \in S
    <2>1. f[0] = Zeroed
      BY DEF Fills
    <2>2. f[0] = [j \in 0..(BufLen - 1) |-> f[0][j]]
      BY <2>1 DEF Zeroed
    <2>3. \A i \in 1..0 : <<f[0][2 * (i - 1)], f[0][2 * i - 1]>> = Text(d)[i]
      OBVIOUS
    <2> QED
      BY <2>2, <2>3
  <1>2. ASSUME NEW n \in Nat, n \in S PROVE n + 1 \in S
    <2> SUFFICES ASSUME n + 1 <= Width PROVE Good(n + 1)
      OBVIOUS
    <2> DEFINE b == d[n + 1]
               from == 2 * n
               to == from + NumDigits(b)
    <2>1. Good(n)
      BY <1>2
    <2>2. f[n + 1] = Printed(f[n], d, n + 1)
      BY DEF Fills
    <2>3. /\ f[n + 1] = [j \in 0..(BufLen - 1) |-> f[n + 1][j]]
          /\ \A j \in 0..(BufLen - 1) :
               f[n + 1][j] = IF j \in from..(to - 1) THEN Digits(b)[j - from + 1]
                             ELSE IF j = to THEN NulByte ELSE f[n][j]
      BY <2>2 DEF Printed
    <2>4. b \in Byte /\ to \in Nat /\ to >= from + 2 /\ from + 2 <= 2 * Width /\ from \in Nat
      BY DEF Digest, NumDigits
    <2>5. BufLen = 2 * Width + 8
      BY DEF BufLen
    <2>6. f[n + 1][from] = Digits(b)[1] /\ f[n + 1][from + 1] = Digits(b)[2]
      <3>1. from \in 0..(BufLen - 1) /\ from + 1 \in 0..(BufLen - 1)
        BY <2>4, <2>5
      <3>2. from \in from..(to - 1) /\ from + 1 \in from..(to - 1)
        BY <2>4
      <3>3. from - from + 1 = 1 /\ from + 1 - from + 1 = 2
        BY <2>4
      <3> HIDE DEF from, to, b
      <3> QED
        BY <2>3, <3>1, <3>2, <3>3
    <2>7. <<Digits(b)[1], Digits(b)[2]>> = Text(d)[n + 1]
      <3>1. Text(d)[n + 1] = IF IsNegative(b) THEN <<15, 15>> ELSE b
        BY DEF Text
      <3>2. b = <<b[1], b[2]>>
        BY <2>4 DEF Byte
      <3> QED
        BY <3>1, <3>2 DEF Digits
    <2>8. ASSUME NEW i \in 1..n
          PROVE  <<f[n + 1][2 * (i - 1)], f[n + 1][2 * i - 1]>> = Text(d)[i]
      <3>1. /\ 2 * (i - 1) \in 0..(BufLen - 1) /\ 2 * i - 1 \in 0..(BufLen - 1)
            /\ 2 * (i - 1) < from /\ 2 * i - 1 < from
        BY <2>4, <2>5
      <3>2. \A j \in 0..(BufLen - 1) : j < from => f[n + 1][j] = f[n][j]
        <4> HIDE DEF from, to, b
        <4> QED
          BY <2>3, <2>4, <2>5
      <3> QED
        BY <3>1, <3>2, <2>1
    <2>9. ASSUME NEW i \in 1..(n + 1)
          PROVE  <<f[n + 1][2 * (i - 1)], f[n + 1][2 * i - 1]>> = Text(d)[i]
      <3>1. CASE i \in 1..n
        BY <3>1, <2>8
      <3>2. CASE i = n + 1
        <4>1. 2 * (i - 1) = from /\ 2 * i - 1 = from + 1
          BY <3>2
        <4> HIDE DEF from, b
        <4> QED
          BY <3>2, <4>1, <2>6, <2>7
      <3> QED
        BY <3>1, <3>2
    <2> QED
      BY <2>3, <2>9
  <1> HIDE DEF S
  <1>3. Nat \subseteq S
    BY <1>1, <1>2, NumbersByInduction
  <1> QED
    BY <1>3 DEF S

\* The loop of sprintf leaves the text of every digest, and stays in its buffer.
LEMMA EveryDigestPrints == \A d \in Digest : Prints(d)
PROOF
  <1> SUFFICES ASSUME NEW d \in Digest PROVE Prints(d)
    OBVIOUS
  <1> USE WidthAssumption
  <1> DEFINE buf[i \in 0..Width] == IF i = 0 THEN Zeroed ELSE Printed(buf[i - 1], d, i)
             last == buf[Width]
             out == Sprintfs(d)
  <1>1. out = [last EXCEPT ![2 * Width] = NulByte]
    BY DEF Sprintfs
  <1>2. Fills(buf, d, Width)
    <2>1. \E f : f = [i \in 0..Width |-> IF i = 0 THEN Zeroed ELSE Printed(f[i - 1], d, i)]
      BY BuffersExist DEF Fills
    <2> QED
      BY <2>1 DEF Fills
  <1> HIDE DEF buf
  <1>3. /\ last = [j \in 0..(BufLen - 1) |-> last[j]]
        /\ \A i \in 1..Width : <<last[2 * (i - 1)], last[2 * i - 1]>> = Text(d)[i]
    <2>1. Width \in 0..Width
      OBVIOUS
    <2>2. \A f : Fills(f, d, Width) =>
            \A n \in 0..Width :
              /\ f[n] = [j \in 0..(BufLen - 1) |-> f[n][j]]
              /\ \A i \in 1..n : <<f[n][2 * (i - 1)], f[n][2 * i - 1]>> = Text(d)[i]
      BY DigitsStay
    <2> QED
      BY ONLY <1>2, <2>1, <2>2, Zenon
  <1>4. BufLen = 2 * Width + 8
    BY DEF BufLen
  <1> HIDE DEF last, out
  <1>5. last \in [0..(BufLen - 1) -> {last[j] : j \in 0..(BufLen - 1)}]
    BY <1>3
  <1>6. out[2 * Width] = NulByte /\ \A j \in 0..(2 * Width - 1) : out[j] = last[j]
    BY <1>1, <1>4, <1>5
  <1>7. \A i \in 1..Width : 2 * (i - 1) \in 0..(2 * Width - 1) /\ 2 * i - 1 \in 0..(2 * Width - 1)
    OBVIOUS
  <1>8. \A i \in 1..Width : 2 * (i - 1) + NumDigits(d[i]) < BufLen
    BY <1>4 DEF NumDigits
  <1>9. \A i \in 1..Width : <<out[2 * (i - 1)], out[2 * i - 1]>> = Text(d)[i]
    BY <1>3, <1>6, <1>7
  <1> QED
    BY <1>6, <1>8, <1>9 DEF Prints, out

(***************************************************************************)
(* Whatever digest a server presents, the calls of sprintf, each of which  *)
(* may write over the digits of the one before, leave its text, and none   *)
(* of them writes beyond the buffer.                                       *)
(***************************************************************************)
THEOREM TextIsOfDigest == Spec => []TextOfDigest
PROOF
  <1>1. TypeOK => TextOfDigest
    BY GamesAssumption, EveryDigestPrints DEF TypeOK, TextOfDigest
  <1> QED
    BY <1>1, TypeCorrect, PTL
=============================================================================
