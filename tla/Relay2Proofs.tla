---------------------------- MODULE Relay2Proofs ----------------------------
(***************************************************************************)
(* Proofs about Relay2: the types, and that neither the keys nor the       *)
(* output lose their order, for any keys, bytes, buffer widths and bounds. *)
(***************************************************************************)
EXTENDS Relay2, TLAPS, SequenceTheorems, FiniteSetTheorems

USE RelayAssumption DEF lines

Outs == Bytes \cup {EOF}
All  == Outs \cup {Junk}

\* What the remote side sent and the loop has not read.
Waiting == queue \o sock

(***************************************************************************)
(* Between two turns commandbuf is empty, and as long as every write took  *)
(* the whole of it none is resumed.                                        *)
(***************************************************************************)
WriteInv ==
  /\ pc # "write" => commandbuf = <<>>
  /\ whole => written = 0

\* The remote side's end of file is the last thing that waits.
EofInv ==
  /\ \A i \in 1..(Len(Waiting) - 1) : Waiting[i] # EOF
  /\ Data(out) = out => \A i \in 1..Len(Waiting) : Waiting[i] # EOF

Inv ==
  /\ TypeOK /\ WriteInv /\ EofInv
  /\ KeysInOrder /\ ScreenInOrder /\ EndShowsAll

-----------------------------------------------------------------------------
(* The operators on sequences *)

LEMMA LowerFacts ==
  ASSUME NEW m \in Nat, NEW n \in Nat
  PROVE  Lower(m, n) \in Nat /\ Lower(m, n) <= m /\ Lower(m, n) <= n
BY DEF Lower

\* First and Rest cut a sequence in two.
LEMMA FirstFacts ==
  ASSUME NEW S, NEW s \in Seq(S), NEW n \in Nat
  PROVE  /\ First(s, n) \in Seq(S)
         /\ Len(First(s, n)) = Lower(n, Len(s))
         /\ \A i \in 1..Lower(n, Len(s)) : First(s, n)[i] = s[i]
<1>1. Lower(n, Len(s)) \in Nat /\ Lower(n, Len(s)) <= Len(s)
  BY LowerFacts, LenProperties
<1>2. \A i \in 1..Lower(n, Len(s)) : s[i] \in S
  BY <1>1, ElementOfSeq, LenProperties
<1>. QED
  BY <1>1, <1>2, SubSeqProperties DEF First

LEMMA RestFacts ==
  ASSUME NEW S, NEW s \in Seq(S), NEW n \in 0..Len(s)
  PROVE  /\ Rest(s, n) \in Seq(S)
         /\ Len(Rest(s, n)) = Len(s) - n
         /\ \A i \in 1..(Len(s) - n) : Rest(s, n)[i] = s[n + i]
<1>1. Len(s) \in Nat
  BY LenProperties
<1>2. \A i \in (n + 1)..Len(s) : s[i] \in S
  BY <1>1, ElementOfSeq
<1>. QED
  BY <1>1, <1>2, SubSeqProperties DEF Rest

LEMMA CutIsWhole ==
  ASSUME NEW S, NEW s \in Seq(S), NEW n \in 0..Len(s)
  PROVE  First(s, n) \o Rest(s, n) = s
<1>1. Len(s) \in Nat /\ Lower(n, Len(s)) = n
  BY LenProperties DEF Lower
<1>2. 1 \in 1..(Len(s) + 1) /\ n \in (1 - 1)..Len(s) /\ Len(s) \in n..Len(s)
  BY <1>1
<1>3. SubSeq(s, 1, n) \o SubSeq(s, n + 1, Len(s)) = SubSeq(s, 1, Len(s))
  BY <1>2, ConcatAdjacentSubSeq
<1>4. First(s, n) = SubSeq(s, 1, n) /\ Rest(s, n) = SubSeq(s, n + 1, Len(s))
  BY <1>1 DEF First, Rest
<1>. QED
  BY <1>3, <1>4, SubSeqFull

LEMMA FirstOfAll ==
  ASSUME NEW S, NEW s \in Seq(S)
  PROVE  First(s, Len(s)) = s
BY SubSeqFull, LenProperties DEF First, Lower

\* There is a first place, within the sequence or just beyond it.
LEMMA PlaceOfFacts ==
  ASSUME NEW S, NEW s \in Seq(S), NEW x
  PROVE  PlaceOf(x, s) \in 1..(Len(s) + 1)
<1>. DEFINE T == {n \in 1..Len(s) : \A m \in 1..n : s[m] # x}
<1>1. Len(s) \in Nat
  BY LenProperties
<1>2. IsFiniteSet(1..Len(s)) /\ Cardinality(1..Len(s)) = Len(s)
  BY <1>1, FS_Interval
<1>3. Cardinality(T) \in Nat /\ Cardinality(T) <= Len(s)
  BY <1>2, FS_Subset, FS_CardinalityType
<1>. QED
  BY <1>1, <1>3 DEF PlaceOf

\* The string in a buffer is a beginning of it: all of it, without a null byte.
LEMMA StrFacts ==
  ASSUME NEW S, NEW s \in Seq(S)
  PROVE  /\ Str(s) \in Seq(S)
         /\ Len(Str(s)) \in 0..Len(s)
         /\ (\A i \in 1..Len(s) : s[i] # NUL) => Str(s) = s
<1>1. Len(s) \in Nat /\ PlaceOf(NUL, s) \in 1..(Len(s) + 1)
  BY PlaceOfFacts, LenProperties
<1>2. PlaceOf(NUL, s) - 1 \in Nat
  BY <1>1
<1>3. Str(s) \in Seq(S) /\ Len(Str(s)) = Lower(PlaceOf(NUL, s) - 1, Len(s))
  <2>. DEFINE n == PlaceOf(NUL, s) - 1
  <2>1. n \in Nat
    BY <1>2
  <2>. HIDE DEF n
  <2>2. First(s, n) \in Seq(S) /\ Len(First(s, n)) = Lower(n, Len(s))
    BY <2>1, FirstFacts
  <2>. QED
    BY <2>2 DEF Str, n
<1>4. Len(Str(s)) \in 0..Len(s)
  BY <1>1, <1>2, <1>3, LowerFacts
<1>5. ASSUME \A i \in 1..Len(s) : s[i] # NUL
      PROVE  Str(s) = s
  <2>1. {n \in 1..Len(s) : \A m \in 1..n : s[m] # NUL} = 1..Len(s)
    BY <1>1, <1>5
  <2>2. PlaceOf(NUL, s) = 1 + Cardinality(1..Len(s))
    BY <2>1, Zenon DEF PlaceOf
  <2>3. \A m \in Nat : Cardinality(1..m) = m
    BY FS_Interval
  <2>4. PlaceOf(NUL, s) - 1 = Len(s)
    BY <1>1, <2>2, <2>3
  <2>. QED
    BY <2>4, FirstOfAll DEF Str
<1>. QED
  BY <1>3, <1>4, <1>5

LEMMA StrOfNothing == Str(<<>>) = <<>>
<1>1. <<>> \in Seq(Keys) /\ Len(<<>>) = 0
  BY EmptySeq
<1>2. Str(<<>>) \in Seq(Keys) /\ Len(Str(<<>>)) \in 0..0
  BY <1>1, StrFacts
<1>. QED
  BY <1>2, EmptySeq

\* What is associated and reassociated below.
LEMMA KeysAssociated ==
  \A s, t, u \in Seq(Keys) : (s \o t) \o u = s \o (t \o u)
BY ConcatAssociative

LEMMA OutsAssociated ==
  \A s, t, u \in Seq(Outs) : (s \o t) \o u = s \o (t \o u)
BY ConcatAssociative

LEMMA AllAssociated ==
  \A s, t, u \in Seq(All) : (s \o t) \o u = s \o (t \o u)
BY ConcatAssociative

-----------------------------------------------------------------------------
(* The operators of the loop *)

LEMMA LineFacts ==
  ASSUME NEW S, NEW s \in Seq(S)
  PROVE  Line(s) \in 0..Len(s) /\ Line(s) <= LineMax
<1>1. PlaceOf(NL, s) \in 1..(Len(s) + 1) /\ Len(s) \in Nat /\ LineMax \in Nat
  BY PlaceOfFacts, LenProperties
<1>. DEFINE m == Lower(PlaceOf(NL, s), Len(s))
<1>2. PlaceOf(NL, s) \in Nat
  BY <1>1
<1>3. m \in Nat /\ m <= Len(s)
  BY <1>1, <1>2, LowerFacts
<1>4. Line(s) = Lower(m, LineMax)
  BY DEF Line
<1>. HIDE DEF m
<1>5. Lower(m, LineMax) \in Nat /\ Lower(m, LineMax) <= m /\ Lower(m, LineMax) <= LineMax
  BY <1>1, <1>3, LowerFacts
<1>. QED
  BY <1>1, <1>3, <1>4, <1>5

\* Data takes the end of file off, if it is there.
LEMMA DataFacts ==
  ASSUME NEW s \in Seq(Outs)
  PROVE  /\ Data(s) \in Seq(Outs)
         /\ Len(Data(s)) \in 0..Len(s)
         /\ \A i \in 1..Len(Data(s)) : Data(s)[i] = s[i]
         /\ Data(s) = s <=> (s = <<>> \/ s[Len(s)] # EOF)
         /\ s # <<>> /\ s[Len(s)] = EOF => Len(Data(s)) = Len(s) - 1
<1>1. Len(s) \in Nat
  BY LenProperties
<1>2. CASE s # <<>> /\ s[Len(s)] = EOF
  <2>1. Len(s) >= 1
    <3>1. Len(s) # 0
      BY <1>2, EmptySeq
    <3>. QED
      BY <1>1, <3>1
  <2>. DEFINE m == Len(s) - 1
  <2>2. Data(s) = First(s, m)
    BY <1>2 DEF Data
  <2>3. m \in Nat /\ Lower(m, Len(s)) = m
    BY <1>1, <2>1 DEF Lower
  <2>4. /\ First(s, m) \in Seq(Outs) /\ Len(First(s, m)) = m
        /\ \A i \in 1..m : First(s, m)[i] = s[i]
    <3>. HIDE DEF m
    <3>. QED
      BY <2>3, FirstFacts
  <2>5. /\ Data(s) \in Seq(Outs) /\ Len(Data(s)) = Len(s) - 1
        /\ \A i \in 1..(Len(s) - 1) : Data(s)[i] = s[i]
    BY <2>2, <2>4
  <2>6. Len(s) - 1 \in 0..Len(s) /\ Len(s) - 1 # Len(s)
    BY <1>1, <2>1
  <2>7. Data(s) # s
    BY <2>5, <2>6
  <2>. QED
    BY <1>2, <2>5, <2>6, <2>7
<1>3. CASE ~(s # <<>> /\ s[Len(s)] = EOF)
  <2>1. Data(s) = s
    BY <1>3 DEF Data
  <2>. QED
    BY <1>1, <1>3, <2>1
<1>. QED
  BY <1>2, <1>3

\* A read takes a beginning of what waits, and nothing of it is the end of file.
LEMMA ChunkFacts ==
  ASSUME NEW s \in Seq(Outs), \A i \in 1..(Len(s) - 1) : s[i] # EOF
  PROVE  LET chunk == First(Data(s), ReadMax) IN
           /\ chunk \in Seq(Bytes)
           /\ Len(chunk) \in 0..Len(s)
           /\ chunk = First(s, Len(chunk))
<1>. DEFINE chunk == First(Data(s), ReadMax)
<1>. DEFINE n == Len(chunk)
<1>1. Len(s) \in Nat /\ Len(Data(s)) \in Nat /\ ReadMax \in Nat
  BY DataFacts, LenProperties
<1>2. /\ chunk \in Seq(Outs) /\ n = Lower(ReadMax, Len(Data(s)))
      /\ \A i \in 1..n : chunk[i] = Data(s)[i]
  <2>. DEFINE D == Data(s)
  <2>1. D \in Seq(Outs)
    BY DataFacts
  <2>2. /\ First(D, ReadMax) \in Seq(Outs)
        /\ Len(First(D, ReadMax)) = Lower(ReadMax, Len(D))
        /\ \A i \in 1..Lower(ReadMax, Len(D)) : First(D, ReadMax)[i] = D[i]
    <3>. HIDE DEF D
    <3>. QED
      BY <1>1, <2>1, FirstFacts
  <2>. QED
    BY <2>2
<1>3. n \in 0..Len(Data(s)) /\ n \in 0..Len(s)
  BY <1>1, <1>2, LowerFacts, DataFacts
<1>4. \A i \in 1..n : chunk[i] = s[i]
  BY <1>1, <1>2, <1>3, DataFacts
<1>5. Lower(n, Len(s)) = n
  BY <1>1, <1>3 DEF Lower
<1>6. /\ First(s, n) \in Seq(Outs) /\ Len(First(s, n)) = n
      /\ \A i \in 1..n : First(s, n)[i] = s[i]
  BY <1>1, <1>3, <1>5, FirstFacts
<1>7. chunk = First(s, n)
  BY <1>2, <1>4, <1>6, SeqEqual
<1>8. \A i \in 1..n : chunk[i] \in Bytes
  <2>. TAKE i \in 1..n
  <2>1. s[i] # EOF
    <3>1. CASE Data(s) = s
      <4>1. s # <<>>
        BY <1>1, <1>3, EmptySeq
      <4>2. s[Len(s)] # EOF
        BY <3>1, <4>1, DataFacts
      <4>. QED
        BY <1>1, <1>3, <4>2
    <3>2. CASE Data(s) # s
      <4>1. Len(Data(s)) = Len(s) - 1
        BY <3>2, DataFacts
      <4>. QED
        BY <1>1, <1>3, <4>1
    <3>. QED
      BY <3>1, <3>2
  <2>2. s[i] \in Outs
    BY <1>1, <1>3, ElementOfSeq
  <2>. QED
    BY <1>4, <2>1, <2>2 DEF Outs
<1>9. chunk \in Seq(Bytes)
  <2>1. chunk = [i \in 1..n |-> chunk[i]]
    BY <1>2, LenProperties
  <2>2. chunk \in [1..n -> Bytes] /\ n \in Nat
    BY <1>1, <1>3, <1>8, <2>1
  <2>. QED
    BY <2>2, SeqDef
<1>. QED
  BY <1>3, <1>7, <1>9

LEMMA PrintedFacts ==
  ASSUME NEW chunk \in Seq(Bytes)
  PROVE  Printed(chunk) \subseteq Seq(Bytes \cup {Junk})
<1>1. Str(chunk) \in Seq(Bytes)
  BY StrFacts
<1>2. Str(chunk) \in Seq(Bytes \cup {Junk})
  BY <1>1, SeqMonotonic
<1>3. Append(Str(chunk), Junk) \in Seq(Bytes \cup {Junk})
  BY <1>2, AppendProperties
<1>. QED
  BY <1>2, <1>3 DEF Printed

-----------------------------------------------------------------------------
(* The invariant *)

LEMMA InitInv == Init => Inv
<1>. SUFFICES ASSUME Init PROVE Inv
  OBVIOUS
<1>1. \A S : <<>> \in Seq(S) /\ Len(<<>>) = 0
  BY EmptySeq
<1>2. TypeOK
  <2>1. /\ <<>> \in Seq(Keys) /\ <<>> \in Seq(Bytes \cup {EOF})
        /\ <<>> \in Seq(Bytes \cup {Junk})
    BY <1>1
  <2>2. 0 \in 0..MaxWindow /\ 0 <= LineMax
    OBVIOUS
  <2>. QED
    BY <1>1, <2>1, <2>2 DEF Init, TypeOK
<1>3. <<>> \o <<>> = <<>>
  BY <1>1, ConcatEmptySeq
<1>4. WriteInv /\ KeysInOrder /\ ScreenInOrder /\ EndShowsAll
  BY <1>3, StrOfNothing DEF Init, WriteInv, KeysInOrder, ScreenInOrder, EndShowsAll
<1>5. EofInv
  BY <1>1, <1>3 DEF Init, EofInv, Waiting
<1>. QED
  BY <1>2, <1>4, <1>5 DEF Inv

\* What the order of the keys depends on.
LEMMA KeysStay ==
  ASSUME KeysInOrder, UNCHANGED <<typed, taken, due, sent, whole, commandbuf, stdio, tty>>
  PROVE  KeysInOrder'
<1>1. Str(commandbuf)' = Str(commandbuf)
  BY DEF Str, First, Lower, PlaceOf
<1>. QED
  BY <1>1 DEF KeysInOrder

\* What the order of a turn depends on.
LEMMA SameOrder ==
  ASSUME Inv, UNCHANGED <<input, output>>, TypeOK', pc # "write", pc' # "ended"
  PROVE  Inv'
<1>1. WriteInv'
  BY DEF Inv, WriteInv, input
<1>2. EofInv'
  BY DEF Inv, EofInv, Waiting, output
<1>3. KeysInOrder' /\ ScreenInOrder'
  <2>1. UNCHANGED <<typed, taken, due, sent, whole, commandbuf, stdio, tty>>
    BY DEF input, lines
  <2>2. KeysInOrder'
    BY <2>1, KeysStay DEF Inv
  <2>. QED
    BY <2>2 DEF Inv, ScreenInOrder, output
<1>4. EndShowsAll'
  BY DEF EndShowsAll
<1>. QED
  BY <1>1, <1>2, <1>3, <1>4 DEF Inv

LEMMA PollStep ==
  ASSUME Inv, Poll
  PROVE  Inv'
<1>1. TypeOK'
  BY DEF Inv, TypeOK, Poll, input, output
<1>. QED
  BY <1>1, SameOrder DEF Poll

\* The remote side's end of file is all that waits when the loop ends.
LEMMA TurnEndsStep ==
  ASSUME Inv, TurnEnds
  PROVE  Inv'
<1>1. TypeOK'
  BY DEF Inv, TypeOK, TurnEnds, input, output
<1>2. CASE pc' # "ended"
  BY <1>1, <1>2, SameOrder DEF TurnEnds
<1>3. CASE pc' = "ended"
  <2>1. queue = <<EOF>>
    BY <1>3 DEF TurnEnds
  <2>2. /\ queue \in Seq(Outs) /\ sock \in Seq(Outs) /\ out \in Seq(Outs)
        /\ screen \in Seq(Bytes \cup {Junk})
    BY DEF Inv, TypeOK, Outs
  <2>3. sock = <<>>
    <3>1. Len(queue) = 1 /\ queue[1] = EOF /\ Len(sock) \in Nat
      BY <2>1, <2>2, LenProperties
    <3>2. Len(Waiting) = 1 + Len(sock) /\ Waiting[1] = EOF
      <4>1. Len(queue \o sock) = Len(queue) + Len(sock)
        BY <2>2, ConcatProperties
      <4>2. \A i \in 1..(Len(queue) + Len(sock)) :
              (queue \o sock)[i] = IF i <= Len(queue) THEN queue[i] ELSE sock[i - Len(queue)]
        BY <2>2, ConcatProperties
      <4>3. 1 \in 1..(Len(queue) + Len(sock)) /\ 1 <= Len(queue)
        BY <3>1
      <4>4. (queue \o sock)[1] = queue[1]
        BY <4>2, <4>3
      <4>. QED
        BY <3>1, <4>1, <4>4 DEF Waiting
    <3>3. ~(1 \in 1..(Len(Waiting) - 1))
      BY <3>2 DEF Inv, EofInv
    <3>4. Len(sock) = 0
      BY <3>1, <3>2, <3>3
    <3>. QED
      BY <2>2, <3>4, EmptySeq
  <2>4. plain => screen = Data(out)
    <3>. SUFFICES ASSUME plain PROVE screen = Data(out)
      OBVIOUS
    <3>1. screen \in Seq(All) /\ queue \in Seq(All)
      BY <2>2, SeqMonotonic DEF All, Outs
    <3>2. out = screen \o <<EOF>>
      <4>1. (screen \o queue) \o <<>> = screen \o queue
        BY <3>1, ConcatProperties, ConcatEmptySeq
      <4>. QED
        BY <2>1, <2>3, <4>1 DEF Inv, ScreenInOrder
    <3>3. Len(<<EOF>>) = 1 /\ <<EOF>> \in Seq(All) /\ <<EOF>>[1] = EOF
      BY <2>1, <3>1
    <3>4. Len(screen) \in Nat
      BY <3>1, LenProperties
    <3>5. /\ Len(out) = Len(screen) + 1 /\ out[Len(screen) + 1] = EOF
          /\ \A i \in 1..Len(screen) : out[i] = screen[i]
      BY <3>1, <3>2, <3>3, <3>4, ConcatProperties
    <3>6. out # <<>> /\ Len(out) - 1 = Len(screen)
      BY <3>4, <3>5, EmptySeq
    <3>7. Len(Data(out)) = Len(screen) /\ Data(out) \in Seq(Outs)
      BY <2>2, <3>5, <3>6, DataFacts
    <3>8. \A i \in 1..Len(screen) : Data(out)[i] = screen[i]
      BY <2>2, <3>5, <3>7, DataFacts
    <3>9. Data(out) \in Seq(All)
      BY <3>7, SeqMonotonic DEF All
    <3>. QED
      BY <3>1, <3>7, <3>8, <3>9, SeqEqual
  <2>5. WriteInv' /\ KeysInOrder' /\ ScreenInOrder' /\ EofInv'
    BY DEF Inv, WriteInv, KeysInOrder, ScreenInOrder, EofInv, Waiting, TurnEnds, input, output
  <2>6. EndShowsAll'
    BY <2>4 DEF EndShowsAll, TurnEnds, output, Data, First, Lower
  <2>. QED
    BY <1>1, <2>5, <2>6 DEF Inv
<1>. QED
  BY <1>2, <1>3

\* A read moves a beginning of what waits to the screen, whole if it is a string.
LEMMA ReadStep ==
  ASSUME Inv, Read
  PROVE  Inv'
<1>. DEFINE chunk == First(Data(Waiting), ReadMax)
            left  == Rest(Waiting, Len(chunk))
<1>1. /\ queue \in Seq(Outs) /\ sock \in Seq(Outs) /\ out \in Seq(Outs)
      /\ screen \in Seq(Bytes \cup {Junk})
  BY DEF Inv, TypeOK, Outs
<1>2. Waiting \in Seq(Outs) /\ Len(Waiting) \in Nat
  BY <1>1, ConcatProperties, LenProperties DEF Waiting
<1>3. \A i \in 1..(Len(Waiting) - 1) : Waiting[i] # EOF
  BY DEF Inv, EofInv
<1>4. /\ chunk \in Seq(Bytes) /\ Len(chunk) \in 0..Len(Waiting)
      /\ chunk = First(Waiting, Len(chunk))
  BY <1>2, <1>3, ChunkFacts
<1>5. /\ left \in Seq(Outs) /\ Len(left) = Len(Waiting) - Len(chunk)
      /\ \A i \in 1..(Len(Waiting) - Len(chunk)) : left[i] = Waiting[Len(chunk) + i]
  BY <1>2, <1>4, RestFacts
<1>6. chunk \o left = Waiting
  BY <1>2, <1>4, CutIsWhole
<1>7. PICK s \in Printed(chunk) :
        /\ pc = "read" /\ sock' = <<>> /\ queue' = left /\ screen' = screen \o s
        /\ plain' = (plain /\ Printed(chunk) = {chunk})
        /\ unseen' = FALSE
        /\ pc' \in {"read", "fgets", "eof"}
        /\ UNCHANGED <<ready, input, out>>
  BY DEF Read, Waiting
<1>. HIDE DEF chunk, left
<1>8. s \in Seq(Bytes \cup {Junk})
  BY <1>4, <1>7, PrintedFacts
<1>9. <<>> \in Seq(Outs) /\ Waiting' = left
  BY <1>5, <1>7, ConcatEmptySeq, EmptySeq DEF Waiting
<1>10. TypeOK'
  <2>1. screen' \in Seq(Bytes \cup {Junk})
    BY <1>1, <1>7, <1>8, ConcatProperties
  <2>2. queue' \in Seq(Bytes \cup {EOF}) /\ sock' \in Seq(Bytes \cup {EOF})
    BY <1>5, <1>7, <1>9 DEF Outs
  <2>3. plain' \in BOOLEAN /\ unseen' \in BOOLEAN
    BY <1>7 DEF Inv, TypeOK
  <2>. QED
    BY <1>7, <2>1, <2>2, <2>3 DEF Inv, TypeOK, input
<1>11. EofInv'
  <2>1. \A i \in 1..Len(left) : Len(chunk) + i \in 1..Len(Waiting)
    BY <1>2, <1>4, <1>5
  <2>2. \A i \in 1..(Len(left) - 1) : left[i] # EOF
    <3>. TAKE i \in 1..(Len(left) - 1)
    <3>1. Len(chunk) + i \in 1..(Len(Waiting) - 1) /\ i \in 1..(Len(Waiting) - Len(chunk))
      BY <1>2, <1>4, <1>5
    <3>. QED
      BY <1>3, <1>5, <3>1
  <2>3. Data(out) = out => \A i \in 1..Len(left) : left[i] # EOF
    BY <1>5, <2>1 DEF Inv, EofInv
  <2>4. Data(out)' = Data(out)
    BY <1>7 DEF Data, First, Lower
  <2>. QED
    BY <1>7, <1>9, <2>2, <2>3, <2>4 DEF EofInv
<1>12. ScreenInOrder'
  <2>. SUFFICES ASSUME plain' PROVE out' = screen' \o queue' \o sock'
    BY DEF ScreenInOrder
  <2>1. plain /\ s = chunk
    BY <1>7
  <2>2. /\ screen \in Seq(All) /\ chunk \in Seq(All) /\ left \in Seq(All)
        /\ queue \in Seq(All) /\ sock \in Seq(All)
    BY <1>1, <1>4, <1>5, SeqMonotonic DEF All, Outs
  <2>3. out = screen \o Waiting
    <3>1. (screen \o queue) \o sock = screen \o (queue \o sock)
      BY <2>2, AllAssociated, SMTT(30)
    <3>. QED
      BY <2>1, <3>1 DEF Inv, ScreenInOrder, Waiting
  <2>4. out = (screen \o chunk) \o left
    <3>1. (screen \o chunk) \o left = screen \o (chunk \o left)
      BY <2>2, AllAssociated, SMTT(30)
    <3>. QED
      BY <1>6, <2>3, <3>1
  <2>5. ((screen \o chunk) \o left) \o <<>> = (screen \o chunk) \o left
    BY <2>2, ConcatProperties, ConcatEmptySeq
  <2>. QED
    BY <1>7, <2>1, <2>4, <2>5
<1>13. WriteInv' /\ KeysInOrder' /\ EndShowsAll'
  BY <1>7 DEF Inv, WriteInv, KeysInOrder, EndShowsAll, input
<1>. QED
  BY <1>10, <1>11, <1>12, <1>13 DEF Inv

\* fgets moves a beginning of what is typed to commandbuf.
LEMMA FgetsStep ==
  ASSUME Inv, Fgets
  PROVE  Inv'
<1>. DEFINE all == IF FullLine(stdio) THEN stdio ELSE stdio \o tty
<1>1. /\ tty \in Seq(Keys) /\ stdio \in Seq(Keys) /\ sent \in Seq(Keys)
      /\ typed \in Seq(Keys) /\ taken \in Seq(Keys) /\ due \in Seq(Keys)
      /\ commandbuf = <<>> /\ <<>> \in Seq(Keys)
  BY EmptySeq DEF Inv, TypeOK, WriteInv, Fgets
<1>2. all \in Seq(Keys) /\ all \o tty' = stdio \o tty /\ tty' \in Seq(Keys)
  <2>1. CASE FullLine(stdio)
    BY <1>1, <2>1 DEF Fgets
  <2>2. CASE ~FullLine(stdio)
    <3>1. stdio \o tty \in Seq(Keys)
      BY <1>1, ConcatProperties
    <3>2. tty' = <<>> /\ all = stdio \o tty
      BY <2>2 DEF Fgets
    <3>. HIDE DEF all
    <3>. QED
      BY <1>1, <3>1, <3>2, ConcatEmptySeq
  <2>. QED
    BY <2>1, <2>2
<1>3. /\ commandbuf' = First(all, Line(all)) /\ stdio' = Rest(all, Line(all))
      /\ taken' = taken \o commandbuf' /\ due' = due \o Str(commandbuf')
      /\ written' = 0 /\ pc' = "write"
      /\ UNCHANGED <<ready, window, typed, sent, whole, output>>
  BY DEF Fgets
<1>. HIDE DEF all
<1>4. Line(all) \in 0..Len(all) /\ Line(all) <= LineMax /\ Len(all) \in Nat
  BY <1>2, LineFacts, LenProperties
<1>5. /\ commandbuf' \in Seq(Keys) /\ Len(commandbuf') <= LineMax
  <2>1. Lower(Line(all), Len(all)) = Line(all) /\ Line(all) \in Nat
    BY <1>4 DEF Lower
  <2>. QED
    BY <1>2, <1>3, <1>4, <2>1, FirstFacts
<1>6. stdio' \in Seq(Keys)
  BY <1>2, <1>3, <1>4, RestFacts
<1>7. commandbuf' \o stdio' = all
  BY <1>2, <1>3, <1>4, CutIsWhole
\* From here on the line and what is left of it are named, not computed.
<1>. DEFINE c == commandbuf'
            i == stdio'
            t == tty'
<1>8. /\ c \in Seq(Keys) /\ i \in Seq(Keys) /\ t \in Seq(Keys)
      /\ (c \o i) \o t = stdio \o tty
      /\ taken' = taken \o c /\ due' = due \o Str(c)
  BY <1>2, <1>3, <1>5, <1>6, <1>7
<1>9. Str(c) \in Seq(Keys) /\ Str(commandbuf)' = Str(c)
  <2>1. Str(c) \in Seq(Keys)
    <3>. HIDE DEF c
    <3>. QED
      BY <1>8, StrFacts
  <2>. QED
    BY <2>1 DEF Str, First, Lower, PlaceOf
<1>. HIDE DEF c, i, t
<1>10. taken' \in Seq(Keys) /\ due' \in Seq(Keys)
  BY <1>1, <1>8, <1>9, ConcatProperties
<1>11. TypeOK'
  BY <1>2, <1>3, <1>5, <1>6, <1>10 DEF Inv, TypeOK, output
<1>12. typed = (taken \o c) \o (i \o t)
  <2>1. typed = taken \o (stdio \o tty)
    <3>1. taken \in Seq(Keys) /\ stdio \in Seq(Keys) /\ tty \in Seq(Keys)
      BY <1>1
    <3>2. (taken \o stdio) \o tty = taken \o (stdio \o tty)
      BY <3>1, KeysAssociated
    <3>. QED
      BY <3>2 DEF Inv, KeysInOrder
  <2>2. stdio \o tty = c \o (i \o t)
    BY <1>8, KeysAssociated
  <2>3. i \o t \in Seq(Keys)
    BY <1>8, ConcatProperties
  <2>4. (taken \o c) \o (i \o t) = taken \o (c \o (i \o t))
    <3>1. taken \in Seq(Keys) /\ c \in Seq(Keys)
      BY <1>1, <1>8
    <3>. QED
      BY <2>3, <3>1, KeysAssociated
  <2>. QED
    BY <2>1, <2>2, <2>4
<1>13. typed = ((taken \o c) \o i) \o t
  <2>1. taken \o c \in Seq(Keys)
    BY <1>1, <1>8, ConcatProperties
  <2>2. ((taken \o c) \o i) \o t = (taken \o c) \o (i \o t)
    BY <1>8, <2>1, KeysAssociated
  <2>. QED
    BY <1>12, <2>2
\* A line without a null byte is its own string.
<1>14. ASSUME \A n \in 1..Len(typed) : typed[n] # NUL
       PROVE  due \o Str(c) = taken \o c
  <2>1. due = taken
    BY <1>14 DEF Inv, KeysInOrder
  <2>2. Len(c) \in Nat /\ Len(taken) \in Nat /\ Len(i \o t) \in Nat
    BY <1>1, <1>8, ConcatProperties, LenProperties
  <2>3. \A n \in 1..Len(c) : c[n] # NUL
    <3>. TAKE n \in 1..Len(c)
    <3>1. /\ Len(taken \o c) = Len(taken) + Len(c)
          /\ (taken \o c)[Len(taken) + n] = c[n]
      <4>1. Len(taken) + n \in 1..(Len(taken) + Len(c)) /\ ~(Len(taken) + n <= Len(taken))
        BY <2>2
      <4>2. Len(taken) + n - Len(taken) = n
        BY <2>2
      <4>. QED
        BY <1>1, <1>8, <4>1, <4>2, ConcatProperties
    <3>2. taken \o c \in Seq(Keys) /\ i \o t \in Seq(Keys)
      BY <1>1, <1>8, ConcatProperties
    <3>3. /\ Len(typed) = Len(taken \o c) + Len(i \o t)
          /\ typed[Len(taken) + n] = (taken \o c)[Len(taken) + n]
      <4>1. /\ Len(taken) + n \in 1..(Len(taken \o c) + Len(i \o t))
            /\ Len(taken) + n <= Len(taken \o c)
        BY <2>2, <3>1
      <4>. QED
        BY <1>12, <3>2, <4>1, ConcatProperties
    <3>4. Len(taken) + n \in 1..Len(typed)
      BY <2>2, <3>1, <3>3
    <3>. QED
      BY <1>14, <3>1, <3>3, <3>4
  <2>4. Str(c) = c
    BY <1>8, <2>3, StrFacts
  <2>. QED
    BY <2>1, <2>4
<1>15. KeysInOrder'
  <2>1. /\ typed' = typed /\ sent' = sent /\ whole' = whole
        /\ commandbuf' = c /\ stdio' = i /\ tty' = t
    BY <1>3 DEF c, i, t
  <2>2. whole => due' = sent \o Str(c)
    <3>1. whole => due = sent
      <4>1. sent \o Str(commandbuf) = sent
        BY <1>1, StrOfNothing, ConcatEmptySeq
      <4>. QED
        BY <4>1 DEF Inv, KeysInOrder
    <3>. QED
      BY <1>8, <3>1
  <2>. QED
    BY <1>8, <1>9, <1>13, <1>14, <2>1, <2>2 DEF KeysInOrder
<1>16. EofInv'
  BY <1>3 DEF Inv, EofInv, Waiting, output, Data, First, Lower
<1>17. WriteInv' /\ ScreenInOrder' /\ EndShowsAll'
  BY <1>3 DEF Inv, WriteInv, ScreenInOrder, EndShowsAll, output
<1>. QED
  BY <1>11, <1>15, <1>16, <1>17 DEF Inv

\* A write that takes the whole of commandbuf is the last one of its turn.
LEMMA WriteStep ==
  ASSUME Inv, Write
  PROVE  Inv'
<1>. DEFINE command == Str(commandbuf)
            n       == Lower(window, Len(command))
<1>1. /\ commandbuf \in Seq(Keys) /\ sent \in Seq(Keys) /\ <<>> \in Seq(Keys)
      /\ Len(<<>>) = 0 /\ window \in 0..MaxWindow /\ written \in Nat
      /\ command \in Seq(Keys) /\ Len(command) \in Nat
  <2>1. /\ commandbuf \in Seq(Keys) /\ sent \in Seq(Keys)
        /\ window \in 0..MaxWindow /\ written \in Nat
    BY DEF Inv, TypeOK
  <2>2. command \in Seq(Keys) /\ Len(command) \in Nat
    BY <2>1, StrFacts, LenProperties
  <2>. QED
    BY <2>1, <2>2, EmptySeq
<1>2. /\ queue \in Seq(Outs) /\ sock \in Seq(Outs) /\ <<>> \in Seq(Outs)
      /\ screen \in Seq(Bytes \cup {Junk})
  BY EmptySeq DEF Inv, TypeOK, Outs
<1>3. n \in Nat /\ n <= window /\ n <= Len(command)
  <2>1. window \in Nat
    BY <1>1
  <2>. QED
    BY <1>1, <2>1, LowerFacts
<1>4. /\ pc = "write" /\ queue' = queue \o sock /\ sock' = <<>>
      /\ sent' = sent \o First(command, n) /\ window' = window - n
      /\ whole' = (whole /\ n = Len(command)) /\ unseen' = (unseen \/ sock # <<>>)
      /\ UNCHANGED <<ready, tty, stdio, typed, lines, screen, out, plain>>
  BY DEF Write
<1>5. \/ /\ n = 0 \/ written + n = Len(command)
         /\ pc' = "eof" /\ commandbuf' = <<>> /\ written' = 0
      \/ /\ n # 0 /\ written + n # Len(command)
         /\ written' = written + n /\ pc' = pc /\ commandbuf' = commandbuf
  BY DEF Write
<1>. HIDE DEF n, command
<1>6. First(command, n) \in Seq(Keys)
  BY <1>1, <1>3, FirstFacts
<1>7. Waiting \in Seq(Outs) /\ Waiting' = Waiting
  BY <1>2, <1>4, ConcatProperties, ConcatEmptySeq DEF Waiting
<1>8. TypeOK'
  <2>1. sent' \in Seq(Keys)
    BY <1>1, <1>4, <1>6, ConcatProperties
  <2>2. queue' \in Seq(Bytes \cup {EOF}) /\ sock' \in Seq(Bytes \cup {EOF})
    BY <1>2, <1>4, ConcatProperties DEF Outs
  <2>3. window' \in 0..MaxWindow
    BY <1>1, <1>3, <1>4
  <2>4. /\ commandbuf' \in Seq(Keys) /\ Len(commandbuf') <= LineMax
        /\ written' \in Nat /\ pc' \in {"write", "eof"}
    <3>1. Len(commandbuf) <= LineMax
      BY DEF Inv, TypeOK
    <3>2. CASE commandbuf' = <<>> /\ written' = 0 /\ pc' = "eof"
      BY <1>1, <3>2
    <3>3. CASE written' = written + n /\ pc' = pc /\ commandbuf' = commandbuf
      BY <1>1, <1>3, <1>4, <3>1, <3>3
    <3>. QED
      BY <1>5, <3>2, <3>3
  <2>5. whole' \in BOOLEAN /\ unseen' \in BOOLEAN
    BY <1>4, Zenon DEF Inv, TypeOK
  <2>. QED
    BY <1>4, <2>1, <2>2, <2>3, <2>4, <2>5 DEF Inv, TypeOK
<1>9. WriteInv' /\ KeysInOrder'
  <2>1. CASE ~whole'
    BY <1>4, <1>5, <2>1 DEF Inv, WriteInv, KeysInOrder
  <2>2. CASE whole'
    <3>1. whole /\ written = 0 /\ n = Len(command)
      BY <1>4, <2>2 DEF Inv, WriteInv
    <3>2. pc' = "eof" /\ commandbuf' = <<>> /\ written' = 0
      BY <1>1, <1>5, <3>1
    <3>3. sent' = sent \o command /\ sent' \in Seq(Keys)
      BY <1>1, <1>4, <3>1, FirstOfAll, ConcatProperties
    <3>4. sent' \o Str(commandbuf') = sent'
      BY <3>2, <3>3, StrOfNothing, ConcatEmptySeq
    <3>5. due = sent'
      BY <3>1, <3>3 DEF Inv, KeysInOrder, command
    <3>6. Str(commandbuf)' = Str(commandbuf')
      BY DEF Str, First, Lower, PlaceOf
    <3>7. due' = sent' \o Str(commandbuf)'
      BY <1>4, <3>4, <3>5, <3>6
    <3>8. WriteInv'
      BY <3>2 DEF WriteInv
    <3>. QED
      BY <1>4, <3>7, <3>8 DEF Inv, KeysInOrder
  <2>. QED
    BY <2>1, <2>2
<1>10. ScreenInOrder'
  <2>. SUFFICES ASSUME plain PROVE out = (screen \o (queue \o sock)) \o <<>>
    BY <1>4 DEF ScreenInOrder
  <2>1. screen \in Seq(All) /\ queue \in Seq(All) /\ sock \in Seq(All)
    BY <1>2, SeqMonotonic DEF All, Outs
  <2>2. (screen \o queue) \o sock = screen \o (queue \o sock)
    BY <2>1, AllAssociated
  <2>3. screen \o (queue \o sock) \in Seq(All)
    BY <2>1, ConcatProperties
  <2>4. (screen \o (queue \o sock)) \o <<>> = screen \o (queue \o sock)
    BY <2>3, ConcatEmptySeq
  <2>. QED
    BY <2>2, <2>4 DEF Inv, ScreenInOrder
<1>11. EofInv'
  BY <1>4, <1>7 DEF Inv, EofInv, Data, First, Lower
<1>12. EndShowsAll'
  BY <1>4, <1>5 DEF EndShowsAll
<1>. QED
  BY <1>8, <1>9, <1>10, <1>11, <1>12 DEF Inv

LEMMA TypeStep ==
  ASSUME Inv, NEW k \in Keys, Type(k)
  PROVE  Inv'
<1>1. /\ typed \in Seq(Keys) /\ tty \in Seq(Keys) /\ sent \in Seq(Keys)
      /\ commandbuf \in Seq(Keys) /\ stdio \in Seq(Keys)
      /\ typed' = Append(typed, k) /\ tty' = Append(tty, k)
      /\ UNCHANGED <<pc, ready, stdio, commandbuf, written, window, lines, sent, whole, output>>
  BY DEF Inv, TypeOK, Type
<1>2. typed' = typed \o <<k>> /\ tty' = tty \o <<k>>
  BY <1>1, AppendIsConcat
<1>3. typed' \in Seq(Keys) /\ tty' \in Seq(Keys)
  BY <1>1, AppendProperties
<1>4. TypeOK'
  BY <1>1, <1>3 DEF Inv, TypeOK, output
<1>5. KeysInOrder'
  <2>1. taken \o stdio \in Seq(Keys) /\ <<k>> \in Seq(Keys) /\ taken \in Seq(Keys)
    BY <1>1, ConcatProperties DEF Inv, TypeOK
  <2>2. ((taken \o stdio) \o tty) \o <<k>> = (taken \o stdio) \o (tty \o <<k>>)
    <3>. DEFINE u == taken \o stdio
    <3>1. u \in Seq(Keys) /\ tty \in Seq(Keys) /\ <<k>> \in Seq(Keys)
      BY <1>1, <2>1
    <3>. HIDE DEF u
    <3>2. (u \o tty) \o <<k>> = u \o (tty \o <<k>>)
      BY <3>1, KeysAssociated
    <3>. QED
      BY <3>2 DEF u
  <2>3. typed' = taken' \o stdio' \o tty'
    BY <1>1, <1>2, <2>2 DEF Inv, KeysInOrder
  <2>4. Str(commandbuf)' = Str(commandbuf)
    BY <1>1 DEF Str, First, Lower, PlaceOf
  <2>5. whole' => due' = sent' \o Str(commandbuf)'
    BY <1>1, <2>4 DEF Inv, KeysInOrder
  <2>6. (\A n \in 1..Len(typed') : typed'[n] # NUL) => \A n \in 1..Len(typed) : typed[n] # NUL
    BY <1>1, AppendProperties, LenProperties
  <2>7. (\A n \in 1..Len(typed') : typed'[n] # NUL) => due' = taken'
    BY <1>1, <2>6 DEF Inv, KeysInOrder
  <2>. QED
    BY <2>3, <2>5, <2>7 DEF KeysInOrder
<1>6. WriteInv' /\ EofInv' /\ ScreenInOrder' /\ EndShowsAll'
  BY <1>1 DEF Inv, WriteInv, EofInv, Waiting, ScreenInOrder, EndShowsAll, Data, First, Lower, output
<1>. QED
  BY <1>4, <1>5, <1>6 DEF Inv

LEMMA WindowAdjustStep ==
  ASSUME Inv, WindowAdjust
  PROVE  Inv'
<1>1. Len(sent) \in Nat
  BY LenProperties DEF Inv, TypeOK
<1>2. window' \in 0..MaxWindow
  BY <1>1 DEF Inv, TypeOK, WindowAdjust
<1>3. TypeOK'
  BY <1>2 DEF Inv, TypeOK, WindowAdjust, output
<1>4. WriteInv' /\ EofInv' /\ KeysInOrder' /\ ScreenInOrder' /\ EndShowsAll'
  BY DEF Inv, WindowAdjust, WriteInv, EofInv, Waiting, KeysInOrder, ScreenInOrder, EndShowsAll,
         Data, First, Lower, output
<1>. QED
  BY <1>3, <1>4 DEF Inv

\* Nothing comes after the end of file.
LEMMA RemoteSendsStep ==
  ASSUME Inv, NEW b \in Outs, RemoteSends(b)
  PROVE  Inv'
<1>1. /\ queue \in Seq(Outs) /\ sock \in Seq(Outs) /\ out \in Seq(Outs)
      /\ screen \in Seq(Bytes \cup {Junk})
  BY DEF Inv, TypeOK, Outs
<1>2. /\ pc # "ended"
      /\ Data(out) = out /\ out' = Append(out, b) /\ sock' = Append(sock, b)
      /\ UNCHANGED <<pc, ready, input, queue, screen, plain, unseen>>
  BY DEF RemoteSends
<1>3. out' = out \o <<b>> /\ sock' = sock \o <<b>> /\ <<b>> \in Seq(Outs)
  BY <1>1, <1>2, AppendIsConcat
<1>4. out' \in Seq(Outs) /\ sock' \in Seq(Outs)
  BY <1>1, <1>2, AppendProperties
<1>5. TypeOK'
  BY <1>2, <1>4 DEF Inv, TypeOK, Outs, input
<1>6. Waiting \in Seq(Outs) /\ Len(Waiting) \in Nat
  BY <1>1, ConcatProperties, LenProperties DEF Waiting
<1>7. Waiting' = Append(Waiting, b)
  <2>1. (queue \o sock) \o <<b>> = queue \o (sock \o <<b>>)
    BY <1>1, <1>3, OutsAssociated
  <2>2. Append(Waiting, b) = Waiting \o <<b>>
    BY <1>6, AppendIsConcat
  <2>. QED
    BY <1>2, <1>3, <2>1, <2>2 DEF Waiting
<1>8. /\ Len(Waiting') = Len(Waiting) + 1 /\ Waiting'[Len(Waiting) + 1] = b
      /\ \A i \in 1..Len(Waiting) : Waiting'[i] = Waiting[i]
  BY <1>6, <1>7, AppendProperties
<1>9. \A i \in 1..Len(Waiting) : Waiting[i] # EOF
  BY <1>2 DEF Inv, EofInv
<1>10. EofInv'
  <2>1. \A i \in 1..(Len(Waiting') - 1) : Waiting'[i] # EOF
    BY <1>6, <1>8, <1>9
  <2>2. Data(out') = out' => b # EOF
    <3>1. out' # <<>> /\ out'[Len(out')] = b
      BY <1>1, <1>2, LenProperties, AppendProperties
    <3>. QED
      BY <1>4, <3>1, DataFacts
  <2>3. Data(out') = out' => \A i \in 1..Len(Waiting') : Waiting'[i] # EOF
    BY <1>6, <1>8, <1>9, <2>2
  <2>4. Data(out)' = Data(out')
    BY DEF Data, First, Lower
  <2>. QED
    BY <2>1, <2>3, <2>4 DEF EofInv
<1>11. ScreenInOrder'
  <2>. SUFFICES ASSUME plain PROVE out \o <<b>> = (screen \o queue) \o (sock \o <<b>>)
    BY <1>2, <1>3 DEF ScreenInOrder
  <2>1. /\ screen \in Seq(All) /\ queue \in Seq(All) /\ sock \in Seq(All)
        /\ <<b>> \in Seq(All)
    BY <1>1, <1>3, SeqMonotonic DEF All, Outs
  <2>2. screen \o queue \in Seq(All)
    BY <2>1, ConcatProperties
  <2>3. ((screen \o queue) \o sock) \o <<b>> = (screen \o queue) \o (sock \o <<b>>)
    BY <2>1, <2>2, AllAssociated
  <2>. QED
    BY <2>3 DEF Inv, ScreenInOrder
<1>12. WriteInv' /\ KeysInOrder' /\ EndShowsAll'
  BY <1>2 DEF Inv, WriteInv, KeysInOrder, EndShowsAll, input
<1>. QED
  BY <1>5, <1>10, <1>11, <1>12 DEF Inv

LEMMA InvInductive == Inv /\ [Next]_vars => Inv'
<1>. SUFFICES ASSUME Inv, [Next]_vars PROVE Inv'
  OBVIOUS
<1>1. CASE Turn
  BY <1>1, PollStep, ReadStep, FgetsStep, WriteStep, TurnEndsStep DEF Turn
<1>2. CASE Outside
  BY <1>2, TypeStep, RemoteSendsStep, WindowAdjustStep DEF Outside, Outs
<1>3. CASE UNCHANGED vars
  <2>1. TypeOK'
    BY <1>3 DEF Inv, TypeOK, vars, input, output
  <2>2. WriteInv' /\ EofInv' /\ KeysInOrder' /\ ScreenInOrder' /\ EndShowsAll'
    BY <1>3 DEF Inv, WriteInv, EofInv, Waiting, KeysInOrder, ScreenInOrder, EndShowsAll,
                Data, First, Lower, vars, input, output
  <2>. QED
    BY <2>1, <2>2 DEF Inv
<1>. QED
  BY <1>1, <1>2, <1>3 DEF Next

LEMMA InvHolds == Spec => []Inv
BY InitInv, InvInductive, PTL DEF Spec

(***************************************************************************)
(* The variables of the polling loop keep their types, and commandbuf is   *)
(* never filled beyond what fgets was told.                                *)
(***************************************************************************)
THEOREM TypeCorrect == Spec => []TypeOK
<1>1. Inv => TypeOK
  BY DEF Inv
<1>. QED
  BY <1>1, InvHolds, PTL

(***************************************************************************)
(* No key is lost, doubled or overtaken on its way to the channel, as long *)
(* as the channel takes whole lines: for any keys, line width and window.  *)
(***************************************************************************)
THEOREM KeysStayInOrder == Spec => []KeysInOrder
<1>1. Inv => KeysInOrder
  BY DEF Inv
<1>. QED
  BY <1>1, InvHolds, PTL

(***************************************************************************)
(* Nothing the remote side sent is lost, doubled or overtaken on its way   *)
(* to the screen, as long as every chunk read is a string.                 *)
(***************************************************************************)
THEOREM ScreenStaysInOrder == Spec => []ScreenInOrder
<1>1. Inv => ScreenInOrder
  BY DEF Inv
<1>. QED
  BY <1>1, InvHolds, PTL

(***************************************************************************)
(* The end of file ends the loop only when all before it is on the screen. *)
(***************************************************************************)
THEOREM EndAlwaysShowsAll == Spec => []EndShowsAll
<1>1. Inv => EndShowsAll
  BY DEF Inv
<1>. QED
  BY <1>1, InvHolds, PTL
=============================================================================
