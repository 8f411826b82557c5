-------------------------- MODULE PassBufferProofs --------------------------
(***************************************************************************)
(* Theorems about PassBuffer, for a field of any width and strings of any  *)
(* length over any characters.                                             *)
(***************************************************************************)
EXTENDS PassBuffer, SequenceTheorems, TLAPS

\* What a string is, and what is left of it in a field.
LEMMA CutString ==
  ASSUME NEW s \in Strings
  PROVE  /\ s \in Seq(Chars) /\ Len(s) \in Nat
         /\ Cut(s) \in Seq(Chars) /\ Len(Cut(s)) \in 0..(Width - 1)
         /\ Len(Cut(s)) <= Len(s)
         /\ Len(Cut(s)) < Width - 1 => Len(s) = Len(Cut(s))
         /\ \A i \in 1..Len(Cut(s)) : Cut(s)[i] = s[i] /\ s[i] \in Chars
PROOF
  <1>1. s \in Seq(Chars)
    BY SeqDef, WidthAssumption DEF Strings
  <1>2. Len(s) \in Nat /\ \A i \in 1..Len(s) : s[i] \in Chars
    BY <1>1
  <1>3. CASE Len(s) < Width
    BY <1>1, <1>2, <1>3, WidthAssumption DEF Cut
  <1>4. CASE ~(Len(s) < Width)
    <2>1. /\ 1 \in Int /\ Width - 1 \in 1..Len(s)
          /\ \A i \in 1..(Width - 1) : s[i] \in Chars
      BY <1>2, <1>4, WidthAssumption
    <2>2. /\ SubSeq(s, 1, Width - 1) \in Seq(Chars)
          /\ Len(SubSeq(s, 1, Width - 1)) = Width - 1
          /\ \A i \in 1..(Width - 1) : SubSeq(s, 1, Width - 1)[i] = s[i]
      BY <2>1, SubSeqProperties, WidthAssumption
    <2>3. Cut(s) = SubSeq(s, 1, Width - 1)
      BY <1>4 DEF Cut
    <2> QED BY <1>1, <1>2, <1>4, <2>1, <2>2, <2>3
  <1> QED BY <1>3, <1>4

\* Nothing lies in the field beyond the longest string it ever held.
Residue ==
  /\ longest \in 1..(Width - 1)
  /\ \A i \in Index : i >= longest => pass[i] = NUL

Inv == TypeOK /\ Terminated /\ GivenKept /\ Residue

LEMMA InitInv == Init => Inv
PROOF
  <1> SUFFICES ASSUME Init PROVE Inv
    OBVIOUS
  <1> USE WidthAssumption, CharsAssumption DEF Init
  <1>1. Fresh \in Buffer /\ Fresh[Width - 1] = NUL
    BY DEF Fresh, Buffer, Index
  <1>2. TypeOK
    <2>1. longest \in 1..(Width - 1)
      OBVIOUS
    <2>2. saved \in BOOLEAN
      BY Zenon
    <2>3. pass \in Buffer /\ lpass \in Buffer
      BY <1>1
    <2> QED BY <2>1, <2>2, <2>3 DEF TypeOK
  <1>3. Terminated BY <1>1 DEF Terminated
  <1>4. GivenKept BY DEF GivenKept
  <1>5. Residue BY DEF Residue, Fresh, Index
  <1> QED BY <1>2, <1>3, <1>4, <1>5 DEF Inv

LEMMA StorePassInv ==
  ASSUME Inv, NEW s \in Strings, StorePass(s)
  PROVE  Inv'
PROOF
  <1> DEFINE c == Cut(s)
  <1>1. /\ s \in Seq(Chars) /\ Len(s) \in Nat
        /\ c \in Seq(Chars) /\ Len(c) \in 0..(Width - 1)
        /\ Len(c) <= Len(s) /\ (Len(c) < Width - 1 => Len(s) = Len(c))
        /\ \A i \in 1..Len(c) : c[i] = s[i] /\ s[i] \in Chars
    BY CutString
  <1>2. \A i \in Index : i < Len(s) => s[i + 1] \in Chars
    BY <1>1, WidthAssumption DEF Index
  <1>3. pass' = Overlay(pass, s) /\ pass' \in Buffer
    BY <1>2, WidthAssumption DEF StorePass, Overlay, Inv, TypeOK, Buffer
  <1> HIDE DEF c
  <1>4. longest' = Larger(longest, Len(c)) /\ longest' \in 1..(Width - 1)
        /\ longest' >= longest /\ longest' >= Len(c)
    BY <1>1, WidthAssumption DEF StorePass, Larger, Inv, Residue, c
  <1>5. TypeOK'
    BY <1>3, <1>4, WidthAssumption DEF StorePass, Inv, TypeOK
  <1>6. Terminated'
    BY <1>3, WidthAssumption DEF StorePass, Overlay, Index, Inv, Terminated
  <1>7. Residue'
    <2>1. ASSUME NEW i \in Index, i >= longest' PROVE pass'[i] = NUL
      <3>1. i >= longest /\ i >= Len(c) /\ i \in 0..(Width - 1)
        BY <1>1, <1>4, <2>1, WidthAssumption DEF Index, Inv, Residue
      <3>2. pass[i] = NUL
        BY <3>1 DEF Inv, Residue, Index
      <3>3. i = Width - 1 \/ ~(i < Len(s))
        BY <1>1, <3>1, WidthAssumption
      <3> QED BY <1>3, <3>2, <3>3 DEF Overlay
    <2> QED BY <1>4, <2>1 DEF Residue
  <1>8. GivenKept'
    <2>1. \A i \in 1..Len(c) : pass'[i - 1] = c[i]
      BY <1>1, <1>3, WidthAssumption DEF Overlay, Index
    <2>2. ASSUME Len(c) >= longest' PROVE pass'[Len(c)] = NUL
      BY <1>1, <1>7, <2>2, WidthAssumption DEF Residue, Index
    <2>3. saved' /\ given' = s
      BY DEF StorePass
    <2> QED BY <2>1, <2>2, <2>3 DEF GivenKept, Begins, Holds, c
  <1> QED BY <1>5, <1>6, <1>7, <1>8 DEF Inv

LEMMA ConnectInv ==
  ASSUME Inv, Connect
  PROVE  Inv'
PROOF
  <1> USE DEF Connect
  <1>1. TypeOK' BY DEF Inv, TypeOK
  <1>2. Terminated' BY DEF Inv, Terminated
  <1>3. GivenKept' BY DEF Inv, GivenKept
  <1>4. Residue' BY DEF Inv, Residue
  <1> QED BY <1>1, <1>2, <1>3, <1>4 DEF Inv

LEMMA TypePasswordInv ==
  ASSUME Inv, NEW s \in Strings, TypePassword(s)
  PROVE  Inv'
PROOF
  <1> USE DEF TypePassword
  <1>1. Len(Cut(s)) \in 0..(Width - 1)
        /\ \A i \in 1..Len(Cut(s)) : s[i] \in Chars
    BY CutString
  <1>2. \A i \in Index : i < Len(Cut(s)) => s[i + 1] \in Chars
    BY <1>1, WidthAssumption DEF Index
  <1>3. Padded(s) \in Buffer
    BY <1>2 DEF Padded, Buffer
  <1>4. Padded(s)[Width - 1] = NUL
    BY <1>1, WidthAssumption DEF Padded, Index
  <1>5. TypeOK' BY <1>3 DEF Inv, TypeOK
  <1>6. Terminated' BY <1>4 DEF Inv, Terminated
  <1>7. GivenKept' BY DEF Inv, GivenKept
  <1>8. Residue' BY DEF Inv, Residue
  <1> QED BY <1>5, <1>6, <1>7, <1>8 DEF Inv

LEMMA AnswerInv ==
  ASSUME Inv, SavedAccepted \/ TypedAccepted \/ Refused
  PROVE  Inv'
PROOF
  <1>1. CASE SavedAccepted
    BY <1>1 DEF SavedAccepted, Inv, TypeOK, Terminated, GivenKept, Residue
  <1>2. CASE TypedAccepted
    <2>1. pass' = pass
      BY <1>2, WidthAssumption DEF TypedAccepted, Inv, TypeOK, Terminated, Buffer, Index
    <2>2. given = None
      BY <1>2 DEF TypedAccepted, Inv, GivenKept
    <2> QED BY <1>2, <2>1, <2>2 DEF TypedAccepted, Inv, TypeOK, Terminated, GivenKept, Residue
  <1>3. CASE Refused /\ ~saved
    BY <1>3 DEF Refused, Inv, TypeOK, Terminated, GivenKept, Residue
  <1>4. CASE Refused /\ saved
    <2>1. /\ pass' = Cleared(pass) /\ lpass' = pass /\ given' = None /\ longest' = longest
          /\ saved' = FALSE /\ phase' = "idle" /\ typed' = typed
      BY <1>4 DEF Refused
    <2>2. pass' \in Buffer
      BY <2>1, CharsAssumption DEF Cleared, Inv, TypeOK, Buffer
    <2>3. TypeOK' BY <2>1, <2>2 DEF Inv, TypeOK
    <2>4. Terminated' BY <2>1, WidthAssumption DEF Cleared, Index, Inv, Terminated
    <2>5. GivenKept' BY <2>1 DEF GivenKept
    <2>6. Residue' BY <2>1, WidthAssumption DEF Cleared, Index, Inv, Residue
    <2> QED BY <2>3, <2>4, <2>5, <2>6 DEF Inv
  <1> QED BY <1>1, <1>2, <1>3, <1>4

LEMMA NextInv == Inv /\ [Next]_vars => Inv'
PROOF
  <1> SUFFICES ASSUME Inv, [Next]_vars PROVE Inv'
    OBVIOUS
  <1>1. CASE UNCHANGED vars
    BY <1>1 DEF vars, Inv, TypeOK, Terminated, GivenKept, Residue
  <1>2. CASE Next
    BY <1>2, StorePassInv, ConnectInv, TypePasswordInv, AnswerInv DEF Next
  <1> QED BY <1>1, <1>2

(***************************************************************************)
(* The field, the copy of it a login sends and the typed password keep     *)
(* their widths.                                                           *)
(***************************************************************************)
THEOREM TypeCorrect == Spec => []TypeOK
PROOF
  <1>1. Inv => TypeOK
    BY DEF Inv
  <1> QED BY <1>1, InitInv, NextInv, PTL DEF Spec

(***************************************************************************)
(* The field and the copy of it a login sends always end in a null byte.   *)
(***************************************************************************)
THEOREM AlwaysTerminated == Spec => []Terminated
PROOF
  <1>1. Inv => Terminated
    BY DEF Inv
  <1> QED BY <1>1, InitInv, NextInv, PTL DEF Spec

(***************************************************************************)
(* The password of otw -s is what the field begins with, and all it holds  *)
(* when nothing longer was ever there.                                     *)
(***************************************************************************)
THEOREM GivenAlwaysKept == Spec => []GivenKept
PROOF
  <1>1. Inv => GivenKept
    BY DEF Inv
  <1> QED BY <1>1, InitInv, NextInv, PTL DEF Spec
=============================================================================
