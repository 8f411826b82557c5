----------------------------- MODULE Fingerprint -----------------------------
(***************************************************************************)
(* The text of a digest, as check_for_known_host makes it: a loop of       *)
(* sprintf(fp_txt + 2 * i, "%02X", fingerprint[i]) over plain chars, which *)
(* are signed.  A byte above 0x7f is widened to a negative int and prints  *)
(* as eight digits, of which the next call overwrites all but two.         *)
(***************************************************************************)
EXTENDS Naturals

CONSTANT Width     \* SHA256_FP_WIDTH: bytes of a digest

ASSUME WidthAssumption == Width \in Nat \ {0}

Nibble == 0..15
Byte   == Nibble \X Nibble
Digest == [1..Width -> Byte]

\* As a char, the byte is negative.
IsNegative(b) == b[1] >= 8

\* What is left of the digits in the end: "FF" for every byte above 0x7f.
Text(d) == [i \in 1..Width |-> IF IsNegative(d[i]) THEN <<15, 15>> ELSE d[i]]

\* Two digests that differ at most in bytes above 0x7f.
LooksLike(d, e) ==
  \A i \in 1..Width : d[i] = e[i] \/ (IsNegative(d[i]) /\ IsNegative(e[i]))

-----------------------------------------------------------------------------
(* The loop *)

\* fp_txtbuf_len; the buffer is zeroed.
BufLen  == 2 * Width + 8
NulByte == 16
Zeroed  == [j \in 0..(BufLen - 1) |-> NulByte]

\* The digits %02X prints of a char.
Digits(b) == IF IsNegative(b) THEN <<15, 15, 15, 15, 15, 15, b[1], b[2]>> ELSE b

NumDigits(b) == IF IsNegative(b) THEN 8 ELSE 2

\* Mutant of Printed: the offset is that of the next byte.
PrintedShifted(buf, d, i) ==
  LET from == 2 * i
      to   == from + NumDigits(d[i])
  IN  [j \in 0..(BufLen - 1) |->
         IF j \in from..(to - 1) THEN Digits(d[i])[j - from + 1]
         ELSE IF j = to THEN NulByte ELSE buf[j]]

\* The call of sprintf for byte i: its digits, and a null byte after them.
Printed(buf, d, i) ==
  LET from == 2 * (i - 1)
      to   == from + NumDigits(d[i])
  IN  [j \in 0..(BufLen - 1) |->
         IF j \in from..(to - 1) THEN Digits(d[i])[j - from + 1]
         ELSE IF j = to THEN NulByte ELSE buf[j]]

\* All calls, and fp_txt[2 * Width] = 0 after them.
Sprintfs(d) ==
  LET buf[i \in 0..Width] == IF i = 0 THEN Zeroed ELSE Printed(buf[i - 1], d, i)
  IN  [buf[Width] EXCEPT ![2 * Width] = NulByte]

\* The calls for d overlap, but leave the string Text(d) in the buffer, and none of
\* them writes beyond its end.
Prints(d) ==
  LET buf == Sprintfs(d)
  IN  /\ \A i \in 1..Width :
           /\ <<buf[2 * (i - 1)], buf[2 * i - 1]>> = Text(d)[i]
           /\ 2 * (i - 1) + NumDigits(d[i]) < BufLen
      /\ buf[2 * Width] = NulByte
=============================================================================
