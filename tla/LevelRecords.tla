---------------------------- MODULE LevelRecords ----------------------------
(***************************************************************************)
(* The level_t records of the program and the array all_levels that holds  *)
(* one record per OverTheWire level, as the constant-level vocabulary the  *)
(* data file modules share.                                                *)
(*                                                                         *)
(* The array is saved as 183 consecutive 96-byte records, and stdio hands  *)
(* them to the kernel in blocks.  A record that straddles a block boundary *)
(* is therefore written, read and lost in two pieces, so a record is       *)
(* modelled as two halves: the head holds the level's name and password,   *)
(* the tail its port and its two flags.  A level is named by its index, so *)
(* that a record found at index l is in its place when its name is l.      *)
(*                                                                         *)
(* The halves meet behind the password.  The boundaries of the program lie *)
(* in front of the password field in record 85, and 32 bytes into it in    *)
(* the records 42 and 170, behind any password of up to 32 characters.     *)
(***************************************************************************)
EXTENDS Naturals

CONSTANTS
  NumLevels,   \* TOTAL_LEVELS, 183 in the program
  NumBlocks,   \* stdio blocks in a saved file: 5 of 4096 bytes in the program
  HeadBlock,   \* HeadBlock[l]: the block that holds the head of record l
  TailBlock,   \* TailBlock[l]: the block that holds the tail of record l
  Passwords,   \* passwords a user may type: strings of one common length
  Unknown,     \* the password "?" of a level whose password is not stored
  NoPass       \* the empty string of a zeroed record

Levels == 1..NumLevels
Blocks == 1..NumBlocks

(***************************************************************************)
(* The layout of the file.  There are at least two blocks; a record's head *)
(* comes before its tail; the file starts with a record and ends with one. *)
(***************************************************************************)
ASSUME LayoutAssumption ==
  /\ NumLevels \in Nat \ {0}
  /\ NumBlocks \in Nat /\ NumBlocks >= 2
  /\ HeadBlock \in [Levels -> Blocks]
  /\ TailBlock \in [Levels -> Blocks]
  /\ \A l \in Levels : HeadBlock[l] <= TailBlock[l]

ASSUME PasswordsAssumption ==
  Unknown \notin Passwords /\ NoPass \notin Passwords /\ NoPass # Unknown

NoName   == 0               \* the empty level name of a zeroed record
JunkName == NumLevels + 1   \* any name that no level has
Names    == Levels \cup {NoName}

HeadHalf == [name : Names, pass : Passwords \cup {Unknown, NoPass}]
TailHalf == [port : BOOLEAN, saved : BOOLEAN, complete : BOOLEAN]
Record   == [head : HeadHalf, tail : TailHalf]
Image    == [Levels -> Record]

ZeroHead == [name |-> NoName, pass |-> NoPass]
ZeroTail == [port |-> FALSE, saved |-> FALSE, complete |-> FALSE]

\* init_data_structs: every record is calloc'ed.
ZeroImage == [l \in Levels |-> [head |-> ZeroHead, tail |-> ZeroTail]]

\* The defaults create_new_datafile assigns to each level.
DefaultImage ==
  [l \in Levels |->
     [head |-> [name |-> l, pass |-> Unknown],
      tail |-> [port |-> TRUE, saved |-> FALSE, complete |-> FALSE]]]

\* Mutant of Splice: fwrite and fread take record i + 1 for record i.
SpliceShifted(dst, src, b) ==
  [l \in Levels |->
     LET n == IF l = NumLevels THEN l ELSE l + 1 IN
     [head |-> IF HeadBlock[l] = b THEN src[n].head ELSE dst[l].head,
      tail |-> IF TailBlock[l] = b THEN src[n].tail ELSE dst[l].tail]]

\* The image that has block b of src and every other block of dst.
Splice(dst, src, b) ==
  [l \in Levels |->
     [head |-> IF HeadBlock[l] = b THEN src[l].head ELSE dst[l].head,
      tail |-> IF TailBlock[l] = b THEN src[l].tail ELSE dst[l].tail]]

\* is_valid_level: the first record whose name is n, if there is one.
IsFirstMatch(img, n, i) ==
  /\ img[i].head.name = n
  /\ \A j \in 1..(i-1) : img[j].head.name # n

HasMatch(img, n) == \E i \in Levels : img[i].head.name = n

\* A level none of whose bytes lie in the last block of the file.
Early(l) == TailBlock[l] < NumBlocks
=============================================================================
