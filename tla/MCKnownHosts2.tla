--------------------------- MODULE MCKnownHosts2 ---------------------------
(***************************************************************************)
(* Two games, one of whose names is longer by two pieces than the other's. *)
(* The two digests of maze differ in a byte above 0x7f only, the two of    *)
(* formulaone in both bytes.                                               *)
(***************************************************************************)
EXTENDS KnownHosts2, TLC

CONSTANTS maze, formulaone, p1, p2

Names1and3 == maze :> 1 @@ formulaone :> 3

FirstKey   == <<<<1, 2>>, <<9, 0>>>>
AlikeKey   == <<<<1, 2>>, <<15, 1>>>>
AnotherKey == <<<<8, 0>>, <<7, 15>>>>

ThreeDigests == {FirstKey, AlikeKey, AnotherKey}

FourLogins == ({maze} \X {FirstKey, AlikeKey}) \cup ({formulaone} \X {FirstKey, AnotherKey})

Symmetric == Permutations(Procs)
=============================================================================
