----------------------------- MODULE MCDataFile -----------------------------
(***************************************************************************)
(* Instances of DataFile for TLC.  Two levels over three blocks: record 1  *)
(* straddles the boundary between the first two blocks, record 2 that of   *)
(* the last one, as drifter10 does in the 4096-byte blocks of the program. *)
(* Three levels over two blocks: record 1 lies in the first block, record  *)
(* 2 straddles their boundary, record 3 lies in the last one.              *)
(***************************************************************************)
EXTENDS DataFile, TLC

CONSTANTS p1, p2, secret

Cmd(o, l) == [op |-> o, name |-> l, pass |-> NoPass]
StoreCmd(l, p) == [op |-> "store", name |-> l, pass |-> p]

ShowCmd == Cmd("show", JunkName)

ThreeBlocksHead == 1 :> 1 @@ 2 :> 2
ThreeBlocksTail == 1 :> 2 @@ 2 :> 3
TwoBlocksHead == 1 :> 1 @@ 2 :> 1 @@ 3 :> 2
TwoBlocksTail == 1 :> 1 @@ 2 :> 2 @@ 3 :> 2

\* One process that saves, one that only looks.
OneWriter ==
  p1 :> {Cmd("complete", 1), StoreCmd(1, secret)} @@ p2 :> {ShowCmd}

\* Two processes that save.
TwoWriters == p1 :> {Cmd("complete", 1)} @@ p2 :> {StoreCmd(2, secret)}
=============================================================================
