----------------------------- MODULE MCProgram -----------------------------
(***************************************************************************)
(* One user, who gives every line of up to three of these words: a level,  *)
(* -c, -s, "--" and a -s with its password attached, of up to two also a   *)
(* level of natas; and some lines with -p, of no word and of four.  The    *)
(* levels lie over two blocks as in MCDataFile.                            *)
(***************************************************************************)
EXTENDS Program, TLC

CONSTANT p1

TwoBlocksHead == 1 :> 1 @@ 2 :> 1 @@ 3 :> 2
TwoBlocksTail == 1 :> 1 @@ 2 :> 2 @@ 3 :> 2

TwoGames == <<1, 0>>

Plain(l) == [flag |-> "none", rest |-> NoText, text |-> l]
Option(f, t) == [flag |-> f, rest |-> t, text |-> JunkName]

Words == {Plain(1), Option("s", 1)} \cup {Option(f, NoText) : f \in {"c", "s", "--"}}

TheLines ==
  UNION {[1..n -> Words \cup {Plain(2)}] : n \in 1..2} \cup [1..3 -> Words]
    \cup {<<>>, <<Option("p", NoText)>>, <<Plain(1), Option("p", NoText)>>,
          <<Option("c", NoText), Plain(1), Plain(1), Plain(1)>>}

TheCommands == p1 :> {Parsed(line) : line \in TheLines}
ThePasswords == {1, 2, 3, 4}
TheNatas == {2}
=============================================================================
