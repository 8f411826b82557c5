------------------------------ MODULE Progress ------------------------------
(***************************************************************************)
(* What show_progress makes of the array: it walks through it game by      *)
(* game, by a table of its own, and goes by the place of a record only.    *)
(* create_new_datafile gave out the names and games by another table, in   *)
(* two nested loops.  Nothing in the code keeps the two tables alike.      *)
(***************************************************************************)
EXTENDS LevelRecords, FiniteSets, Sequences

CONSTANTS
  InitMaxlevel,   \* the table of create_new_datafile: the last level of game i,
                  \* the first being 0
  Maxlevel        \* the table of show_progress

Games == DOMAIN Maxlevel

\* levels_index before the walk through game i.
LevelsIndex[i \in Games] ==
  IF i = 1 THEN 1 ELSE LevelsIndex[i - 1] + Maxlevel[i - 1] + 1

\* The two tables say the same; TOTAL_GAMES and TOTAL_LEVELS are theirs.
ASSUME MaxlevelAssumption ==
  /\ Maxlevel \in Seq(Nat) /\ Maxlevel # <<>>
  /\ InitMaxlevel = Maxlevel
  /\ NumLevels = LevelsIndex[Len(Maxlevel)] + Maxlevel[Len(Maxlevel)]

\* So they do in the program, which has 12 games and 183 levels.
InitTable     == <<34, 34, 7, 7, 9, 8, 8, 9, 27, 7, 15, 6>>
ProgressTable == <<34, 34, 7, 7, 9, 8, 8, 9, 27, 7, 15, 6>>

ASSUME TablesAssumption ==
  /\ InitTable = ProgressTable
  /\ Len(InitTable) = 12
  /\ Cardinality({s \in (1..12) \X (0..34) : s[2] <= InitTable[s[1]]}) = 183

\* The counters i and j of the two loops when level l is named.
Slot[l \in Levels] ==
  IF l = 1 THEN <<1, 0>>
  ELSE LET i == Slot[l - 1][1]
           j == Slot[l - 1][2]
       IN  IF j < InitMaxlevel[i] THEN <<i, j + 1>> ELSE <<i + 1, 0>>

\* The gamename of level l.
GameOf == [l \in Levels |-> Slot[l][1]]

\* How many levels game i has, and which they are.
TotalLevels(i) == Maxlevel[i] + 1

\* Mutant of Walked: the last level of a game is not looked at.
WalkedShort(i) == LevelsIndex[i] .. (LevelsIndex[i] + Maxlevel[i] - 1)

Walked(i) == LevelsIndex[i] .. (LevelsIndex[i] + Maxlevel[i])

NumComplete(img, i) == Cardinality({l \in Walked(i) : img[l].tail.complete})

\* "COMPLETE" for a game, and "FINISHED" for them all.
IsComplete(img, i) == NumComplete(img, i) = TotalLevels(i)

Finished(img) ==
  Cardinality({l \in UNION {Walked(i) : i \in Games} : img[l].tail.complete}) = NumLevels
=============================================================================
