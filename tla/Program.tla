------------------------------ MODULE Program ------------------------------
(***************************************************************************)
(* Whole invocations of otw: a command line, what parse_opts makes of it,  *)
(* and what that does to the data file of DataFile.                        *)
(***************************************************************************)
EXTENDS DataFile, CommandLine, Progress

CONSTANT Lines   \* the command lines a user may give, as sequences of words

ASSUME LinesAssumption ==
  \A line \in Lines : line \in Seq(Word)

\* main starts to work when there are two to four words with its name.
Main(p, line) ==
  /\ Len(line) \in 1..3
  /\ Start(p, Parsed(line))

ProgramNext ==
  \E p \in Procs :
    \/ \E line \in Lines : Main(p, line)
    \/ Load(p) \/ Apply(p) \/ SaveData(p)

ProgramSpec == Init /\ [][ProgramNext]_vars
-----------------------------------------------------------------------------
(* Properties *)

\* The lines process p may have been given.
GivenLines(p) == {line \in Lines : Len(line) \in 1..3 /\ Parsed(line) = cmd[p]}

\* The forms of the usage message, as relations of a line and what it asks for.
AsksToComplete(line, l) ==
  \E i \in 1..Len(line) :
    /\ line[i].flag = "c"
    /\ \/ line[i].rest = l
       \/ i < Len(line) /\ line[i].rest = NoText /\ line[i + 1].text = l

\* There is a word for the level behind the password; which level that word
\* names does not matter, for store_pass may look up another.
AsksToStore(line, pass) ==
  \E i \in 1..(Len(line) - 1) :
    /\ line[i].flag = "s"
    /\ \/ line[i].rest = pass
       \/ i + 1 < Len(line) /\ line[i].rest = NoText /\ line[i + 1].text = pass

AsksToConnect(line, l) ==
  /\ l \notin Natas
  /\ \E i \in 1..Len(line) :
       /\ line[i].text = l
       /\ \A j \in 1..Len(line) : j # i => line[j].flag = "--"

(***************************************************************************)
(* Whatever words otw is given, a step changes at most one record of the   *)
(* store, and only as the line asks in a form of the usage message: -c     *)
(* makes the level it names complete, a login raises the flag of the level *)
(* it names or clears it with the password, and -s with a password and a   *)
(* word behind it stores that very password, for one level (of which see   *)
(* LookedUp).  (getopt_long's rest of the line, parse_opts, store_pass,    *)
(* mark_level_complete and save_data)                                      *)
(***************************************************************************)
OnlyWhatWasAsked ==
  [][StoredImage' # StoredImage =>
       \E p \in Procs, l \in Levels :
         LET old == StoredImage[l]
             new == StoredImage'[l]
         IN  /\ StoredImage' = [StoredImage EXCEPT ![l] = new]
             /\ GivenLines(p) # {}
             /\ \A line \in GivenLines(p) :
                  \/ /\ AsksToComplete(line, l)
                     /\ new = Completed(old)
                  \/ \E pass \in Passwords :
                       /\ AsksToStore(line, pass)
                       /\ new = WithFlag(WithPass(old, pass), TRUE)
                  \/ /\ AsksToConnect(line, l)
                     /\ new \in {WithFlag(old, TRUE), WithFlag(WithPass(old, Unknown), FALSE)}
    ]_vars

(***************************************************************************)
(* "storing a password for a level automatically marks the level before it *)
(* complete" (src/libssh2/src/misc.c:32-33).  Only -s puts a password      *)
(* other than "?" into a record, so where one is stored the level before   *)
(* it, in the same game, is complete.                                      *)
(***************************************************************************)
StoringMarksPrevious ==
  \A l \in Levels :
    StoredImage[l].head.pass \in Passwords =>
      \A k \in Levels :
        k + 1 = l /\ GameOf[k] = GameOf[l] => StoredImage[k].tail.complete

(***************************************************************************)
(* What otw -p prints is what the store has, by the names of its records:  *)
(* each game's count is that of the complete levels of that game, and      *)
(* every game is COMPLETE just when all is FINISHED.  (show_progress goes  *)
(* by the place of a record and by a table of its own)                     *)
(***************************************************************************)
ReportIsTrue ==
  \A p \in Procs :
    pc[p] = "loaded" =>
      /\ \A i \in Games :
           NumComplete(mem[p], i) =
             Cardinality({l \in Levels : /\ GameOf[StoredImage[l].head.name] = i
                                         /\ StoredImage[l].tail.complete})
      /\ Finished(mem[p]) <=> \A i \in Games : IsComplete(mem[p], i)
=============================================================================
