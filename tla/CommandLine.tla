---------------------------- MODULE CommandLine ----------------------------
(***************************************************************************)
(* How main and parse_opts turn a command line into a command.  Each       *)
(* option ends the program, so only the first one getopt_long decodes      *)
(* counts; it is found behind any number of other words (GNU permutation), *)
(* but not behind "--".                                                    *)
(*                                                                         *)
(* A word is what getopt_long makes of it, if it comes upon it: the first  *)
(* option in it, what follows that in the same word ("-sPASS" or           *)
(* "--store=PASS"), and the whole word as a text.                          *)
(***************************************************************************)
EXTENDS LevelRecords, Sequences

CONSTANTS
  Natas,   \* the levels of natas
  NoText   \* an option with nothing attached

Texts == Levels \cup {JunkName} \cup Passwords

\* "none" is a word that is no option, "?" an unknown option.
Flags == {"none", "--", "?", "a", "c", "h", "l", "p", "s"}

Word == [flag : Flags, rest : Texts \cup {NoText}, text : Texts]

\* Any text is a password, but for what is said elsewhere of its length.
ASSUME CommandLineAssumption ==
  /\ Natas \subseteq Levels
  /\ NoText \notin Texts
  /\ Texts \subseteq Passwords

\* The longest name of a level has 12 characters: a text that was cut to the 15
\* characters of levelname is the name of none.
NameOf(t) == IF t \in Levels THEN t ELSE JunkName

\* What neither changes nor connects to a level: the usage message, an error and
\* -h, -p, -a and -l.
Nothing == [op |-> "show", name |-> JunkName, pass |-> NoPass]

\* The first word that is an option, or "--".
Stops(line, i) ==
  /\ line[i].flag # "none"
  /\ \A j \in 1..(i - 1) : line[j].flag = "none"

Attached(w) == w.rest # NoText

\* The argument of option i, and optind behind it.
OptArg(line, i) == IF Attached(line[i]) THEN line[i].rest ELSE line[i + 1].text
OptInd(line, i) == IF Attached(line[i]) THEN i + 1 ELSE i + 2

\* There is one: getopt_long does not return ':'.
HasArg(line, i) == OptInd(line, i) <= Len(line) + 1

\* Mutant of HasLevel: optind is not compared with argc.
HasArgOnly(line, i) == HasArg(line, i)

\* -s takes its level from the last word, if any is behind the password.
HasLevel(line, i) == OptInd(line, i) <= Len(line)

ByOption(line, i) ==
  CASE line[i].flag = "c" /\ HasArg(line, i) ->
         [op |-> "complete", name |-> NameOf(OptArg(line, i)), pass |-> NoPass]
    [] line[i].flag = "s" /\ HasArg(line, i) /\ HasLevel(line, i) ->
         [op |-> "store", name |-> NameOf(line[Len(line)].text), pass |-> OptArg(line, i)]
    [] OTHER -> Nothing

\* The one argument that remains is the level; natas is not connected to.
ByLevel(rest) ==
  IF Len(rest) = 1 /\ NameOf(rest[1].text) \notin Natas
    THEN [op |-> "connect", name |-> NameOf(rest[1].text), pass |-> NoPass]
    ELSE Nothing

Parsed(line) ==
  IF \E i \in 1..Len(line) : Stops(line, i)
    THEN LET i == CHOOSE i \in 1..Len(line) : Stops(line, i)
         IN  IF line[i].flag = "--"
               THEN ByLevel(SubSeq(line, 1, i - 1) \o SubSeq(line, i + 1, Len(line)))
               ELSE ByOption(line, i)
    ELSE ByLevel(line)
=============================================================================
