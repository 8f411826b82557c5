----------------------------- MODULE PassBuffer -----------------------------
(***************************************************************************)
(* The bytes of one level's password: the field pass[MAX_PASS_WIDTH] of    *)
(* its record, what otw -s and a login with libssh2 write to it, and what  *)
(* is sent to the server out of it.  Invocations follow one another; that  *)
(* the records survive from one to the next is the subject of DataFile.    *)
(*                                                                         *)
(* Strings are sequences of characters.  A buffer holds a string up to its *)
(* first null byte; store_pass copies a password into the field without    *)
(* its null byte, so what lay there before may follow it.                  *)
(***************************************************************************)
EXTENDS Naturals, Sequences

CONSTANTS
  Width,    \* MAX_PASS_WIDTH
  Chars,    \* the characters of a password
  Query,    \* the character "?"
  NUL,      \* the null byte
  MaxLen,   \* bound: the longest string given on a command line or typed
  None      \* no string

ASSUME WidthAssumption == Width \in Nat /\ Width >= 2 /\ MaxLen \in Nat

ASSUME CharsAssumption == Query \in Chars /\ NUL \notin Chars

Strings == UNION {[1..n -> Chars] : n \in 0..MaxLen}

ASSUME NoneAssumption == None \notin Strings

VARIABLES
  pass,     \* the field pass of the record
  saved,    \* its field is_pass_saved
  lpass,    \* level->pass: the copy of the field a login works on
  phase,    \* "idle", "ask" (the user is to type), "auth" (the server is to answer)
  typed,    \* history: the string typed in this login, or None
  given,    \* history: the argument of the otw -s whose password is stored, or None
  longest   \* history: the length of the longest string pass ever held

vars == <<pass, saved, lpass, phase, typed, given, longest>>

Index  == 0..(Width - 1)
Buffer == [Index -> Chars \cup {NUL}]

\* The buffer begins with s; what a strlen or strncmp finds in it is s.
Begins(buf, s) == \A i \in 1..Len(s) : buf[i - 1] = s[i]
Holds(buf, s)  == Begins(buf, s) /\ buf[Len(s)] = NUL

\* Mutant of Cut: no room is left for the null byte.
CutLong(s) == IF Len(s) <= Width THEN s ELSE SubSeq(s, 1, Width)

\* As much of s as the field can hold.
Cut(s) == IF Len(s) < Width THEN s ELSE SubSeq(s, 1, Width - 1)

Larger(m, n) == IF m < n THEN n ELSE m

\* create_new_datafile: strncpy("?") into a zeroed record.
Fresh == [i \in Index |-> IF i = 0 THEN Query ELSE NUL]

\* Mutants of Overlay: no terminator; the copy stops one byte early.
OverlayUnterminated(buf, s) ==
  [i \in Index |-> IF i < Len(s) THEN s[i + 1] ELSE buf[i]]
OverlayShort(buf, s) ==
  [i \in Index |-> IF i = Width - 1 THEN NUL
                   ELSE IF i + 1 < Len(s) THEN s[i + 1] ELSE buf[i]]

\* store_pass with a password: memcpy of strnlen bytes, then a null in the last.
Overlay(buf, s) ==
  [i \in Index |-> IF i = Width - 1 THEN NUL
                   ELSE IF i < Len(s) THEN s[i + 1] ELSE buf[i]]

\* store_pass without one: memcpy(pass, "?", 2).
Cleared(buf) ==
  [i \in Index |-> IF i = 0 THEN Query ELSE IF i = 1 THEN NUL ELSE buf[i]]

\* get_level_pass: fgets takes Width - 1 characters, strncpy pads with nulls.
Padded(s) == [i \in Index |-> IF i < Len(Cut(s)) THEN s[i + 1] ELSE NUL]

Init ==
  /\ pass = Fresh
  /\ saved = FALSE
  /\ lpass = Fresh
  /\ phase = "idle"
  /\ typed = None
  /\ given = None
  /\ longest = 1

\* otw -s s LEVEL
StorePass(s) ==
  /\ phase = "idle"
  /\ pass' = Overlay(pass, s)
  /\ saved' = TRUE
  /\ given' = s
  /\ longest' = Larger(longest, Len(Cut(s)))
  /\ UNCHANGED <<lpass, phase, typed>>

\* otw LEVEL: is_valid_level copies the record; get_level_pass returns at once
\* when the level's password is saved, and prompts otherwise.
Connect ==
  /\ phase = "idle"
  /\ lpass' = pass
  /\ phase' = IF saved THEN "auth" ELSE "ask"
  /\ typed' = None
  /\ UNCHANGED <<pass, saved, given, longest>>

TypePassword(s) ==
  /\ phase = "ask"
  /\ lpass' = Padded(s)
  /\ typed' = s
  /\ phase' = "auth"
  /\ UNCHANGED <<pass, saved, given, longest>>

\* The server takes a saved password: nothing is stored.
SavedAccepted ==
  /\ phase = "auth" /\ saved
  /\ phase' = "idle"
  /\ UNCHANGED <<pass, saved, lpass, typed, given, longest>>

\* The server takes a typed one: store_pass(level->pass, .., level, ..).  Its
\* is_valid_level copies the record over *level, and so over the typed string its
\* first argument points to; what it then copies into the field is the string
\* that is already there.
TypedAccepted ==
  /\ phase = "auth" /\ ~saved
  /\ lpass' = pass
  /\ pass' = [pass EXCEPT ![Width - 1] = NUL]
  /\ saved' = TRUE
  /\ phase' = "idle"
  /\ UNCHANGED <<typed, given, longest>>

\* The server refuses: a saved password is cleared.
Refused ==
  /\ phase = "auth"
  /\ IF saved
       THEN /\ pass' = Cleared(pass) /\ saved' = FALSE /\ given' = None
            /\ lpass' = pass
       ELSE UNCHANGED <<pass, saved, lpass, given>>
  /\ phase' = "idle"
  /\ UNCHANGED <<typed, longest>>

Next ==
  \/ \E s \in Strings : StorePass(s) \/ TypePassword(s)
  \/ Connect \/ SavedAccepted \/ TypedAccepted \/ Refused

Spec == Init /\ [][Next]_vars
-----------------------------------------------------------------------------
(* Properties *)

TypeOK ==
  /\ pass \in Buffer /\ lpass \in Buffer
  /\ saved \in BOOLEAN
  /\ phase \in {"idle", "ask", "auth"}
  /\ typed \in Strings \cup {None} /\ given \in Strings \cup {None}
  /\ longest \in 1..(Width - 1)

(***************************************************************************)
(* The field and the copy a login sends are strings whatever was stored,   *)
(* typed and cleared before: their last byte is null, so that no strlen    *)
(* runs past them.  (store_pass, get_level_pass, and the strlen in         *)
(* libssh2_userauth_password)                                              *)
(***************************************************************************)
Terminated == pass[Width - 1] = NUL /\ lpass[Width - 1] = NUL

(***************************************************************************)
(* The password of the last otw -s is what the field begins with, as far   *)
(* as it fits, until the server refuses it; and it is all the field holds  *)
(* when the field never held a longer one.  (store_pass copies without the *)
(* null byte: the rest of a longer string stays behind it)                 *)
(***************************************************************************)
GivenKept ==
  given # None =>
    /\ saved
    /\ Begins(pass, Cut(given))
    /\ Len(Cut(given)) >= longest => Holds(pass, Cut(given))

(***************************************************************************)
(* "Stores the password ("deadbeef") for the OTW bandit 21 level ... from  *)
(* now on this will connect automatically" (README.md:61-67): while the    *)
(* password of an otw -s is stored, and fits, it is the string the field   *)
(* holds.                                                                  *)
(***************************************************************************)
GivenReadsBack ==
  given # None /\ given # <<>> /\ Len(given) < Width => Holds(pass, given)

(***************************************************************************)
(* "Store correct password if it's not already stored"                     *)
(* (libssh2_client.c:136): a login with a typed password that the server   *)
(* accepts leaves that password in the field.                              *)
(***************************************************************************)
AcceptedIsStored ==
  phase = "idle" /\ saved /\ given = None /\ typed # None => Holds(pass, Cut(typed))
=============================================================================
