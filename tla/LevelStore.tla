----------------------------- MODULE LevelStore -----------------------------
(***************************************************************************)
(* What the data file promises to one invocation of otw at a time: a store *)
(* that keeps, for every level, its password and its two flags, and that   *)
(* each command changes in one indivisible step, in the entry of one level *)
(* (for -s not always the level the command names: see LookedUp).          *)
(***************************************************************************)
EXTENDS LevelRecords

VARIABLE store   \* store[l]: what is known of level l

Entry == [pass : Passwords \cup {Unknown}, saved : BOOLEAN, complete : BOOLEAN]

EmptyStore == [l \in Levels |-> [pass |-> Unknown, saved |-> FALSE, complete |-> FALSE]]

\* otw -c l
Complete(l) == store' = [store EXCEPT ![l].complete = TRUE]

\* otw -s p l
Remember(l, p) ==
  store' = [store EXCEPT ![l] = [pass |-> p, saved |-> TRUE, complete |-> @.complete]]

\* A login with a typed password raises the flag; the password kept is the one
\* that was there.
Raise(l) == ~store[l].saved /\ store' = [store EXCEPT ![l].saved = TRUE]

\* A login with a stored password that the server refuses.
Forget(l) ==
  /\ store[l].saved
  /\ store' = [store EXCEPT ![l] = [pass |-> Unknown, saved |-> FALSE, complete |-> @.complete]]

Init == store = EmptyStore

Next ==
  \E l \in Levels :
    \/ Complete(l)
    \/ \E p \in Passwords : Remember(l, p)
    \/ Raise(l)
    \/ Forget(l)

Spec == Init /\ [][Next]_store
=============================================================================
