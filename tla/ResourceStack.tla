--------------------------- MODULE ResourceStack ----------------------------
(***************************************************************************)
(* What a connection promises about the things it acquires one after       *)
(* another (a library, a socket, a session, a channel): it takes a prefix  *)
(* of them in order, and once it begins to give them back it gives back    *)
(* all of them, last first, before it takes one again.  Only the end of    *)
(* the whole process takes several at once, before giving back has begun.  *)
(***************************************************************************)
EXTENDS Naturals

CONSTANT Depth     \* how many there are

VARIABLES held,    \* how many are held: the first so many
          closing  \* giving back has begun

vars == <<held, closing>>

Init == held = 0 /\ closing = FALSE

Acquire == /\ ~closing /\ held < Depth
           /\ held' = held + 1 /\ UNCHANGED closing

Close   == /\ ~closing /\ held > 0
           /\ closing' = TRUE /\ UNCHANGED held

\* The last one out opens the stack again.
Release == /\ closing
           /\ held' = held - 1
           /\ closing' = (held' > 0)

\* The process ends, and its kernel takes all of them.
Vanish  == /\ ~closing
           /\ held' = 0 /\ UNCHANGED closing

Next == Acquire \/ Close \/ Release \/ Vanish

Spec == Init /\ [][Next]_vars /\ WF_vars(Release)
=============================================================================
