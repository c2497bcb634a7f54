--------------------------- MODULE SessionHistory ---------------------------
(***************************************************************************)
(* What a session promises, whatever compacts, saves, rotates, fails and   *)
(* resumes it.  It is a history that only grows, message by message: all   *)
(* of it stays accounted for, by number; the last Recent messages stay in  *)
(* full; and a first compaction leaves a line for each of the others, but  *)
(* a further one drops lines.  The disk tells what the running program     *)
(* holds, or what it held before it compacted; only the message that is    *)
(* being written when the program stops may be there or not; and a program *)
(* that resumes has all that the disk tells.                               *)
(***************************************************************************)
EXTENDS Naturals

CONSTANT Recent    \* messages that every compaction keeps in full

VARIABLES
    running,    \* whether a program has the session
    held,       \* what its session tells: messages in all, with a line, in full
    stored      \* what the disk tells

vars == <<running, held, stored>>

Nothing == [all |-> 0, told |-> 0, whole |-> 0]
More(h) == [all |-> h.all + 1, told |-> h.told + 1, whole |-> h.whole + 1]

Init == running = TRUE /\ held = Nothing /\ stored = Nothing

Record ==
    /\ running
    /\ held' = More(held) /\ stored' = More(stored)
    /\ UNCHANGED running

Compact ==
    /\ running /\ held.whole > Recent
    /\ \E told \in Recent..held.whole :
          /\ held.whole = held.all => told = held.all
          /\ held' = [all |-> held.all, told |-> told, whole |-> Recent]
    /\ UNCHANGED <<running, stored>>

Save ==
    /\ running /\ stored.all = held.all
    /\ stored' = held
    /\ UNCHANGED <<running, held>>

Stop ==
    /\ running /\ running' = FALSE
    /\ held' = Nothing /\ stored' \in {stored, More(stored)}

Resume ==
    /\ ~running /\ running' = TRUE
    /\ held' = stored
    /\ UNCHANGED stored

Next == Record \/ Compact \/ Save \/ Stop \/ Resume

Spec == Init /\ [][Next]_vars
=============================================================================
