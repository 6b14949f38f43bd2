-------------------------- MODULE DurableSession --------------------------
(***************************************************************************)
(* What a SessionManager promises, without sandboxes, snapshots or files:  *)
(* a session runs from what it last committed, a commit replaces that as a *)
(* whole, and a crash loses nothing but what runs.  Only a discard takes   *)
(* away what was committed.                                                *)
(*                                                                         *)
(* SessionManager implements this (ImplementsDurable there).               *)
(***************************************************************************)
EXTENDS Naturals

CONSTANTS Ids, NoImage

VARIABLES
    running,    \* what is on the disk of each session's sandbox, if it has one
    committed,  \* what the next sandbox of each session starts from
    ending      \* the sessions being discarded

vars == <<running, committed, ending>>

\* The image of a session that has no work yet.
Fresh(i) == [of |-> i, work |-> 0]

Init ==
    /\ running = [i \in Ids |-> NoImage]
    /\ committed = [i \in Ids |-> Fresh(i)]
    /\ ending = {}

Open(i) ==
    /\ running[i] = NoImage
    /\ running' = [running EXCEPT ![i] = committed[i]]
    /\ UNCHANGED <<committed, ending>>

Work(i) ==
    /\ running[i] # NoImage
    /\ running' = [running EXCEPT ![i].work = @ + 1]
    /\ UNCHANGED <<committed, ending>>

Commit(i) ==
    /\ running[i] # NoImage
    /\ committed' = [committed EXCEPT ![i] = running[i]]
    /\ UNCHANGED <<running, ending>>

\* The sandbox of session i goes away, with what was not committed.
Stop(i) ==
    /\ running' = [running EXCEPT ![i] = NoImage]
    /\ UNCHANGED <<committed, ending>>

\* A discard of session i begins; what was committed may go from now on, until
\* the discard ends.
Discard(i) == ending' = ending \cup {i} /\ UNCHANGED <<running, committed>>

Forget(i) ==
    /\ i \in ending
    /\ \/ committed' = [committed EXCEPT ![i] = Fresh(i)]
       \/ UNCHANGED committed
    /\ ending' \in {ending, ending \ {i}}
    /\ UNCHANGED running

Crash ==
    /\ running' = [i \in Ids |-> NoImage] /\ ending' = {}
    /\ UNCHANGED committed

Next ==
    \/ Crash
    \/ \E i \in Ids : \/ Open(i) \/ Work(i) \/ Commit(i) \/ Stop(i)
                      \/ Discard(i) \/ Forget(i)

Spec == Init /\ [][Next]_vars
=============================================================================
