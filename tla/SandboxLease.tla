---------------------------- MODULE SandboxLease ----------------------------
(***************************************************************************)
(* What a SandboxPool promises, without its threads, queue and events: a   *)
(* sandbox id is the pool's, or leased to one caller, or neither.  It goes *)
(* from hand to hand only as stated here, and while the pool is open a     *)
(* sandbox that somebody has is not deleted.                               *)
(*                                                                         *)
(* SandboxPool implements this (ImplementsLease there).                    *)
(***************************************************************************)
CONSTANTS Callers, Sandboxes

VARIABLES
    open,    \* the pool is open and is not being closed
    exists,  \* the sandboxes that exist
    idle,    \* those the pool keeps for a later acquire
    leased   \* leased[c]: those acquire() gave caller c, until it releases them

vars == <<open, exists, idle, leased>>

Init ==
    /\ open = FALSE
    /\ exists = {} /\ idle = {}
    /\ leased = [c \in Callers |-> {}]

Kept == idle \cup UNION {leased[c] : c \in Callers}

\* open() and close() begin or end.
Switch == open' \in BOOLEAN /\ UNCHANGED <<exists, idle, leased>>

\* A new sandbox comes to be, and nobody knows of it (the answer was lost)...
Appear(s) ==
    /\ s \notin exists \cup Kept
    /\ exists' = exists \cup {s}
    /\ UNCHANGED open

Lose(s) == Appear(s) /\ UNCHANGED <<idle, leased>>

\* ...or the pool keeps it, or it is leased to the caller it was made for.
Stock(s) == Appear(s) /\ idle' = idle \cup {s} /\ UNCHANGED leased

Make(c, s) ==
    /\ Appear(s)
    /\ leased' = [leased EXCEPT ![c] = @ \cup {s}]
    /\ UNCHANGED idle

\* One of the idle sandboxes is leased, and is idle no more.
Lend(c, s) ==
    /\ s \in idle
    /\ idle' = idle \ {s}
    /\ leased' = [leased EXCEPT ![c] = @ \cup {s}]
    /\ UNCHANGED <<open, exists>>

\* A caller gives one back for good.
Return(c, s) ==
    /\ s \in leased[c]
    /\ leased' = [leased EXCEPT ![c] = @ \ {s}]
    /\ UNCHANGED <<open, exists, idle>>

\* close() takes one out of the queue.
Withdraw(s) ==
    /\ ~open /\ s \in idle
    /\ idle' = idle \ {s}
    /\ UNCHANGED <<open, exists, leased>>

\* A sandbox is deleted: one that was returned or lost, or any by close().
Destroy(s) ==
    /\ s \in exists
    /\ open => s \notin Kept
    /\ exists' = exists \ {s}
    /\ UNCHANGED <<open, idle, leased>>

Next ==
    \/ Switch
    \/ \E s \in Sandboxes : Lose(s) \/ Stock(s) \/ Withdraw(s) \/ Destroy(s)
    \/ \E c \in Callers, s \in Sandboxes : Make(c, s) \/ Lend(c, s) \/ Return(c, s)

Spec == Init /\ [][Next]_vars
=============================================================================
