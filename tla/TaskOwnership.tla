--------------------------- MODULE TaskOwnership ---------------------------
(***************************************************************************)
(* What the claim, assign, release and submit operations promise, with all *)
(* columns, roles and deadlines left out: a task is free, in the hands of  *)
(* one user, or done.  A task changes hands only through the free pool,    *)
(* and what is done stays done.                                            *)
(***************************************************************************)
CONSTANTS Tasks, Users, Free, Done

VARIABLE owner

Init == owner = [t \in Tasks |-> Free]

\* one claim, or one batch of automatic assignments
Take(S, to) ==
    /\ \A t \in S : owner[t] = Free
    /\ owner' = [t \in Tasks |-> IF t \in S THEN to[t] ELSE owner[t]]

\* a voluntary release, or one batch of recalls
GiveBack(S) ==
    /\ \A t \in S : owner[t] \in Users
    /\ owner' = [t \in Tasks |-> IF t \in S THEN Free ELSE owner[t]]

\* by the owner, or by an administrator for anyone
Finish(t) ==
    /\ owner[t] # Done
    /\ owner' = [owner EXCEPT ![t] = Done]

Next ==
    \/ \E S \in SUBSET Tasks : \E to \in [S -> Users] : Take(S, to)
    \/ \E S \in SUBSET Tasks : GiveBack(S)
    \/ \E t \in Tasks : Finish(t)

Spec == Init /\ [][Next]_owner
=============================================================================
