------------------------ MODULE MCTaskTransactions ------------------------
(***************************************************************************)
(* Small instances of TaskTransactions.  The users are two members and an  *)
(* administrator of one department; the agents belong to the members.      *)
(***************************************************************************)
EXTENDS TaskTransactions, TLC

CONSTANTS alice, bob, root, d1, a1

MCRole == [u \in Users |-> IF u = root THEN "admin" ELSE "member"]
MCDeptOf == [u \in Users |-> d1]
MCAgentUser == (a1 :> alice)
MCAgentDept == (a1 :> d1)

\* every guard treats auto and hybrid tasks alike: one of them is enough
MCInit == Init /\ \A t \in Tasks : task[t].strategy # "auto"
MCSpec == MCInit /\ [][Next]_vars
MCFairSpec == MCSpec /\ Fairness

\* sessions are interchangeable
SessionSymmetry == Permutations(Sessions)
=============================================================================
