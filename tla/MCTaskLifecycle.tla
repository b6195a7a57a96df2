-------------------------- MODULE MCTaskLifecycle --------------------------
(***************************************************************************)
(* Small instances of TaskLifecycle: a member, a department head and an    *)
(* administrator in two departments, and two agents run by two of them.    *)
(***************************************************************************)
EXTENDS TaskLifecycle, TLC

CONSTANTS alice, head, root, d1, d2, a1, a2

MCRole == [u \in Users |-> CASE u = alice -> "member" [] u = head -> "dept_head"
                               [] u = root -> "admin"]
MCDeptOf == [u \in Users |-> IF u = alice THEN d1 ELSE d2]
MCAgentUser == [a \in Agents |-> IF a = a1 THEN alice ELSE head]
MCAgentDept == [a \in Agents |-> IF a = a1 THEN d1 ELSE d2]
=============================================================================
