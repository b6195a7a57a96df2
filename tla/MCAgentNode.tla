---------------------------- MODULE MCAgentNode ----------------------------
(***************************************************************************)
(* A small instance of AgentNode: the node of alice, a second node of her  *)
(* department run by bob, and tasks alice created.                         *)
(***************************************************************************)
EXTENDS AgentNode, TLC

CONSTANTS alice, d1, a1, t1, t2, h1

MCRole == [u \in Users |-> "member"]
MCDeptOf == [u \in Users |-> d1]
MCAgentUser == [a \in Agents |-> IF a = a1 THEN alice ELSE CHOOSE u \in Users : u # alice]
MCAgentDept == [a \in Agents |-> d1]
MCCreatedBy == [t \in Tasks |-> alice]
MCCreatedAt == [t \in Tasks |-> IF t = t1 THEN 1 ELSE IF t = t2 THEN 2 ELSE 3]
MCPercent == [n \in 1..MaxSeq |-> 50]
MCResultHash == [t \in Tasks |-> h1]
=============================================================================
