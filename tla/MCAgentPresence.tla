-------------------------- MODULE MCAgentPresence --------------------------
(***************************************************************************)
(* Small instances of AgentPresence: a member of a department with one     *)
(* node or two.                                                            *)
(***************************************************************************)
EXTENDS AgentPresence, TLC

CONSTANTS alice, d1

MCRole == [u \in Users |-> "member"]
MCDeptOf == [u \in Users |-> d1]
MCAgentUser == [a \in Agents |-> alice]
MCAgentDept == [a \in Agents |-> d1]
=============================================================================
