----------------------------- MODULE MCRunOnce -----------------------------
(***************************************************************************)
(* Small instances of RunOnce: two processes in one container and a third  *)
(* in another.                                                             *)
(***************************************************************************)
EXTENDS RunOnce

CONSTANTS h1, h2, p3

MCWorkers == [p \in Processes |-> IF p = p3 THEN h2 ELSE h1]
=============================================================================
