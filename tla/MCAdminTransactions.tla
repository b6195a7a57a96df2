------------------------ MODULE MCAdminTransactions ------------------------
(***************************************************************************)
(* Small instances of AdminTransactions: an administrator, the heads of    *)
(* two departments and a member of the first.                              *)
(***************************************************************************)
EXTENDS AdminTransactions, TLC

CONSTANTS alice, head1, head2, root, d1, d2

MCRole == [u \in Users |-> CASE u = root -> "admin" [] u = alice -> "member"
                               [] OTHER -> "dept_head"]
MCDeptOf == [u \in Users |-> IF u = head2 THEN d2 ELSE d1]
Symmetry == Permutations(Sessions) \cup Permutations(NewIds)
=============================================================================
