------------------------------ MODULE MCLending ------------------------------
(* Small instances of Lending for TLC. *)
EXTENDS Lending, TLC

CONSTANTS l1, l2, u1, u2, o1, o2, s1, s2

(* Threads of a kind are alike. *)
Symmetry == Permutations(Officers) \cup Permutations(Staff)

(* The first loan is above the limit of the branch manager u1. *)
MCPrincipal == [l \in Loans |-> IF l = l1 THEN 2 ELSE 1]
MCRoleOf == [u \in Users |-> IF u = u1 THEN "branch_manager" ELSE "hq_credit_committee"]
MCEnabled == {"branch_manager", "hq_credit_committee"}
MCLimit == [branch_manager |-> 1]
=============================================================================
