----------------------------- MODULE MCPayout -----------------------------
(* Small instances of Payout for TLC. *)
EXTENDS Payout, TLC

CONSTANTS l1, p1, p2, p3, s1, s2

OneLoan == [p \in Payouts |-> l1]

Symmetry == Permutations(Payouts) \cup Permutations(Settlers)
===========================================================================
