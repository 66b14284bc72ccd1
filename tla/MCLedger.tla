------------------------------ MODULE MCLedger ------------------------------
(* Small instances of Ledger for TLC. *)
EXTENDS Ledger, TLC

CONSTANTS l1, l2, r1, r2, r3, t1, t2

Symmetry == Permutations(Threads)

(* Two parts of what a loan owes, and one receipt that is more than all of it. *)
MCAmount == [r \in Receipts |-> IF r = r1 THEN 1 ELSE IF r = r2 THEN 4 ELSE 2]

(* The payer of r3 typed no loan's account number. *)
MCTarget == [r \in Receipts |-> IF r = r3 THEN NoLoan ELSE l1]

(* The payer of r3 typed a customer number: there are two loans to choose   *)
(* from until one of them is paid.                                          *)
MCNamed == [r \in Receipts |-> IF r = r3 THEN Loans ELSE {}]
NoNames == [r \in Receipts |-> {}]

OneTarget == [r \in Receipts |-> l1]
=============================================================================
