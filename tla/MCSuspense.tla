----------------------------- MODULE MCSuspense -----------------------------
(* Small instances of Suspense for TLC. *)
EXTENDS Suspense, TLC

CONSTANTS e1, q1, q2, q3, t1, t2, t3, t4

(* Two requests about the entry, one about the loan. *)
MCEntryOf == [q \in Requests |-> IF q = q3 THEN NoEntry ELSE e1]

(* The loan refund may be executed twice. *)
MCRequestOf == [t \in Transfers |-> IF t = t1 THEN q1 ELSE IF t = t2 THEN q2 ELSE q3]

Symmetry == Permutations({t3, t4})
=============================================================================
