----------------------------- MODULE Statements -----------------------------
(***************************************************************************)
(* What is made of the rows of an applicant's M-Pesa statement              *)
(* (services/mpesa_statement.py): the signs that it was altered, and the    *)
(* score.  Amounts are cents where rows are checked, shillings for the      *)
(* score; a row without a balance is not modelled, the parser makes none.   *)
(***************************************************************************)
EXTENDS Pricing, Sequences

Row == [receipt : STRING, date : Nat, paid_in : Nat, withdrawn : Nat, balance : Int]

(* By how much a running balance misses what the row before makes of it. *)
Miss(rows, i) == rows[i - 1].balance + rows[i].paid_in - rows[i].withdrawn - rows[i].balance

(* More than a shilling either way. *)
Breaks(rows) == {i \in 2..Len(rows) : Miss(rows, i) > 100 \/ Miss(rows, i) < -100}
Repeats(rows) ==
  {i \in 1..Len(rows) : rows[i].receipt # "" /\ \E j \in 1..i - 1 : rows[j].receipt = rows[i].receipt}
Gaps(rows) == {i \in 2..Len(rows) : rows[i].date - rows[i - 1].date > 45}

(* More than 15 percent of the rows break the running balance. *)
Severe(rows) == 100 * Cardinality(Breaks(rows)) > 15 * AtLeast(Len(rows) - 1, 1)

(* _integrity_check: the flags; only a severe one makes the statement suspect. *)
integrity_flags(rows) ==
  {f \in [code : {"balance_discontinuity", "duplicate_receipts", "date_gaps"},
          severity : {"high", "medium", "low"}] :
     \/ /\ f.code = "balance_discontinuity" /\ Breaks(rows) # {}
        /\ f.severity = IF Severe(rows) THEN "high" ELSE "medium"
     \/ f.code = "duplicate_receipts" /\ f.severity = "medium" /\ Repeats(rows) # {}
     \/ f.code = "date_gaps" /\ f.severity = "low" /\ Gaps(rows) # {}}
tampering_suspected(rows) == \E f \in integrity_flags(rows) : f.severity = "high"

---------------------------------------------------------------------------
(* _affordability_score, in 24,000ths of a point: income up to 30 points,   *)
(* surplus up to 25, regularity (in percent) 20, average balance up to 10,  *)
(* less the share of income that serves debts, other lenders and tampering. *)
Part == 24000
Points(avg_in, net, regularity, debt, balance, lenders, tampering) ==
    Least(9 * avg_in, 30 * Part) + Least(20 * AtLeast(net, 0), 25 * Part)
  + 4800 * regularity + Least(12 * AtLeast(balance, 0), 10 * Part)
  - (IF avg_in = 0 THEN 0
     ELSE IF debt >= avg_in THEN 25 * Part ELSE (25 * Part * debt) \div avg_in)
  - 2 * Part * Least(lenders, 5)
  - (IF tampering THEN 25 * Part ELSE 0)

affordability_score(avg_in, net, regularity, debt, balance, lenders, tampering) ==
  LET points == Points(avg_in, net, regularity, debt, balance, lenders, tampering)
  IN Least(100, IF points <= 0 THEN 0 ELSE RoundEven(points, Part))
=============================================================================
