------------------------------ MODULE MCBooks ------------------------------
(* A small instance of Books for TLC. *)
EXTENDS Books, TLC

CONSTANTS r1, r2, r3

Symmetry == Permutations(Refs)

(* Two products: fees in the balance and months, fees deducted and weeks.   *)
Added == [rate |-> 20, processing |-> 3, facility |-> 51, penalty |-> 90,
          collection |-> "add_to_balance", unit |-> "months", tenure |-> 1]
Deducted == [rate |-> 7, processing |-> 3, facility |-> 0, penalty |-> 5,
             collection |-> "deduct", unit |-> "weeks", tenure |-> 2]

Terms == {Added, Deducted}

(* loan_risk_summary against _suggested_limit for two loans: both take the  *)
(* outstanding balances for the exposure, and they differ by what has        *)
(* defaulted; what is late is part of what is out.                           *)
Rows == [status : {"pending", "active", "overdue", "defaulted", "paid"},
         due : {4, 5}, outstanding : 0..2, principal : {2}, lastOnTime : {TRUE}]
ASSUME ExposuresDifferByDefaults ==
  \A loans \in [1..2 -> Rows] :
    LET band == [min |-> 1, max |-> 4]
        h == HistoryOf(loans)
        risk == RiskSummary(loans, band, 3, 5)
        defaulted == {l \in 1..2 : loans[l].status = "defaulted"}
    IN /\ h.exposure - risk.exposure
            = (IF 1 \in defaulted THEN loans[1].outstanding ELSE 0)
              + (IF 2 \in defaulted THEN loans[2].outstanding ELSE 0)
       /\ risk.arrears <= risk.exposure /\ (risk.par <=> risk.arrears > 0)
       /\ risk.over <=> Multiplier(h) < 150

(* What nearly clears the loan, and more than it can owe.                   *)
Sums == {10600, 26000}
=============================================================================
