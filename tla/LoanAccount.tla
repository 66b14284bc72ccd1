---------------------------- MODULE LoanAccount ----------------------------
(***************************************************************************)
(* What the ledger of services/repayments.py promises of a loan: payments  *)
(* and penalties "serialise", each meeting the loan as the one before left *)
(* it, and a paid loan is never owed again.                                *)
(***************************************************************************)
EXTENDS Naturals

CONSTANTS Loans, Receipts, Amount, Due, Unearned, Penalty

VARIABLES loan, balance

Init ==
  /\ loan = [l \in Loans |-> "active"]
  /\ balance = [l \in Loans |-> Due]

(* A receipt brings the balance down; one that covers all of it but what    *)
(* an early payoff need not pay closes the loan.                            *)
Pay(r, l, unearned) ==
  /\ loan[l] # "paid" /\ unearned <= balance[l]
  /\ IF Amount[r] >= balance[l] - unearned
       THEN /\ loan' = [loan EXCEPT ![l] = "paid"]
            /\ balance' = [balance EXCEPT ![l] = 0]
       ELSE /\ balance' = [balance EXCEPT ![l] = @ - Amount[r]]
            /\ UNCHANGED loan

(* Loans that are behind become overdue, which costs the penalty once. *)
TurnOverdue(late) ==
  /\ \A l \in late : loan[l] = "active"
  /\ loan' = [l \in Loans |-> IF l \in late THEN "overdue" ELSE loan[l]]
  /\ balance' = [l \in Loans |-> IF l \in late THEN balance[l] + Penalty ELSE balance[l]]

TurnDefaulted(late) ==
  /\ \A l \in late : loan[l] \in {"active", "overdue"}
  /\ loan' = [l \in Loans |-> IF l \in late THEN "defaulted" ELSE loan[l]]
  /\ UNCHANGED balance

Next ==
  \/ \E r \in Receipts, l \in Loans, u \in 0..Unearned : Pay(r, l, u)
  \/ \E late \in SUBSET Loans : TurnOverdue(late) \/ TurnDefaulted(late)

Spec == Init /\ [][Next]_<<loan, balance>>
=============================================================================
