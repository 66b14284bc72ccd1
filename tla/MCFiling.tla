---------------------------- MODULE MCFiling ----------------------------
(* Instances of Filing: DCPs' tables as they may be at the end of the month. *)
EXTENDS Filing
CONSTANTS t1, t2

Overdue == [client |-> "by_end", disbursed |-> "by_end", due |-> "by_end",
            status |-> "overdue", repaid |-> "none", complained |-> "month"]
Fresh == [client |-> "by_end", disbursed |-> "none", due |-> "after",
          status |-> "active", repaid |-> "none", complained |-> "none"]
MCBooks == {[t \in {t1, t2} |-> IF t = t1 THEN Overdue ELSE Fresh],
            [t \in {t1, t2} |-> IF t = t1 THEN Fresh ELSE Overdue]}

---------------------------------------------------------------------------
(* The reports of Portfolio, on small books and lists of payments. *)
Reports == INSTANCE Portfolio

(* The stages of credit loss, the regulator's classes and the total of the  *)
(* dashboard add up to the same book, and less of it is at risk for longer. *)
Loans == [status : {"active", "overdue", "defaulted", "paid"}, due : {9, 69, 99},
          outstanding : {0, 300, 800}, principal : {800}, rate : {20}]
ASSUME ReportsAddUp ==
  \A lent \in [1..2 -> Loans] :
    LET kpis == Reports!portfolio_kpis(lent, 5, 100)
        ecl  == Reports!ecl_provisioning(lent, 100, <<1, 20, 60>>)
        aq   == Reports!asset_quality(lent, 100)
        closed == Reports!Outstanding(lent, {l \in 1..2 : lent[l].status = "paid"})
    IN /\ ecl.exposure[1] + ecl.exposure[2] + ecl.exposure[3] = kpis.outstanding
       /\ Reports!MapThenSumSet(LAMBDA c : aq[c].outstanding, DOMAIN aq) = kpis.outstanding + closed
       /\ kpis.par[90] <= kpis.par[30] /\ kpis.par[30] <= kpis.par[1] /\ kpis.par[1] <= 10000
       /\ ecl.coverage <= 6000
       /\ Cardinality(Reports!crb_daily(lent, 100)) = 2
       /\ Reports!capital_adequacy(lent) <=> kpis.outstanding > 0

(* What the scan flags is there, in some three payments, some five, or some *)
(* day that need not begin with a payment, and nothing else.                *)
Payment == [amount : {1000, 9000, 96000}, at : {0, 12, 24, 48}]
InOrder == {p \in [1..5 -> Payment] : \A i \in 1..4 : p[i].at <= p[i + 1].at}
Close(p, some, n, span) ==
  \E chosen \in SUBSET some : /\ Cardinality(chosen) = n
                              /\ \A i, j \in chosen : p[i].at - p[j].at <= span
ASSUME ScanFindsPatterns ==
  \A p \in InOrder :
    LET found == Reports!run_aml_scan(p, {})
    IN /\ "structuring" \in found <=> Close(p, {i \in 1..5 : p[i].amount = 9000}, 3, 48)
       /\ "rapid_small_repayments" \in found <=> Close(p, {i \in 1..5 : p[i].amount = 1000}, 5, 24)
       /\ "velocity" \in found <=>
            \E t \in 0..48 :
              100000 < Reports!MapThenSumSet(LAMBDA i : p[i].amount, {i \in 1..5 : p[i].at \in t..t + 24})
       /\ Reports!run_aml_scan(p, found) = {}
=============================================================================
