----------------------------- MODULE Portfolio -----------------------------
(***************************************************************************)
(* What the reports say of a loan book and of its payments: the portfolio   *)
(* at risk and the expected credit loss of the dashboard                    *)
(* (services/analytics.py), the regulatory exports (services/cbk_exports.py)*)
(* and the scan of repayments for patterns (services/aml.py).  A book maps  *)
(* loans to records; amounts are cents, days are numbers, times are hours.  *)
(* A loan that was disbursed has a due date.                                *)
(***************************************************************************)
EXTENDS Pricing, Sequences, FiniteSetsExt

OpenStatus == {"active", "overdue", "defaulted"}
Status     == OpenStatus \cup {"pending", "underwriting", "approved", "processing", "rejected", "paid"}

OpenLoans(book) == {l \in DOMAIN book : book[l].status \in OpenStatus}
Outstanding(book, loans) == MapThenSumSet(LAMBDA l : book[l].outstanding, loans)

DaysPast(loan, today) == today - loan.due

---------------------------------------------------------------------------
(* Dashboard *)

AtRisk(book, today, days) ==
  {l \in OpenLoans(book) : book[l].due < today - days /\ book[l].outstanding > 0}

(* _par: in hundredths of a percent. *)
par(book, today, days) ==
  LET total == Outstanding(book, OpenLoans(book))
  IN IF total <= 0 THEN 0
     ELSE RoundEven(10000 * Outstanding(book, AtRisk(book, today, days)), total)

(* portfolio_kpis: what was lent, what came in, and what was expected then. *)
portfolio_kpis(book, collected, today) ==
  LET lent == {l \in DOMAIN book : book[l].status \in OpenStatus \cup {"paid"}}
      expected == MapThenSumSet(LAMBDA l : book[l].principal * (100 + book[l].rate), lent)
  IN [par |-> [days \in {1, 30, 90} |-> par(book, today, days)],
      disbursed |-> MapThenSumSet(LAMBDA l : book[l].principal, lent),
      rate |-> IF expected = 0 THEN 0 ELSE RoundEven(10000 * 100 * collected, expected),
      outstanding |-> Outstanding(book, OpenLoans(book))]

(* The three stages of IFRS 9. *)
Stage(loan, today) ==
  CASE loan.status = "defaulted" \/ DaysPast(loan, today) > 90 -> 3
    [] loan.status # "defaulted" /\ DaysPast(loan, today) \in 31..90 -> 2
    [] OTHER -> 1
InStage(book, today, n) ==
  {l \in OpenLoans(book) : book[l].outstanding > 0 /\ Stage(book[l], today) = n}

(* rates: percent of the exposure, for each stage. *)
ecl_provisioning(book, today, rates) ==
  LET exposure  == [n \in 1..3 |-> Outstanding(book, InStage(book, today, n))]
      provision == [n \in 1..3 |-> Percent(rates[n], exposure[n])]
      total     == exposure[1] + exposure[2] + exposure[3]
      set_aside == provision[1] + provision[2] + provision[3]
  IN [exposure |-> exposure, provision |-> provision, total |-> set_aside,
      coverage |-> IF total > 0 THEN RoundEven(10000 * set_aside, total) ELSE 0]

---------------------------------------------------------------------------
(* Regulatory exports *)

(* asset_quality_csv: the classes, and the percentage set aside for each. *)
classify(loan, today) ==
  CASE loan.status = "paid"      -> "closed"
    [] loan.status = "defaulted" -> "loss"
    [] OTHER ->
       CASE DaysPast(loan, today) <= 0        -> "normal"
         [] DaysPast(loan, today) \in 1..30   -> "watch"
         [] DaysPast(loan, today) \in 31..90  -> "substandard"
         [] DaysPast(loan, today) \in 91..180 -> "doubtful"
         [] OTHER                             -> "loss"
ProvisionRate == [normal |-> 1, closed |-> 0, watch |-> 3, substandard |-> 20,
                  doubtful |-> 50, loss |-> 100]
asset_quality(book, today) ==
  [class \in DOMAIN ProvisionRate |->
     LET loans == {l \in DOMAIN book : /\ book[l].status \in OpenStatus \cup {"paid"}
                                       /\ classify(book[l], today) = class}
     IN [loans |-> Cardinality(loans), outstanding |-> Outstanding(book, loans),
         provision |-> Percent(ProvisionRate[class], Outstanding(book, loans))]]

(* capital_adequacy_csv: capital is a proxy, 25 % of the book and a fifth of *)
(* that on top, against the book and half of what does not perform.  The    *)
(* ratio is compared with 14.5 %; an empty book has a ratio of zero.        *)
compliant(gross, npl) == gross # 0 /\ 2 * 300 * gross >= 145 * (2 * gross + npl)
capital_adequacy(book) ==
  compliant(Outstanding(book, OpenLoans(book)),
            Outstanding(book, {l \in OpenLoans(book) : book[l].status # "active"}))

(* crb_daily_txt: the days and the letter a line has. *)
ArrearsReported(loan, today) ==
  IF loan.status \in {"overdue", "defaulted"} THEN AtLeast(DaysPast(loan, today), 0) ELSE 0
Letter == [active |-> "A", paid |-> "F", overdue |-> "D", defaulted |-> "W"]
crb_daily(book, today) ==
  {[loan |-> l, days |-> ArrearsReported(book[l], today), status |-> Letter[book[l].status]] :
     l \in {k \in DOMAIN book : book[k].status \in DOMAIN Letter}}

---------------------------------------------------------------------------
(* The scan of a loan's payments, in the order of their times. *)

(* Some n payments in a row are not further apart than span. *)
InARow(times, n, span) ==
  \E i \in 1..Len(times) - (n - 1) : times[i + n - 1] - times[i] <= span

TimesOf(payments, low, high) ==
  LET some == SelectSeq(payments, LAMBDA p : low <= p.amount /\ p.amount < high)
  IN [i \in 1..Len(some) |-> some[i].at]

(* More than 100,000 within the 24 hours that begin with some payment. *)
Velocity(payments) ==
  /\ Len(payments) >= 2
  /\ \E i \in 1..Len(payments) :
       LET window == {j \in 1..Len(payments) : payments[j].at \in payments[i].at..payments[i].at + 24}
       IN MapThenSumSet(LAMBDA j : payments[j].amount, window) > 100000

Patterns(payments) ==
  {f \in {"structuring", "rapid_small_repayments", "velocity"} :
     CASE f = "structuring"            -> InARow(TimesOf(payments, 8000, 10000), 3, 48)
       [] f = "rapid_small_repayments" -> InARow(TimesOf(payments, 0, 2000), 5, 24)
       [] f = "velocity"               -> Velocity(payments)}

(* A flag is raised once for a loan and a pattern, reviewed or not. *)
run_aml_scan(payments, existing) == Patterns(payments) \ existing
=============================================================================
