------------------------------ MODULE Pricing ------------------------------
(***************************************************************************)
(* The arithmetic of a loan (core/money.py, services/pricing.py and        *)
(* services/repayments.py), without any state: what a loan costs, what is   *)
(* owed of each part, how a payment is split and what an early payoff       *)
(* takes.  Amounts are whole cents, rates whole percent, times whole days.  *)
(* Decimal keeps 28 digits, more than any quotient here needs, so that a    *)
(* quotient is taken as exact and rounded once.                             *)
(***************************************************************************)
EXTENDS Integers, FiniteSets

LOCAL INSTANCE Functions

Least(a, b)   == IF a <= b THEN a ELSE b
AtLeast(a, b) == IF a >= b THEN a ELSE b

(* money: ROUND_HALF_UP of a / b, which is never negative here. *)
RoundDiv(a, b) == (2 * a + b) \div (2 * b)

(* Python's round, which takes a half to the even neighbour. *)
RoundEven(a, b) ==
  IF (2 * a) % (2 * b) = b /\ (a \div b) % 2 = 0 THEN a \div b ELSE RoundDiv(a, b)

Shilling == 100

(* math.ceil of an amount, in whole shillings. *)
RoundUp(a) == Shilling * ((a + Shilling - 1) \div Shilling)

Percent(rate, amount) == RoundDiv(rate * amount, 100)

(* split_interest_principal: the interest in a flat-rate instalment. *)
InterestIn(amount, rate) == RoundDiv(amount * rate, 100 + rate)

(* Seeded fault: what is left of the cap does not limit the charge. *)
InDuplumCapFault(principal, accrued, charge) == IF accrued < principal THEN charge ELSE 0

(* in_duplum_cap: interest and penalties never exceed the principal. *)
InDuplumCap(principal, accrued, charge) ==
  Least(charge, AtLeast(principal - accrued, 0))

---------------------------------------------------------------------------
ExciseRate == 20

(* quote_breakdown: the price of a loan.  What the payout is rounded up by  *)
(* is the lender's loss.                                                    *)
Quote(product, principal) ==
  LET fees    == Percent(product.processing, principal) + product.facility
      excise  == Percent(ExciseRate, fees)
      deduct  == product.collection = "deduct"
      net     == IF deduct THEN principal - fees - excise ELSE principal
  IN [principal |-> principal,
      interest  |-> Percent(product.rate, principal),
      fees      |-> fees,
      excise    |-> excise,
      deduct    |-> deduct,
      payout    |-> IF net > 0 THEN RoundUp(net) ELSE 0,
      inBalance |-> IF deduct THEN 0 ELSE fees + excise]

BalanceAtDisbursement(quote) == quote.principal + quote.interest + quote.inBalance

---------------------------------------------------------------------------
Parts == {"principal", "fees", "interest"}

(* ALLOCATION_ORDERS; "proportional" is the split of the time before. *)
Orders == {"principal_fees_interest", "interest_fees_principal", "proportional"}

OrderOf(order) == IF order = "interest_fees_principal"
                    THEN <<"interest", "fees", "principal">>
                    ELSE <<"principal", "fees", "interest">>

SumOf(parts) == parts["principal"] + parts["fees"] + parts["interest"]

(* owed_breakdown.  A balance below what the split explains is a gap that   *)
(* is taken off interest and principal in the flat-rate ratio.              *)
GapInterest(gap, principal, interest, rate) ==
  LET share == Least(InterestIn(gap, rate), interest)
  IN IF gap - share > principal THEN Least(interest, gap - principal) ELSE share

Owed(quote, rate, paid, outstanding) ==
  LET principal == AtLeast(quote.principal - paid["principal"], 0)
      interest  == AtLeast(quote.interest - paid["interest"], 0)
      gap       == AtLeast(principal + interest - outstanding, 0)
      share     == GapInterest(gap, principal, interest, rate)
  IN [p \in Parts |-> IF p = "principal" THEN principal - (gap - share)
                      ELSE IF p = "interest" THEN interest - share
                      ELSE outstanding + gap - principal - interest]

(* The amount, part after part; what rounding leaves goes to the last.      *)
InOrder(order, owed, amount) ==
  LET o      == OrderOf(order)
      first  == Least(amount, owed[o[1]])
      second == Least(amount - first, owed[o[2]])
  IN [p \in Parts |-> IF p = o[1] THEN first ELSE IF p = o[2] THEN second
                      ELSE amount - first - second]

Proportional(amount, rate) ==
  [p \in Parts |-> IF p = "interest" THEN InterestIn(amount, rate)
                   ELSE IF p = "principal" THEN amount - InterestIn(amount, rate) ELSE 0]

(* allocate *)
Allocate(order, owed, amount, rate) ==
  IF order = "proportional" THEN Proportional(amount, rate) ELSE InOrder(order, owed, amount)

---------------------------------------------------------------------------
Methods == {"daily", "completed_periods"}

(* The part of the term's interest that is earned when `elapsed` of `term`  *)
(* days are over: at least one day of it, or what the completed weeks or    *)
(* months of the product come to.                                           *)
Daily(interest, elapsed, term) ==
  RoundDiv(interest * Least(AtLeast(elapsed, 1), term), term)

Completed(interest, elapsed, term, period) ==
  LET periods == AtLeast(RoundEven(term, period), 1)
  IN RoundDiv(interest * Least(elapsed \div period, periods), periods)

Earned(method, interest, elapsed, term, period) ==
  IF method = "daily" THEN Daily(interest, elapsed, term)
                      ELSE Completed(interest, elapsed, term, period)

(* Seeded fault: interest paid beyond what is earned is forgotten. *)
PayoffQuoteFault(quote, owed, earned) ==
  LET due == Least(AtLeast(earned - (quote.interest - owed["interest"]), 0), owed["interest"])
  IN [amount |-> owed["principal"] + owed["fees"] + due, credit |-> 0,
      rebate |-> owed["interest"] - due, parts |-> [owed EXCEPT !["interest"] = due]]

(* payoff_quote before the due date, given what is owed of each part and    *)
(* the interest that is earned.  Interest paid beyond what is earned counts *)
(* towards the payoff, and what is left of it is owed back.                 *)
PayoffQuote(quote, owed, earned) ==
  LET paid   == quote.interest - owed["interest"]
      due    == Least(AtLeast(earned - paid, 0), owed["interest"])
      credit == AtLeast(paid - earned, 0)
      raw    == owed["principal"] + owed["fees"] + due - credit
  IN [amount |-> AtLeast(raw, 0), credit |-> AtLeast(-raw, 0),
      rebate |-> owed["interest"] - due,
      parts  |-> [owed EXCEPT !["interest"] = due]]

---------------------------------------------------------------------------
(* The credit limit suggested for a borrower, from the loans there have     *)
(* been, the applications that were turned down included.  A loan carries   *)
(* its status, principal and outstanding balance and whether the last       *)
(* repayment, if any, came by the due date.                                 *)
HistoryOf(loans) ==
  LET paid == {l \in DOMAIN loans : loans[l].status = "paid"}
      open == {l \in DOMAIN loans : loans[l].status \in {"active", "overdue", "defaulted"}}
      sums == {0} \cup {loans[l].principal : l \in DOMAIN loans}
  IN [loans    |-> Cardinality(DOMAIN loans),
      paid     |-> Cardinality(paid),
      onTime   |-> Cardinality({l \in paid : loans[l].lastOnTime}),
      largest  |-> CHOOSE most \in sums : \A other \in sums : other <= most,
      exposure |-> SumFunctionOnSet([l \in DOMAIN loans |-> loans[l].outstanding], open)]

(* In percent.  The ratio is a binary fraction and the steps are decimal    *)
(* ones: exactly seven in ten on time is just below the step of 0.7.        *)
Multiplier(h) ==
  IF h.paid = 0 THEN 100
  ELSE IF 10 * h.onTime >= 9 * h.paid THEN 150
  ELSE IF 10 * h.onTime > 7 * h.paid THEN 125
  ELSE IF 2 * h.onTime >= h.paid THEN 100
  ELSE 75

(* Clamped to the product's band; a maximum of 0 is none. *)
SuggestedLimit(product, h) ==
  LET raw == IF h.loans = 0 THEN product.min ELSE Percent(Multiplier(h), h.largest)
  IN AtLeast(IF product.max > 0 THEN Least(raw, product.max) ELSE raw, product.min)

Headroom(product, h) == AtLeast(SuggestedLimit(product, h) - h.exposure, 0)

(* pricing_quote: what an amount must keep to before it is quoted at all.   *)
Offered(product, amount) == amount \in product.min..product.max

(* loan_risk_summary, for the one who decides about an application of that  *)
(* principal: what runs, what is late of it, and whether it is above what   *)
(* is suggested.  A defaulted loan is not among what runs.                  *)
RiskSummary(loans, product, principal, today) ==
  LET active == {l \in DOMAIN loans : loans[l].status \in {"active", "overdue"}}
      late   == {l \in active : loans[l].due < today /\ loans[l].outstanding > 0}
      Sum(set) == SumFunctionOnSet([l \in DOMAIN loans |-> loans[l].outstanding], set)
  IN [exposure  |-> Sum(active), active |-> Cardinality(active),
      par       |-> late # {},   arrears |-> Sum(late),
      over      |-> principal > SuggestedLimit(product, HistoryOf(loans))]
=============================================================================
