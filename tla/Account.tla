------------------------------ MODULE Account ------------------------------
(***************************************************************************)
(* One loan from its price to its last cent: it is paid out, repaid on any  *)
(* day, charged a penalty, settled early, and what is too much is parked    *)
(* and sent back, while the lender changes its settings and its product.    *)
(* Every action is one committed request; what happens when they overlap is *)
(* in Payout, Ledger and Suspense.  Times are days, and a payment is dated   *)
(* when the customer paid, which may be before other payments already       *)
(* recorded.                                                                *)
(***************************************************************************)
EXTENDS Pricing, Sequences, FiniteSets

CONSTANTS
  Products,       \* the terms a product can have
  Principal,      \* what the loan is for
  Refs,           \* payment references
  Amounts,        \* what a customer may pay
  Threshold,      \* the amount from which a manual payment needs an approver
  Weeks, Months,  \* the days in the two tenure units
  Grace,          \* the days from overdue to defaulted
  LastDay,        \* the bound on time
  LastSend,       \* the bound on when the payout is sent
  Late,           \* the bound on how late a payment is recorded
  MaxChanges,     \* the bound on changes of the settings and the product
  FirstOrder,     \* the settings at the start
  FirstMethod

ASSUME AccountAssumption ==
  /\ Principal \in Nat \ {0}
  /\ Amounts \subseteq Nat \ {0}
  /\ Threshold \in Nat
  /\ Weeks \in Nat \ {0} /\ Months \in Nat \ {0} /\ Grace \in Nat
  /\ LastDay \in Nat /\ LastSend \in Nat /\ Late \in Nat /\ MaxChanges \in Nat
  /\ FirstOrder \in Orders /\ FirstMethod \in Methods
  /\ Products \subseteq [rate : Nat, processing : Nat, facility : Nat, penalty : Nat,
                         collection : {"deduct", "add_to_balance"},
                         unit : {"weeks", "months"}, tenure : Nat]

VARIABLES
  product,        \* the product's terms now
  rate,           \* Loan.interest_rate
  quote,          \* Loan.pricing_snapshot
  loan,           \* status, balance, penalties, rebate and dates of the loan
  payout,         \* the b2c PaymentTransaction
  paid,           \* the sums of the columns of the loan's Repayment rows
  rows,           \* the Repayment rows
  entries,        \* the SuspenseEntry rows
  held,           \* the manual payments that wait for a second approver
  received,       \* what the customer paid under each reference
  elsewhere,      \* what was booked under it on another loan
  order, method,  \* the DCP's payment settings
  today, changes

vars == <<product, rate, quote, loan, payout, paid, rows, entries, held, received,
          elsewhere, order, method, today, changes>>
settings == <<product, order, method, changes>>
money == <<paid, rows, entries, held, received, elsewhere>>

Never == -1
Collectible == {"active", "overdue", "defaulted"}
PeriodOf(p) == IF p.unit = "weeks" THEN Weeks ELSE Months

Init ==
  /\ product \in Products
  /\ rate = product.rate
  /\ quote = Quote(product, Principal)
  /\ loan = [status |-> "approved", balance |-> 0, penalties |-> 0, rebate |-> 0,
             start |-> Never, due |-> Never, settled |-> Never]
  /\ payout = [day |-> Never, status |-> "none"]
  /\ paid = [p \in Parts |-> 0] /\ rows = <<>> /\ entries = {} /\ held = {}
  /\ received = [r \in Refs |-> 0] /\ elsewhere = [r \in Refs |-> 0]
  /\ order = FirstOrder /\ method = FirstMethod
  /\ today = 0 /\ changes = 0

---------------------------------------------------------------------------
(* The payout: execute_disbursement writes the row, dated today, and the    *)
(* result settles it on a later day.                                        *)
Disburse ==
  /\ loan.status = "approved" /\ quote.payout > 0 /\ today <= LastSend
  /\ loan' = [loan EXCEPT !.status = "processing"]
  /\ payout' = [day |-> today, status |-> "processing"]
  /\ UNCHANGED <<rate, quote, money, settings, today>>

PaidOut ==
  /\ loan.status = "processing"
  /\ payout' = [payout EXCEPT !.status = "success"]
  /\ loan' = [loan EXCEPT !.status = "active", !.start = today,
                          !.due = today + PeriodOf(product) * AtLeast(1, product.tenure),
                          !.balance = BalanceAtDisbursement(quote)]
  /\ UNCHANGED <<rate, quote, money, settings, today>>

PayoutFails ==
  /\ loan.status = "processing"
  /\ payout' = [payout EXCEPT !.status = "failed"]
  /\ loan' = [loan EXCEPT !.status = "approved"]
  /\ UNCHANGED <<rate, quote, money, settings, today>>

---------------------------------------------------------------------------
OwedNow == Owed(quote, rate, paid, loan.balance)

EarnedBy(day) ==
  Earned(method, quote.interest, AtLeast(day - loan.start, 0), loan.due - loan.start,
         PeriodOf(product))

(* payoff_quote: the early terms hold before the due date. *)
IsEarly(day) == loan.balance > 0 /\ loan.due > loan.start /\ day < loan.due
QuoteOn(day) == PayoffQuote(quote, OwedNow, EarnedBy(day))

SettlesEarly(amount, day) == IsEarly(day) /\ amount >= QuoteOn(day).amount

(* reference_already_used *)
Used(ref) == \/ \E i \in 1..Len(rows) : rows[i].ref = ref
             \/ \E e \in entries : e.ref = ref /\ e.kind = "own"

Arrived(ref) == \/ \E i \in 1..Len(rows) : rows[i].ref = ref
                \/ \E e \in entries : e.ref = ref

(* record_suspense: one entry for each reference. *)
Entry(ref, kind, amount) ==
  [ref |-> ref, kind |-> kind, amount |-> amount, made |-> today,
   status |-> "open", resolved |-> Never]

Parked(ref, kind, amount) == IF amount > 0 THEN {Entry(ref, kind, amount)} ELSE {}

(* The Repayment row: none for an amount of zero. *)
Book(ref, amount, parts, day) ==
  IF amount = 0 THEN UNCHANGED <<rows, paid>>
  ELSE /\ rows' = Append(rows, [ref |-> ref, parts |-> parts, day |-> day])
       /\ paid' = [p \in Parts |-> paid[p] + parts[p]]

(* apply_payment on a payment that covers the early payoff amount: takes    *)
(* that and no more, and writes off the interest that is not earned.        *)
SettleEarly(ref, amount, day) ==
  LET q == QuoteOn(day)
  IN /\ SettlesEarly(amount, day)
     /\ Book(ref, q.amount, InOrder(order, q.parts, q.amount), day)
     /\ loan' = [loan EXCEPT !.status = "paid", !.balance = 0, !.settled = day,
                             !.rebate = @ + q.rebate]
     /\ entries' = entries \cup Parked(ref, "OVR", amount - q.amount)
                           \cup Parked(ref, "INT", q.credit)

(* apply_payment on any other. *)
Apply(ref, amount, day) ==
  LET applied == Least(amount, loan.balance)
  IN /\ ~SettlesEarly(amount, day)
     /\ Book(ref, applied, Allocate(order, OwedNow, applied, rate), day)
     /\ loan' = [loan EXCEPT !.balance = @ - applied,
                             !.status = IF applied = loan.balance THEN "paid" ELSE @]
     /\ entries' = entries \cup Parked(ref, "OVR", amount - applied)

(* apply_payment on a loan that is not collectible. *)
Park(ref, amount) ==
  /\ entries' = entries \cup Parked(ref, "own", amount)
  /\ UNCHANGED <<loan, rows, paid>>

Take(ref, amount, day) == SettleEarly(ref, amount, day) \/ Apply(ref, amount, day)

(* A payment Safaricom reports always goes somewhere, also if staff have    *)
(* typed it in and it still waits for approval.                             *)
Pay(ref, amount, day) ==
  /\ loan.start # Never /\ ~Arrived(ref)
  /\ received[ref] = 0 \/ \E h \in held : h.ref = ref /\ h.amount = amount
  /\ IF loan.status \in Collectible THEN Take(ref, amount, day) ELSE Park(ref, amount)
  /\ received' = [received EXCEPT ![ref] = amount]
  /\ UNCHANGED <<rate, quote, payout, held, elsewhere, settings, today>>

(* ensure_reference_free: not booked, not parked, not waiting for approval. *)
Free(ref) == ~Used(ref) /\ elsewhere[ref] = 0 /\ \A h \in held : h.ref # ref

(* A payment that staff type in, or a row of an uploaded statement: it      *)
(* needs an open loan, and a second approver from a certain amount on.      *)
Enter(ref, amount, day) ==
  /\ received[ref] = 0 /\ Free(ref) /\ loan.status \in Collectible
  /\ received' = [received EXCEPT ![ref] = amount]
  /\ IF amount >= Threshold
       THEN /\ held' = held \cup {[ref |-> ref, amount |-> amount, day |-> day]}
            /\ UNCHANGED <<loan, rows, paid, entries>>
       ELSE Take(ref, amount, day) /\ UNCHANGED held
  /\ UNCHANGED <<rate, quote, payout, elsewhere, settings, today>>

(* The approver's decision.  On a loan that is closed by now it is refused  *)
(* and the request still waits; what has been booked since is not again.    *)
Approve(h) ==
  /\ loan.status \in Collectible
  /\ held' = held \ {h}
  /\ IF Used(h.ref) THEN UNCHANGED <<loan, rows, paid, entries>>
                    ELSE Take(h.ref, h.amount, h.day)
  /\ UNCHANGED <<rate, quote, payout, received, elsewhere, settings, today>>

(* Its reference, entered once more for another loan. *)
EnterAgain(ref) ==
  /\ received[ref] > 0 /\ Free(ref)
  /\ elsewhere' = [elsewhere EXCEPT ![ref] = received[ref]]
  /\ UNCHANGED <<rate, quote, loan, payout, paid, rows, entries, held, received, settings, today>>

(* What is parked is refunded, or moved: reversed or allocated to another   *)
(* loan, as it is.                                                          *)
Resolve(e, how) ==
  /\ e.status = "open"
  /\ entries' = (entries \ {e}) \cup {[e EXCEPT !.status = how, !.resolved = today]}
  /\ UNCHANGED <<rate, quote, loan, payout, paid, rows, held, received, elsewhere, settings,
                 today>>

---------------------------------------------------------------------------
(* _accrue_overdue_penalty, with the penalty rate the product has today.    *)
PenaltyNow ==
  InDuplumCap(quote.principal, Percent(rate, quote.principal),
              Percent(product.penalty, quote.principal))

(* Seeded fault: the penalty is added to the balance and not recorded. *)
TurnOverdueFault ==
  /\ loan.status = "active" /\ today > loan.due /\ loan.balance > 0
  /\ loan' = [loan EXCEPT !.status = "overdue", !.balance = @ + PenaltyNow]
  /\ UNCHANGED <<rate, quote, payout, money, settings, today>>

(* _run_overdue_alerts and _run_defaulting *)
TurnOverdue ==
  /\ loan.status = "active" /\ today > loan.due /\ loan.balance > 0
  /\ loan' = [loan EXCEPT !.status = "overdue", !.balance = @ + PenaltyNow,
                          !.penalties = @ + PenaltyNow]
  /\ UNCHANGED <<rate, quote, payout, money, settings, today>>

TurnDefaulted ==
  /\ loan.status \in {"active", "overdue"} /\ today > loan.due + Grace /\ loan.balance > 0
  /\ loan' = [loan EXCEPT !.status = "defaulted"]
  /\ UNCHANGED <<rate, quote, payout, money, settings, today>>

---------------------------------------------------------------------------
(* set_payment_settings and update_product *)
SetOrder(o) ==
  /\ o # order /\ order' = o
  /\ changes < MaxChanges /\ changes' = changes + 1
  /\ UNCHANGED <<product, rate, quote, loan, payout, money, method, today>>

SetMethod(m) ==
  /\ m # method /\ method' = m
  /\ changes < MaxChanges /\ changes' = changes + 1
  /\ UNCHANGED <<product, rate, quote, loan, payout, money, order, today>>

UpdateProduct(p) ==
  /\ p # product /\ product' = p
  /\ changes < MaxChanges /\ changes' = changes + 1
  /\ UNCHANGED <<rate, quote, loan, payout, money, order, method, today>>

Tick ==
  /\ today < LastDay /\ today' = today + 1
  /\ UNCHANGED <<rate, quote, loan, payout, money, settings>>

Next ==
  \/ Disburse \/ PaidOut \/ PayoutFails
  \/ \E r \in Refs, a \in Amounts, d \in AtLeast(today - Late, 0)..today :
       Pay(r, a, d) \/ Enter(r, a, d)
  \/ \E h \in held : Approve(h)
  \/ \E r \in Refs : EnterAgain(r)
  \/ \E e \in entries, how \in {"refunded", "moved"} : Resolve(e, how)
  \/ TurnOverdue \/ TurnDefaulted
  \/ \E o \in Orders : SetOrder(o)
  \/ \E m \in Methods : SetMethod(m)
  \/ \E p \in Products : UpdateProduct(p)
  \/ Tick

Spec == Init /\ [][Next]_vars

---------------------------------------------------------------------------
Status == {"approved", "processing", "active", "overdue", "defaulted", "paid"}
Days == 0..LastDay

(* The types of the rows. *)
TypeOK ==
  /\ rate \in Nat /\ order \in Orders /\ method \in Methods
  /\ product \in Products /\ today \in Days /\ changes \in 0..MaxChanges
  /\ loan.status \in Status
  /\ loan.balance \in Nat /\ loan.penalties \in Nat /\ loan.rebate \in Nat
  /\ paid \in [Parts -> Nat]
  /\ received \in [Refs -> Nat] /\ elsewhere \in [Refs -> Nat]
  /\ \A h \in held : h.ref \in Refs /\ h.amount \in Amounts /\ h.day \in Days
  /\ \A e \in entries : e.ref \in Refs /\ e.amount \in Nat \ {0}

(* The integrity check of routers/access.py: what an open loan owes is its  *)
(* price, the penalties and nothing else, less what was repaid; and a loan  *)
(* that is paid has not cost more.                                          *)
Price == BalanceAtDisbursement(quote) + loan.penalties
Accounted ==
  /\ loan.status \in Collectible => loan.balance + SumOf(paid) + loan.rebate = Price
  /\ loan.status = "paid" => loan.balance = 0 /\ SumOf(paid) + loan.rebate <= Price

(* Regulation 56(4): who settles early has paid, in all, the principal, the *)
(* fees and penalties and the interest that is earned, whatever was paid    *)
(* before, in whichever order it was allocated; the rest is written off or  *)
(* owed back.                                                               *)
Owing(kind) == {e \in entries : e.kind = kind}
OwedBack == IF Owing("INT") = {} THEN 0 ELSE (CHOOSE e \in Owing("INT") : TRUE).amount
EarlyIsFair ==
  [][loan.settled = Never /\ loan'.settled # Never =>
       SumOf(paid') - OwedBack' =
         quote.principal + quote.inBalance + loan.penalties + EarnedBy(loan'.settled)]_vars

(* CBK in duplum: a penalty never takes interest and penalties beyond the   *)
(* principal, whatever the product has become.                              *)
InDuplum == loan.penalties > 0 => quote.interest + loan.penalties <= quote.principal

(* "The same reference can never be credited twice": the repayment, what is *)
(* parked and what another loan got come to what the customer paid.         *)
InRows(ref) == {i \in 1..Len(rows) : rows[i].ref = ref}
Booked(ref) ==
  (IF InRows(ref) = {} THEN 0 ELSE SumOf(rows[CHOOSE i \in InRows(ref) : TRUE].parts))
  + (IF \E e \in Owing("OVR") : e.ref = ref
       THEN (CHOOSE e \in Owing("OVR") : e.ref = ref).amount ELSE 0)
  + (IF \E e \in Owing("own") : e.ref = ref
       THEN (CHOOSE e \in Owing("own") : e.ref = ref).amount ELSE 0)
  + (IF ~Arrived(ref) /\ (\E h \in held : h.ref = ref) THEN received[ref] ELSE 0)
  + elsewhere[ref]
CreditedOnce == \A r \in Refs : Booked(r) = received[r]

(* "Never more than the daily method": the completed weeks or months charge *)
(* no more interest than the days would.                                    *)
NeverMoreThanDaily ==
  loan.status \in Collectible =>
    \A d \in loan.start..loan.due :
      Completed(quote.interest, d - loan.start, loan.due - loan.start, PeriodOf(product))
        <= Daily(quote.interest, d - loan.start, loan.due - loan.start)
=============================================================================
