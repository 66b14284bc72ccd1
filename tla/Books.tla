------------------------------- MODULE Books -------------------------------
(***************************************************************************)
(* The general ledger of the loan of Account (routers/accounting.py).  An   *)
(* export keeps nothing: it computes the lines of a window of days from the *)
(* rows as they are now.  The lines of an event on one account are one      *)
(* amount here, debits positive and credits negative.                       *)
(***************************************************************************)
EXTENDS Account, Functions

Accounts == {"receivable", "cash", "suspense", "excise", "interest", "fees", "penalties"}

Lines(amounts) == [a \in Accounts |-> IF a \in DOMAIN amounts THEN amounts[a] ELSE 0]
Plus(f, g) == [a \in Accounts |-> f[a] + g[a]]
Total(set, Line(_)) ==
  [a \in Accounts |-> SumFunctionOnSet([x \in set |-> Line(x)[a]], set)]

(* Disbursements: dated when the payout was sent.  What is neither paid out *)
(* nor excise duty is fee income, or a loss of rounding.                    *)
PayoutExcise == IF quote.deduct THEN quote.excise ELSE 0
PayoutLines ==
  Lines([receivable |-> quote.principal, cash |-> -quote.payout, excise |-> -PayoutExcise,
         fees |-> quote.payout + PayoutExcise - quote.principal])
PayoutsIn(from, to) == IF payout.status = "success" /\ payout.day \in from..to THEN {payout} ELSE {}

(* Repayments, in the order of their dates.  The first fees to be paid are  *)
(* the product's, with their excise duty; what is paid beyond is penalties. *)
RowsIn(from, to) == {i \in 1..Len(rows) : rows[i].day \in from..to}
FeesOf(set) == SumFunctionOnSet([i \in set |-> rows[i].parts["fees"]], set)
Before(i) ==
  {j \in 1..Len(rows) : \/ rows[j].day < rows[i].day
                        \/ rows[j].day = rows[i].day /\ j < i}

(* Seeded fault: the fees paid before the window are forgotten. *)
FeesBeforeFault(i, from) == FeesOf({j \in Before(i) : rows[j].day >= from})

FeesBefore(i, from) ==
  FeesOf({j \in 1..Len(rows) : rows[j].day < from} \cup {j \in Before(i) : rows[j].day >= from})

RepaymentLines(i, from) ==
  LET parts   == rows[i].parts
      product_fee == Least(parts["fees"], AtLeast(quote.inBalance - FeesBefore(i, from), 0))
      duty    == IF product_fee = 0 THEN 0
                 ELSE RoundDiv(product_fee * quote.excise, quote.fees + quote.excise)
  IN Lines([cash |-> SumOf(parts), receivable |-> -parts["principal"],
            interest |-> -parts["interest"], fees |-> duty - product_fee, excise |-> -duty,
            penalties |-> product_fee - parts["fees"]])

(* Suspense: received when it was parked, sent when it was resolved.        *)
(* Refunds go out in whole shillings.                                       *)
Sent(e) == IF e.status = "refunded" THEN RoundUp(e.amount) ELSE e.amount
MadeIn(from, to) == {e \in entries : e.made \in from..to}
ResolvedIn(from, to) == {e \in entries : e.resolved \in from..to}
ReceiptLines(e)    == Lines([cash |-> e.amount, suspense |-> -e.amount])

(* Seeded fault: the shillings a refund is rounded up by are not booked. *)
ResolutionLinesFault(e) == Lines([suspense |-> e.amount, cash |-> -e.amount])

ResolutionLines(e) ==
  Lines([suspense |-> e.amount, cash |-> -Sent(e), fees |-> Sent(e) - e.amount])

(* _build_gl_lines *)
Ledger(from, to) ==
  Plus(Total(PayoutsIn(from, to), LAMBDA p : PayoutLines),
  Plus(Total(RowsIn(from, to), LAMBDA i : RepaymentLines(i, from)),
  Plus(Total(MadeIn(from, to), ReceiptLines),
       Total(ResolvedIn(from, to), ResolutionLines))))

(* gl_export: the lines of a window and whether they balance. *)
Balance(ledger) == SumFunctionOnSet(ledger, Accounts)
gl_export(from, to) ==
  LET lines == Ledger(from, to) IN [lines |-> lines, balanced |-> Balance(lines) = 0]

---------------------------------------------------------------------------
(* "Each event is internally balanced", and the exports of two periods say  *)
(* what one export of both says.                                            *)
BooksAddUp ==
  LET all == gl_export(0, today)
  IN /\ all.balanced
     /\ \A d \in 0..today - 1 :
          Plus(gl_export(0, d).lines, gl_export(d + 1, today).lines) = all.lines

(* The cash account tells what came in and went out, but for the interest   *)
(* that is owed back: it is booked as if the customer had paid it again.    *)
SumAmounts(set) == SumFunctionOnSet([e \in set |-> e.amount], set)
SumSent(set)    == SumFunctionOnSet([e \in set |-> Sent(e)], set)
MoneyIn  == SumFunctionOnSet(received, {r \in Refs : Arrived(r)})
MoneyOut == (IF payout.status = "success" THEN quote.payout ELSE 0)
            + SumSent({e \in entries : e.status # "open"})
CashIsReal ==
  Ledger(0, today)["cash"] = MoneyIn - MoneyOut + SumAmounts(Owing("INT"))
=============================================================================
