------------------------------- MODULE Ledger -------------------------------
(***************************************************************************)
(* The money that comes in (services/repayments.py): every channel applies *)
(* a receipt to a loan through apply_payment, at the same time as the      *)
(* others and as the overdue and defaulting sweeps.  A request reads       *)
(* (Begin), takes the loan's row lock (Lock) and commits (Commit); the     *)
(* sweeps read and commit without a lock.  What the ORM has read before the*)
(* lock is not read again: with_for_update() does not refresh a loaded row.*)
(* An STK prompt is a receipt to be: it may be asked for, recorded and paid *)
(* or cancelled.  Amounts are small numbers; what an early payoff clears    *)
(* without payment, the interest not earned yet and the interest that has   *)
(* been paid too early, is any amount up to Unearned, or all that is owed.  *)
(***************************************************************************)
EXTENDS Integers

CONSTANTS
  Loans,
  NoLoan,         \* no loan fits the account number
  Receipts,       \* M-Pesa or bank references
  Amount,         \* what each receipt is worth
  Target,         \* the loan whose account number the payer typed
  Named,          \* the loans of the customer whose number was typed instead
  Early,          \* the receipts paid before the due date
  Prompted,       \* the receipts that answer an STK prompt
  Due,            \* what a loan owes at the start
  Unearned,       \* the most an early payoff clears without payment
  Penalty,        \* the one-time overdue penalty
  Channels,       \* the channels in use
  Sweeps,         \* the sweeps in use
  Threads         \* the threads that serve them

ASSUME LedgerAssumption ==
  /\ NoLoan \notin Loans
  /\ Amount \in [Receipts -> Nat \ {0}]
  /\ Target \in [Receipts -> Loans \cup {NoLoan}]
  /\ Named \in [Receipts -> SUBSET Loans]
  /\ Prompted \subseteq {r \in Receipts : Target[r] # NoLoan}
  /\ Due \in Nat \ {0} /\ Unearned \in Nat /\ Penalty \in Nat
  /\ Channels \subseteq {"c2b", "stk", "manual", "approved", "allocate", "moved"}
  /\ Sweeps \subseteq {"overdue", "default"}

VARIABLES
  loan,           \* Loan.status
  balance,        \* Loan.outstanding_balance
  charged,        \* Loan.penalties_charged
  written,        \* what early payoffs cleared without payment: rebate, interest credit
  collected,      \* the sum of the loan's Repayment rows
  repaid,         \* the amount of the Repayment rows a receipt led to
  suspense,       \* the SuspenseEntry with the receipt's own reference
  excess,         \* the SuspenseEntry "<ref>-OVR"
  confirmed,      \* has the receipt a c2b PaymentTransaction?
  asked,          \* the prompts Safaricom has shown to their payers
  prompt,         \* the stk_push PaymentTransaction
  jobs,           \* payments under way
  sweeps,         \* sweeps that have read and not committed
  missed          \* (history) the receipts of which a look-up could not see all

vars == <<loan, balance, charged, written, collected, repaid, suspense, excess,
          confirmed, asked, prompt, jobs, sweeps, missed>>
rows == <<loan, balance, charged, written, collected, repaid, suspense, excess,
          confirmed, asked, prompt>>

Status == {"active", "overdue", "defaulted", "paid"}
Collectible == {"active", "overdue", "defaulted"}
Allocations == {"allocate", "moved"}
Staff == {"manual", "approved"}

(* The channels that see the loan only under its lock; the others have      *)
(* loaded it before, to match the account number or to check its status.    *)
Fresh == {"stk", "approved", "moved"}

Job == [by : Threads, channel : Channels, receipt : Receipts, loan : Loans \cup {NoLoan},
        locked : BOOLEAN, status : Status, balance : Nat]
Sweep == [by : Threads, kind : Sweeps, late : SUBSET Loans, balance : [Loans -> Nat]]

Idle(t) == /\ \A j \in jobs : j.by # t
           /\ \A s \in sweeps : s.by # t

(* reference_already_used: a repayment, or an entry in suspense. *)
Used(r) == repaid[r] > 0 \/ suspense[r] # "none"

Init ==
  /\ loan = [l \in Loans |-> "active"]
  /\ balance = [l \in Loans |-> Due]
  /\ charged = [l \in Loans |-> 0] /\ written = [l \in Loans |-> 0]
  /\ collected = [l \in Loans |-> 0]
  /\ repaid = [r \in Receipts |-> 0] /\ excess = [r \in Receipts |-> 0]
  /\ suspense = [r \in Receipts |-> "none"]
  /\ confirmed = [r \in Receipts |-> FALSE]
  /\ asked = {} /\ prompt = [r \in Receipts |-> "none"]
  /\ jobs = {} /\ sweeps = {} /\ missed = {}

---------------------------------------------------------------------------
(* STK prompts.  Safaricom shows the prompt (mpesa.stk_push) before its row *)
(* is written; the row stays away if the answer or the process is lost.     *)
Ask(r) ==
  /\ r \in Prompted \ asked
  /\ asked' = asked \cup {r}
  /\ UNCHANGED <<loan, balance, charged, written, collected, repaid, suspense, excess,
                 confirmed, prompt, jobs, sweeps, missed>>

stk_push(r) ==
  /\ r \in asked /\ prompt[r] = "none"
  /\ prompt' = [prompt EXCEPT ![r] = "pending"]
  /\ UNCHANGED <<loan, balance, charged, written, collected, repaid, suspense, excess,
                 confirmed, asked, jobs, sweeps, missed>>

(* The callback says that the payer has not paid; nothing else ever will    *)
(* say that there is such a receipt.                                        *)
FailPrompt(r) ==
  /\ prompt[r] = "pending"
  /\ ~Used(r) /\ ~confirmed[r] /\ \A j \in jobs : j.receipt # r
  /\ prompt' = [prompt EXCEPT ![r] = "failed"]
  /\ UNCHANGED <<loan, balance, charged, written, collected, repaid, suspense, excess,
                 confirmed, asked, jobs, sweeps, missed>>

(* The callback of a prompt names a receipt only if the payer has paid. *)
Sent(r) == r \in Prompted => r \in asked /\ prompt[r] # "failed"

---------------------------------------------------------------------------
(* The loan a payer means: the one of the account number, or the only one   *)
(* the customer could be paying; two of them are not guessed between.       *)
open_loans(r) == {l \in Named[r] : loan[l] \in Collectible}

match_reference(r, l) ==
  IF Target[r] # NoLoan THEN l = Target[r]
  ELSE \/ open_loans(r) = {l}
       \/ l = NoLoan /\ \A k \in Loans : open_loans(r) # {k}

(* Staff give the loan, or the number of a customer who has only one open. *)
resolve_manual_loan(r, l, number) == IF number THEN open_loans(r) = {l} ELSE l \in Loans

(* The checks a channel makes before it locks the loan.  A receipt that is  *)
(* already recorded is a duplicate, or a 409, and changes nothing.  An      *)
(* allocation holds the row lock of its entry from here on.                 *)
Admits(channel, r, l) ==
  CASE channel = "c2b"      -> ~Used(r) /\ match_reference(r, l)
    [] channel = "stk"      -> prompt[r] = "pending" /\ l = Target[r]
    [] channel = "manual"   -> /\ ~Used(r)
                               /\ \E number \in BOOLEAN : resolve_manual_loan(r, l, number)
                               /\ loan[l] \in Collectible
    [] channel = "approved" -> ~Used(r) /\ l \in Loans
    [] OTHER -> /\ suspense[r] = "open" /\ l \in Loans
                /\ channel = "allocate" => loan[l] \in Collectible
                /\ \A j \in jobs : j.channel \in Allocations => j.receipt # r

(* The unique index on the transactions, which staff and allocations do not *)
(* write: what it has of the receipt, the callback cannot book again.       *)
Indexed(channel, r) ==
  \/ channel = "c2b" /\ (confirmed[r] \/ prompt[r] = "success")
  \/ channel = "stk" /\ confirmed[r]

(* A look-up for the reference misses a payoff of nothing, which is recorded *)
(* as "<ref>-OVR" only ...                                                  *)
MissesNothing(channel, r) ==
  channel \notin Allocations /\ ~Used(r) /\ excess[r] > 0 /\ ~Indexed(channel, r)

(* ... and what is under way while staff type the same reference in.        *)
MissesStaff(channel, r) ==
  \E j \in jobs : j.receipt = r /\ (channel \in Staff \/ j.channel \in Staff)

Begin(t, channel, r, l) ==
  /\ Idle(t) /\ Sent(r)
  /\ Admits(channel, r, l)
  /\ jobs' = jobs \cup {[by |-> t, channel |-> channel, receipt |-> r, loan |-> l,
                         locked |-> FALSE,
                         status |-> IF l = NoLoan THEN "paid" ELSE loan[l],
                         balance |-> IF l = NoLoan THEN 0 ELSE balance[l]]}
  /\ missed' = IF MissesNothing(channel, r) \/ MissesStaff(channel, r)
                 THEN missed \cup {r} ELSE missed
  /\ UNCHANGED <<rows, sweeps>>

(* What the channel believes of its loan once it holds the lock. *)
SeenStatus(j)  == IF j.channel \in Fresh THEN loan[j.loan] ELSE j.status
SeenBalance(j) == IF j.channel \in Fresh THEN balance[j.loan] ELSE j.balance

LoanFree(l) == \A j \in jobs : ~(j.locked /\ j.loan = l)

(* Seeded fault: the loan's row is not locked. *)
AtLockFault(j) == ~j.locked /\ j.loan # NoLoan

AtLock(j) == ~j.locked /\ j.loan # NoLoan /\ LoanFree(j.loan)

(* Seeded fault: apply_payment does not look for the reference again. *)
RepeatedFault(j) == FALSE

(* apply_payment looks for the reference again, an allocation has made its  *)
(* own reference before.                                                    *)
Repeated(j) == j.channel \notin Allocations /\ Used(j.receipt)

(* Staff channels refuse a loan that is not collectible (409). *)
Refused(j) == j.channel \notin {"c2b", "stk"} /\ SeenStatus(j) \notin Collectible

Lock(j) ==
  /\ AtLock(j) /\ ~Repeated(j) /\ ~Refused(j)
  /\ jobs' = (jobs \ {j}) \cup
             {[j EXCEPT !.locked = TRUE, !.status = SeenStatus(j), !.balance = SeenBalance(j)]}
  /\ missed' = IF MissesNothing(j.channel, j.receipt) THEN missed \cup {j.receipt} ELSE missed
  /\ UNCHANGED <<rows, sweeps>>

(* duplicate_ignored or 409.  An STK prompt is marked successful all the    *)
(* same, unless its receipt already names a c2b transaction.                *)
Drop(j) ==
  /\ AtLock(j) /\ (Repeated(j) \/ Refused(j))
  /\ jobs' = jobs \ {j}
  /\ prompt' = IF j.channel = "stk" /\ ~confirmed[j.receipt]
                 THEN [prompt EXCEPT ![j.receipt] = "success"] ELSE prompt
  /\ UNCHANGED <<loan, balance, charged, written, collected, repaid, suspense, excess,
                 confirmed, asked, sweeps, missed>>

---------------------------------------------------------------------------
Ready(j) == j.locked \/ j.loan = NoLoan

Parks(j) == j.status \notin Collectible

(* The unique indexes on payment_transactions, repayments and suspense. *)
Refuted(j) ==
  \/ Indexed(j.channel, j.receipt)
  \/ ~Parks(j) /\ j.channel \notin Allocations /\ repaid[j.receipt] > 0
  \/ Parks(j) /\ suspense[j.receipt] # "none"

(* The transaction row of the channel, in the same commit. *)
Banked(j) ==
  /\ confirmed' = [confirmed EXCEPT ![j.receipt] = @ \/ j.channel = "c2b"]
  /\ prompt' = [prompt EXCEPT ![j.receipt] = IF j.channel = "stk" THEN "success" ELSE @]

(* IntegrityError: the transaction is rolled back. *)
Fail(j) ==
  /\ Ready(j) /\ Refuted(j)
  /\ jobs' = jobs \ {j}
  /\ UNCHANGED <<rows, sweeps, missed>>

(* record_suspense: no loan fits, or the loan is closed. *)
Park(j) ==
  /\ Ready(j) /\ ~Refuted(j) /\ Parks(j)
  /\ suspense' = [suspense EXCEPT ![j.receipt] = "open"]
  /\ Banked(j)
  /\ jobs' = jobs \ {j}
  /\ UNCHANGED <<loan, balance, charged, written, collected, repaid, excess, asked, sweeps,
                 missed>>

(* What apply_payment makes of the receipt, given what an early payoff need  *)
(* not pay: all of the payoff amount if it covers it, else all of itself.   *)
Payoff(j, unearned) == j.balance - unearned

Closes(j, unearned) == Amount[j.receipt] >= Payoff(j, unearned)

Applied(j, unearned) ==
  IF Closes(j, unearned) THEN Payoff(j, unearned) ELSE Amount[j.receipt]

(* What is too much goes to the entry "<ref>-OVR", unless there is one.  An *)
(* allocation of a receipt that is a repayment too has a reference of its own. *)
Over(j, unearned) ==
  IF j.channel \notin Allocations /\ excess[j.receipt] > 0 THEN 0
  ELSE Amount[j.receipt] - Applied(j, unearned)

(* apply_payment on a collectible loan.  Interest paid too early may cover   *)
(* all that is left: the payoff is then zero, and no Repayment is written.  *)
(* The ORM writes only what differs from what it has read.                  *)
Apply(j) ==
  /\ Ready(j) /\ ~Refuted(j) /\ ~Parks(j)
  /\ \E unearned \in IF j.receipt \in Early THEN 0..Unearned ELSE {0} :
       /\ unearned <= j.balance
       /\ repaid' = [repaid EXCEPT ![j.receipt] = @ + Applied(j, unearned)]
       /\ collected' = [collected EXCEPT ![j.loan] = @ + Applied(j, unearned)]
       /\ excess' = [excess EXCEPT ![j.receipt] = @ + Over(j, unearned)]
       /\ IF Closes(j, unearned)
            THEN /\ loan' = [loan EXCEPT ![j.loan] = "paid"]
                 /\ balance' = IF j.balance = 0 THEN balance ELSE [balance EXCEPT ![j.loan] = 0]
                 /\ written' = [written EXCEPT ![j.loan] = @ + unearned]
            ELSE /\ balance' = [balance EXCEPT ![j.loan] = j.balance - Applied(j, unearned)]
                 /\ UNCHANGED <<loan, written>>
  /\ suspense' = [suspense EXCEPT ![j.receipt] =
                    IF j.channel \in Allocations THEN "allocated" ELSE @]
  /\ Banked(j)
  /\ jobs' = jobs \ {j}
  /\ UNCHANGED <<charged, asked, sweeps, missed>>

---------------------------------------------------------------------------
(* The sweeps.                                                             *)

(* Seeded fault: every loan that has not defaulted. *)
LateFault(kind) == {l \in Loans : loan[l] # "defaulted"}

(* The loans a sweep writes, if they are past due; the overdue sweep only   *)
(* alerts those that are overdue already.                                   *)
Late(kind) ==
  {l \in Loans : /\ balance[l] > 0
                 /\ loan[l] = "active" \/ (kind = "default" /\ loan[l] = "overdue")}

(* Which of them are past due is left open. *)
BeginSweep(t, kind) ==
  /\ Idle(t)
  /\ \E late \in SUBSET Late(kind) \ {{}} :
       sweeps' = sweeps \cup {[by |-> t, kind |-> kind, late |-> late,
                    balance |-> [l \in Loans |-> IF l \in late THEN balance[l] ELSE 0]]}
  /\ UNCHANGED <<rows, jobs, missed>>

CommitSweep(s) ==
  /\ \A l \in s.late : LoanFree(l)
  /\ sweeps' = sweeps \ {s}
  /\ loan' = [l \in Loans |-> IF l \notin s.late THEN loan[l]
                              ELSE IF s.kind = "overdue" THEN "overdue" ELSE "defaulted"]
  /\ IF s.kind = "overdue" /\ Penalty > 0
       THEN /\ balance' = [l \in Loans |-> IF l \in s.late THEN s.balance[l] + Penalty
                                                            ELSE balance[l]]
            /\ charged' = [l \in Loans |-> IF l \in s.late THEN Penalty ELSE charged[l]]
       ELSE UNCHANGED <<balance, charged>>
  /\ UNCHANGED <<written, collected, repaid, suspense, excess, confirmed, asked, prompt, jobs,
                 missed>>

---------------------------------------------------------------------------
Next ==
  \/ \E r \in Receipts : Ask(r) \/ stk_push(r) \/ FailPrompt(r)
  \/ \E t \in Threads, c \in Channels, r \in Receipts, l \in Loans \cup {NoLoan} : Begin(t, c, r, l)
  \/ \E j \in jobs : Lock(j) \/ Drop(j) \/ Fail(j) \/ Park(j) \/ Apply(j)
  \/ \E t \in Threads, k \in Sweeps : BeginSweep(t, k)
  \/ \E s \in sweeps : CommitSweep(s)

Spec == Init /\ [][Next]_vars

---------------------------------------------------------------------------
(* The types of the rows and of what is under way. *)
TypeOK ==
  /\ loan \in [Loans -> Status]
  /\ balance \in [Loans -> Nat] /\ charged \in [Loans -> Nat]
  /\ written \in [Loans -> Nat] /\ collected \in [Loans -> Nat]
  /\ repaid \in [Receipts -> Nat] /\ excess \in [Receipts -> Nat]
  /\ suspense \in [Receipts -> {"none", "open", "allocated"}]
  /\ confirmed \in [Receipts -> BOOLEAN]
  /\ asked \subseteq Prompted
  /\ prompt \in [Receipts -> {"none", "pending", "failed", "success"}]
  /\ jobs \subseteq Job /\ sweeps \subseteq Sweep /\ missed \subseteq Receipts

(* "The same reference can never be credited twice", nor lost: what a       *)
(* receipt brought is nowhere, or in repayments and suspense exactly once,  *)
(* through whichever channels, threads and sweeps, early payoffs of nothing *)
(* included, unless a look-up missed what it could not see (README 6).      *)
BookedOnce ==
  \A r \in Receipts \ missed :
    repaid[r] + excess[r] + (IF suspense[r] = "open" THEN Amount[r] ELSE 0) \in {0, Amount[r]}

(* "Two payments for one loan serialise": what a loan still owes is what it *)
(* owed, with penalties, less what was collected and written off.           *)
BalanceAgrees ==
  \A l \in Loans : balance[l] + collected[l] + written[l] = Due + charged[l]

(* A loan is paid if and only if nothing is owed on it. *)
PaidIsClear == \A l \in Loans : loan[l] = "paid" <=> balance[l] = 0

(* A paid loan, with every payment and sweep that had found it unpaid over  *)
(* (one that is still under way may yet write over it: README 6).  A        *)
(* payment that will load the loan under its lock has not found it yet.     *)
Cleared(l) ==
  /\ loan[l] = "paid" /\ balance[l] = 0
  /\ \A j \in jobs : j.loan = l /\ (j.locked \/ j.channel \notin Fresh) => Parks(j)
  /\ \A s \in sweeps : l \notin s.late

(* VALID_TRANSITIONS lets nothing out of `paid`: from there on no payment,  *)
(* whatever it is worth and however late, no allocation and no sweep makes  *)
(* the loan owe anything again.                                             *)
PaidIsFinal == [][\A l \in Loans : Cleared(l) => Cleared(l)']_vars

(* The promise: see LoanAccount. *)
Account == INSTANCE LoanAccount
AccountSpec == Account!Spec

---------------------------------------------------------------------------
(* The inductive invariants of LedgerProofs.                               *)

(* The conditions under which payments serialise: one thread, or channels   *)
(* that read the loan under its lock and no sweep.                          *)
Serial  == \A s, t \in Threads : s = t
Orderly == Serial \/ (Channels \subseteq Fresh /\ Sweeps = {})

LockedAlone ==
  /\ \A j \in jobs : j.locked => j.loan \in Loans
  /\ \A j, k \in jobs : j.locked /\ k.locked /\ j.loan = k.loan => j = k

(* A job with no loan has nothing to apply to. *)
LoanlessParks == \A j \in jobs : j.loan = NoLoan => Parks(j)

OneJobEach ==
  /\ \A j, k \in jobs : j.by = k.by => j = k
  /\ \A r, s \in sweeps : r.by = s.by => r = s
  /\ \A j \in jobs, s \in sweeps : j.by # s.by

(* What a job or a sweep will write from is what the rows hold. *)
SnapshotsTrue ==
  /\ \A j \in jobs : j.loan \in Loans /\ (j.locked \/ j.channel \notin Fresh)
                       => j.status = loan[j.loan] /\ j.balance = balance[j.loan]
  /\ \A s \in sweeps, l \in Loans : l \in s.late => l \in Late(s.kind) /\ s.balance[l] = balance[l]

ChargedOnce == \A l \in Loans : loan[l] = "active" => charged[l] = 0

LedgerInv == TypeOK /\ LockedAlone /\ LoanlessParks /\ OneJobEach /\ SnapshotsTrue
             /\ ChargedOnce /\ PaidIsClear /\ BalanceAgrees

(* What is booked of a receipt, and whether a transaction names it.          *)
Booked(r) == Used(r) \/ excess[r] > 0
Recorded(r) == confirmed[r] \/ prompt[r] = "success"

(* Where a receipt is tells what is booked of it. *)
ReceiptState ==
  /\ \A r \in Receipts : prompt[r] # "none" => r \in Prompted
  /\ \A r \in Receipts \ missed :
       /\ suspense[r] = "none" => repaid[r] + excess[r] \in {0, Amount[r]}
       /\ suspense[r] = "open" => repaid[r] = 0 /\ excess[r] = 0
       /\ suspense[r] = "allocated" => repaid[r] + excess[r] = Amount[r]

(* The callback of a prompt is about the loan the prompt was for; an        *)
(* allocation holds the lock of its entry.                                  *)
JobsPlaced ==
  /\ \A j \in jobs : j.channel = "stk" => j.receipt \in Prompted /\ j.loan = Target[j.receipt]
  /\ \A j \in jobs : j.channel \in Allocations => suspense[j.receipt] = "open"
  /\ \A j, k \in jobs : j.channel \in Allocations /\ k.channel \in Allocations
                         /\ j.receipt = k.receipt => j = k

(* Staff who type a reference in are alone with it and have found nothing   *)
(* booked; what is booked since a callback has looked has a transaction     *)
(* that refutes the callback.                                               *)
JobsApart ==
  \A j \in jobs : j.receipt \notin missed =>
    /\ j.channel \in Staff => /\ ~Booked(j.receipt)
                              /\ \A k \in jobs : k.receipt = j.receipt => k = j
    /\ j.channel = "c2b" => ~Booked(j.receipt) \/ Recorded(j.receipt)
    /\ j.channel = "stk" /\ j.locked => ~Booked(j.receipt) \/ confirmed[j.receipt]

BookInv == TypeOK /\ LockedAlone /\ LoanlessParks /\ ReceiptState /\ JobsPlaced /\ JobsApart
=============================================================================
