------------------------------ MODULE Payout ------------------------------
(***************************************************************************)
(* The durable loan payout of services/disbursement.py: one M-Pesa B2C     *)
(* request per PaymentTransaction row, recorded before Safaricom is        *)
(* called, and settled later by a result callback, the webhook retry       *)
(* worker, the reconcile sweep or a member of staff.                       *)
(*                                                                         *)
(* An action is one database transaction, or one call to Safaricom, of one *)
(* of the threads of the application.  A handler that reads rows, decides  *)
(* and commits later is two actions, the read and the commit, because the  *)
(* code takes no lock between them (the resolve endpoint, which does, keeps*)
(* the others' commits to that row waiting).                               *)
(***************************************************************************)
EXTENDS Naturals

CONSTANTS
  Loans,          \* the loans
  Payouts,        \* the PaymentTransaction rows (type b2c) requests may insert
  LoanOf,         \* the loan each of them pays out
  Settlers,       \* the threads that can settle payouts at the same time
  Due,            \* what a loan owes once active, in instalments
  EarlyResolve,   \* may staff resolve a payout whose request is still running?
  CredsChange,    \* when are the DCP's Daraja credentials saved or removed?
  MaxRestarts     \* how often the process restarts (bound)

ASSUME PayoutAssumption ==
  /\ LoanOf \in [Payouts -> Loans]
  /\ Due \in Nat \ {0}
  /\ EarlyResolve \in BOOLEAN
  /\ CredsChange \in {"never", "idle", "any"}
  /\ MaxRestarts \in Nat

VARIABLES
  loan,           \* Loan.status
  balance,        \* Loan.outstanding_balance, in instalments
  txn,            \* the PaymentTransaction rows: status, mpesa_ref, saved ack
  pc,             \* where the request that owns the row is
  mpesa,          \* what Safaricom has done with the request
  jobs,           \* settlements that have read their rows and not committed
  configured,     \* does resolve_creds find usable credentials?
  restarts

vars == <<loan, balance, txn, pc, mpesa, jobs, configured, restarts>>

---------------------------------------------------------------------------
LoanStatus == {"approved", "processing", "active", "paid"}
TxnStatus  == {"none", "initiated", "processing", "timed_out", "uncertain",
               "success", "failed"}
OpenStates == {"initiated", "processing", "timed_out", "uncertain"}
Settleable == {"processing", "timed_out", "uncertain"}
InFlight   == {"saved", "accepted", "refused", "unknown"}

Txn == [status : TxnStatus, ref : {"null", "conversation", "receipt"}, ack : BOOLEAN]
Job == [by : Settlers, kind : {"settle", "timeout", "resolve"}, payout : Payouts,
        loan : LoanStatus, paid : BOOLEAN]

(* open_payout: an unconfirmed payout of the loan. *)
Open(l) == \E p \in Payouts : LoanOf[p] = l /\ txn[p].status \in OpenStates

(* The resolve endpoint holds the row lock of the payout it is settling. *)
RowFree(p) == \A j \in jobs : j.kind = "resolve" => j.payout # p

(* Each thread settles one payout at a time: callbacks run to completion on  *)
(* the event loop, a scheduler job has max_instances=1.                      *)
Idle(s) == \A j \in jobs : j.by # s

Init ==
  /\ loan = [l \in Loans |-> "approved"]
  /\ balance = [l \in Loans |-> 0]
  /\ txn = [p \in Payouts |-> [status |-> "none", ref |-> "null", ack |-> FALSE]]
  /\ pc = [p \in Payouts |-> "idle"]
  /\ mpesa = [p \in Payouts |-> "none"]
  /\ jobs = {}
  /\ configured \in BOOLEAN
  /\ restarts = 0

---------------------------------------------------------------------------
(* execute_disbursement *)

(* The unlocked look for an earlier payout.  A refusal (409) leaves no trace. *)
Check(p) ==
  /\ pc[p] = "idle"
  /\ ~Open(LoanOf[p])
  /\ pc' = [pc EXCEPT ![p] = "checked"]
  /\ UNCHANGED <<loan, balance, txn, mpesa, jobs, configured, restarts>>

(* Seeded fault: the request goes out before its row is saved. *)
ReserveFault(p) ==
  /\ pc[p] = "checked"
  /\ loan[LoanOf[p]] = "approved"
  /\ loan' = [loan EXCEPT ![LoanOf[p]] = "processing"]
  /\ pc' = [pc EXCEPT ![p] = "saved"]
  /\ UNCHANGED <<balance, txn, mpesa, jobs, configured, restarts>>

(* The conditional UPDATE approved -> processing, the inserted row and      *)
(* commit 1: the payout is on record before Safaricom hears of it.          *)
Reserve(p) ==
  /\ pc[p] = "checked"
  /\ loan[LoanOf[p]] = "approved"
  /\ loan' = [loan EXCEPT ![LoanOf[p]] = "processing"]
  /\ txn' = [txn EXCEPT ![p].status = "initiated"]
  /\ pc' = [pc EXCEPT ![p] = "saved"]
  /\ UNCHANGED <<balance, mpesa, jobs, configured, restarts>>

(* The UPDATE matched no row (409), or nothing is left to pay out (rollback, 422). *)
GiveUp(p) ==
  /\ pc[p] = "checked"
  /\ pc' = [pc EXCEPT ![p] = "idle"]
  /\ UNCHANGED <<loan, balance, txn, mpesa, jobs, configured, restarts>>

(* A call to Daraja: how the answer is classified, what Safaricom has taken. *)

(* Production without the full set of credentials: nothing is sent. *)
guard_production_b2c(answer, taken) == answer = "refused" /\ taken = "none"

(* The sandbox without credentials: an acknowledgement, and no result yet. *)
simulate_b2c_accept(answer, taken) == answer = "accepted" /\ taken = "simulated"

(* No token: refused or never reached, or something else went wrong. *)
get_access_token_fails(answer, taken) == answer \in {"refused", "unknown"} /\ taken = "none"

b2c_disburse(answer, taken) ==
  IF configured
  THEN \/ get_access_token_fails(answer, taken)
       \/ answer = "accepted" /\ taken = "queued"
       \/ answer = "refused" /\ taken = "none"
       \/ answer = "unknown" /\ taken \in {"none", "queued"}
  ELSE guard_production_b2c(answer, taken) \/ simulate_b2c_accept(answer, taken)

(* _send_b2c: accepted, definitely refused, or nobody knows. *)
Send(p) ==
  /\ pc[p] = "saved"
  /\ \E answer \in {"accepted", "refused", "unknown"},
        taken \in {"none", "queued", "simulated"} :
       /\ b2c_disburse(answer, taken)
       /\ pc' = [pc EXCEPT ![p] = answer]
       /\ mpesa' = [mpesa EXCEPT ![p] = taken]
  /\ UNCHANGED <<loan, balance, txn, jobs, configured, restarts>>

(* Step 3.  The row is written as it was left at commit 1, without reading  *)
(* its status again.                                                        *)
SaveAccepted(p) ==
  /\ pc[p] = "accepted" /\ RowFree(p)
  /\ txn' = [txn EXCEPT ![p] = [status |-> "processing", ref |-> "conversation", ack |-> TRUE]]
  /\ pc' = [pc EXCEPT ![p] = "done"]
  /\ UNCHANGED <<loan, balance, mpesa, jobs, configured, restarts>>

(* Seeded fault: the loan of a refused payout is not released. *)
SaveRefusedFault(p) ==
  /\ pc[p] = "refused" /\ RowFree(p)
  /\ txn' = [txn EXCEPT ![p].status = "failed"]
  /\ pc' = [pc EXCEPT ![p] = "done"]
  /\ UNCHANGED <<loan, balance, mpesa, jobs, configured, restarts>>

SaveRefused(p) ==
  /\ pc[p] = "refused" /\ RowFree(p)
  /\ txn' = [txn EXCEPT ![p].status = "failed"]
  /\ loan' = [loan EXCEPT ![LoanOf[p]] = IF @ = "processing" THEN "approved" ELSE @]
  /\ pc' = [pc EXCEPT ![p] = "done"]
  /\ UNCHANGED <<balance, mpesa, jobs, configured, restarts>>

(* Seeded fault: an unknown outcome is taken for a refusal. *)
SaveUnknownFault(p) ==
  /\ pc[p] = "unknown" /\ RowFree(p)
  /\ txn' = [txn EXCEPT ![p].status = "failed"]
  /\ loan' = [loan EXCEPT ![LoanOf[p]] = IF @ = "processing" THEN "approved" ELSE @]
  /\ pc' = [pc EXCEPT ![p] = "done"]
  /\ UNCHANGED <<balance, mpesa, jobs, configured, restarts>>

SaveUnknown(p) ==
  /\ pc[p] = "unknown" /\ RowFree(p)
  /\ txn' = [txn EXCEPT ![p].status = "uncertain"]
  /\ pc' = [pc EXCEPT ![p] = "done"]
  /\ UNCHANGED <<loan, balance, mpesa, jobs, configured, restarts>>

---------------------------------------------------------------------------
(* Safaricom (external): a queued request is paid or declined. *)
SafaricomSettles(p) ==
  /\ mpesa[p] = "queued"
  /\ \E outcome \in {"paid", "declined"} : mpesa' = [mpesa EXCEPT ![p] = outcome]
  /\ UNCHANGED <<loan, balance, txn, pc, jobs, configured, restarts>>

---------------------------------------------------------------------------
(* Settlement: the read of the rows, then the commit. *)

Read(s, p, kind, paid) ==
  /\ Idle(s)
  /\ jobs' = jobs \cup {[by |-> s, kind |-> kind, payout |-> p,
                         loan |-> loan[LoanOf[p]], paid |-> paid]}
  /\ UNCHANGED <<loan, balance, txn, pc, mpesa, configured, restarts>>

(* _find_b2c_txn: by ConversationID, else by OriginatorConversationID among  *)
(* the rows still open.                                                      *)
Matches(p) ==
  \/ txn[p].ref = "conversation"
  \/ txn[p].ack /\ txn[p].status \in Settleable

(* A result callback, first delivery or repeat, live or from the retry      *)
(* worker.  One that finds the row settled, or no row, changes nothing.     *)
ReadResult(s, p) ==
  /\ mpesa[p] \in {"paid", "declined"}
  /\ Matches(p) /\ txn[p].status \in Settleable
  /\ Read(s, p, "settle", mpesa[p] = "paid")

(* Seeded fault: a timeout notice is taken for a failed result. *)
ReadTimeoutFault(s, p) ==
  /\ mpesa[p] \in {"queued", "paid", "declined"}
  /\ Matches(p) /\ txn[p].status = "processing"
  /\ Read(s, p, "settle", FALSE)

(* A QueueTimeOutURL callback: only a `processing` row is marked. *)
ReadTimeout(s, p) ==
  /\ mpesa[p] \in {"queued", "paid", "declined"}
  /\ Matches(p) /\ txn[p].status = "processing"
  /\ Read(s, p, "timeout", FALSE)

(* The scheduler's sweep of a DCP, and the one by hand, without credentials    *)
(* play a successful result.                                                *)
ReadSweep(s, p) ==
  /\ ~configured
  /\ txn[p].status \in {"processing", "timed_out"}
  /\ Read(s, p, "settle", TRUE)

(* What the M-Pesa portal tells a person who looks (external): final once   *)
(* Safaricom has settled the request, "nothing here" if it never came.      *)
PortalShows(p, paid) ==
  IF paid THEN mpesa[p] \in {"paid", "simulated"}
          ELSE mpesa[p] \in {"none", "declined", "simulated"}

(* POST /payouts/{id}/resolve: any open payout, under its row lock. *)
ReadResolve(s, p) ==
  /\ txn[p].status \in OpenStates /\ RowFree(p)
  /\ EarlyResolve \/ pc[p] \notin InFlight
  /\ \E paid \in BOOLEAN : PortalShows(p, paid) /\ Read(s, p, "resolve", paid)

(* What a settlement makes of its row. *)
Settled(row, j) ==
  IF j.kind = "timeout" THEN [row EXCEPT !.status = "timed_out"]
  ELSE IF j.paid THEN [row EXCEPT !.status = "success", !.ref = "receipt"]
  ELSE [row EXCEPT !.status = "failed"]

(* Seeded fault: a result sets the loan without looking at its status, as   *)
(* if a payout still open were always that of a loan still in processing.   *)
CommitFault(j) ==
  LET l == LoanOf[j.payout]
  IN
  /\ \A k \in jobs : k # j /\ k.kind = "resolve" => k.payout # j.payout
  /\ jobs' = jobs \ {j}
  /\ txn' = [txn EXCEPT ![j.payout] = Settled(@, j)]
  /\ loan' = IF j.kind = "timeout" THEN loan
             ELSE [loan EXCEPT ![l] = IF j.paid THEN "active" ELSE "approved"]
  /\ balance' = IF j.kind # "timeout" /\ j.paid THEN [balance EXCEPT ![l] = Due] ELSE balance
  /\ UNCHANGED <<pc, mpesa, configured, restarts>>

(* apply_b2c_result and mark_b2c_timeout: what was decided at the read is   *)
(* what is written, whatever the rows say by now.                           *)
Commit(j) ==
  LET l == LoanOf[j.payout]
      ready == j.loan = "processing" /\ j.kind # "timeout"
  IN
  /\ \A k \in jobs : k # j /\ k.kind = "resolve" => k.payout # j.payout
  /\ jobs' = jobs \ {j}
  /\ txn' = [txn EXCEPT ![j.payout] = Settled(@, j)]
  /\ loan' = IF ready THEN [loan EXCEPT ![l] = IF j.paid THEN "active" ELSE "approved"]
                      ELSE loan
  /\ balance' = IF ready /\ j.paid THEN [balance EXCEPT ![l] = Due] ELSE balance
  /\ UNCHANGED <<pc, mpesa, configured, restarts>>

---------------------------------------------------------------------------
(* A repayment of an active loan, down to paid. *)
Repay(l) ==
  /\ loan[l] = "active"
  /\ balance' = [balance EXCEPT ![l] = @ - 1]
  /\ loan' = [loan EXCEPT ![l] = IF balance[l] = 1 THEN "paid" ELSE @]
  /\ UNCHANGED <<txn, pc, mpesa, jobs, configured, restarts>>

(* The process dies and comes back: running requests and settlements are    *)
(* gone, what was committed stays.                                          *)
Restart ==
  /\ restarts < MaxRestarts
  /\ restarts' = restarts + 1
  /\ pc' = [p \in Payouts |-> IF pc[p] = "checked" THEN "idle"
                              ELSE IF pc[p] \in InFlight THEN "done" ELSE pc[p]]
  /\ jobs' = {}
  /\ UNCHANGED <<loan, balance, txn, mpesa, configured>>

(* An administrator saves or removes the DCP's Daraja credentials, at any   *)
(* time or (a careful one) while no payout is pending.                      *)
ChangeCreds ==
  /\ \/ CredsChange = "any"
     \/ CredsChange = "idle" /\ jobs = {} /\ \A l \in Loans : ~Open(l)
  /\ configured' = ~configured
  /\ UNCHANGED <<loan, balance, txn, pc, mpesa, jobs, restarts>>

---------------------------------------------------------------------------
Handle(p) == \/ Check(p) \/ Reserve(p) \/ GiveUp(p)
             \/ Send(p) \/ SaveAccepted(p) \/ SaveRefused(p) \/ SaveUnknown(p)

Begin(s, p) == ReadResult(s, p) \/ ReadTimeout(s, p) \/ ReadSweep(s, p) \/ ReadResolve(s, p)

Next ==
  \/ \E p \in Payouts : Handle(p) \/ SafaricomSettles(p)
  \/ \E s \in Settlers, p \in Payouts : Begin(s, p)
  \/ \E j \in jobs : Commit(j)
  \/ \E l \in Loans : Repay(l)
  \/ Restart
  \/ ChangeCreds

Spec == Init /\ [][Next]_vars

(* A request that has saved its payout runs to its end, Safaricom settles   *)
(* what it queued, a settlement that has begun commits, and staff work      *)
(* through the payouts the reconcile report lists.  No callback is promised. *)
FairSpec ==
  /\ Spec
  /\ \A p \in Payouts :
       /\ WF_vars(Send(p)) /\ WF_vars(SaveAccepted(p))
       /\ WF_vars(SaveRefused(p)) /\ WF_vars(SaveUnknown(p))
       /\ WF_vars(SafaricomSettles(p))
       /\ WF_vars(\E s \in Settlers : ReadResolve(s, p))
  /\ \A s \in Settlers : WF_vars(\E j \in jobs : j.by = s /\ Commit(j))

---------------------------------------------------------------------------
(* The types of the rows and of what is in flight. *)
TypeOK ==
  /\ loan \in [Loans -> LoanStatus]
  /\ balance \in [Loans -> 0..Due]
  /\ txn \in [Payouts -> Txn]
  /\ pc \in [Payouts -> {"idle", "checked", "done"} \cup InFlight]
  /\ mpesa \in [Payouts -> {"none", "queued", "paid", "declined", "simulated"}]
  /\ jobs \subseteq Job
  /\ configured \in BOOLEAN
  /\ restarts \in 0..MaxRestarts

(* The transfers of a loan that reached the borrower, or count as if they had. *)
PaidOut(l) == {p \in Payouts : LoanOf[p] = l /\ (mpesa[p] = "paid" \/ txn[p].status = "success")}

(* WP5 (F06): Safaricom never holds a request of which no record survives,  *)
(* whatever crashes and whoever settles what.                               *)
DurableIntent ==
  \A p \in Payouts : mpesa[p] # "none" \/ pc[p] \notin {"idle", "checked"}
                       => txn[p].status # "none"

(* MPESA-03: a loan is paid out at most once, over any number of attempts,  *)
(* lost answers, crashes and manual resolutions.                            *)
NoDoublePayout == \A l \in Loans : \A p, q \in PaidOut(l) : p = q

(* MPESA-01: a loan is owed only if the money left, and a loan that may be  *)
(* paid out (again) has no transfer behind it.                              *)
LoanMatchesMoney ==
  \A l \in Loans :
    /\ loan[l] \in {"active", "paid"} => PaidOut(l) # {}
    /\ loan[l] = "approved" => PaidOut(l) = {} /\ ~Open(l)

(* A payout is on record as paid only if Safaricom paid it (or the sandbox  *)
(* simulated it), and as failed only if no money can still arrive.          *)
RecordIsTrue ==
  \A p \in Payouts :
    /\ txn[p].status = "success" => mpesa[p] \in {"paid", "simulated"}
    /\ txn[p].status = "failed" => mpesa[p] \in {"none", "declined", "simulated"}

(* A loan in repayment, with every settlement that had found it in          *)
(* `processing` over.  (While one of them is still under way, it may yet    *)
(* write the whole balance again: apply_b2c_result takes no lock.)          *)
InRepayment(l) ==
  /\ loan[l] \in {"active", "paid"}
  /\ \A j \in jobs : LoanOf[j.payout] = l => j.loan # "processing"

(* "A repeat delivery is a no-op": from there on nothing that is delivered  *)
(* again or late, swept or resolved by hand, by any number of threads, takes*)
(* the loan back or raises what is still owed - not even when a timeout     *)
(* notice that raced the result has reopened the payout's row.              *)
RepeatDeliveryIsNoOp ==
  [][\A l \in Loans : InRepayment(l) => InRepayment(l)' /\ balance'[l] <= balance[l]]_vars

(* A loan leaves `processing` in the end, with every callback lost. *)
PayoutDecided == \A l \in Loans : loan[l] = "processing" ~> loan[l] # "processing"

---------------------------------------------------------------------------
(* The inductive invariants of PayoutProofs.                               *)

(* An active loan still owes something: the last instalment closes it. *)
ActiveOwes == \A l \in Loans : loan[l] = "active" => balance[l] > 0

(* Where a request is tells what its row and Safaricom hold, as long as     *)
(* staff leave running requests alone.                                      *)
HandlerState ==
  \A p \in Payouts :
    /\ pc[p] \in {"idle", "checked"} => txn[p].status = "none"
    /\ pc[p] \in InFlight => txn[p].status = "initiated"
    /\ pc[p] \in {"idle", "checked", "saved", "refused"} => mpesa[p] = "none"
    /\ pc[p] = "accepted" => mpesa[p] # "none"
    /\ pc[p] # "done" => txn[p].ref = "null" /\ ~txn[p].ack
    /\ txn[p].status = "none" => mpesa[p] = "none"
    /\ txn[p].status \in {"processing", "timed_out"} => mpesa[p] # "none"

(* The payouts that a change of credentials could mistake. *)
Pending(p) == txn[p].status \in OpenStates \/ \E j \in jobs : j.payout = p

(* One set of credentials: every pending request is live, or every one simulated. *)
OneMode == \A p \in Payouts : Pending(p) =>
             mpesa[p] \in IF configured THEN {"none", "queued", "paid", "declined"}
                                        ELSE {"none", "simulated"}

(* A settlement under way works on a request that has ended, and what it is *)
(* about to write is, and stays, what Safaricom did.                        *)
JobsTruthful ==
  \A j \in jobs :
    /\ pc[j.payout] = "done"
    /\ txn[j.payout].status # "none"
    /\ j.kind = "timeout" => mpesa[j.payout] # "none"
    /\ j.kind # "timeout" => IF j.paid THEN mpesa[j.payout] \in {"paid", "simulated"}
                             ELSE mpesa[j.payout] \in {"none", "declined", "simulated"}

Live(p) == txn[p].status \in OpenStates \cup {"success"}

(* The loan's status and the rows of its payouts agree, one row at most     *)
(* being open or successful.                                                *)
OneLive ==
  /\ \A p, q \in Payouts : LoanOf[p] = LoanOf[q] /\ Live(p) /\ Live(q) => p = q
  /\ \A p \in Payouts :
       /\ txn[p].status \in OpenStates => loan[LoanOf[p]] = "processing"
       /\ txn[p].status = "success" => loan[LoanOf[p]] \in {"active", "paid"}
  /\ \A l \in Loans : loan[l] # "approved" => \E p \in Payouts : LoanOf[p] = l /\ Live(p)

(* Settled one at a time, what a settlement read is what is still there. *)
JobsFresh ==
  /\ \A j, k \in jobs : j = k
  /\ \A j \in jobs : txn[j.payout].status \in OpenStates /\ j.loan = "processing"

(* The conditions under which the theorems that need them are stated. *)
Serial   == \A s, t \in Settlers : s = t
Careful  == ~EarlyResolve /\ CredsChange # "any"

RecordInv == TypeOK /\ ActiveOwes /\ HandlerState /\ OneMode /\ JobsTruthful /\ RecordIsTrue
SerialInv == RecordInv /\ OneLive /\ JobsFresh

(* The promise: see PayoutPromise. *)
Promise == INSTANCE PayoutPromise WITH paid <- [l \in Loans |-> PaidOut(l)]
PromiseSpec == Promise!Spec
===========================================================================
