------------------------------ MODULE Suspense ------------------------------
(***************************************************************************)
(* Money that fits no loan waits in a suspense entry until a second person *)
(* approves what a first one asks for: to allocate it to a loan, to refund *)
(* it by B2C, or to have Safaricom reverse the payment (routers/approvals  *)
(* .py, services/payment_approvals.py).  Refunds of a loan's overpayment   *)
(* take the same way without an entry.                                     *)
(*                                                                         *)
(* An action is one database transaction or one call to Safaricom.  A      *)
(* refund is three of them, the first of which releases the lock of the    *)
(* request it decides; a reversal is one, around the call.                 *)
(***************************************************************************)
EXTENDS Naturals, FiniteSets

CONSTANTS
  Entries,        \* suspense entries
  Requests,       \* PendingApproval rows makers may raise
  EntryOf,        \* the entry a request is about, NoEntry for a loan's overpayment
  NoEntry,
  Transfers,      \* the times a request may be executed: refunds and reversals
  RequestOf,      \* the request each of them executes
  Reversible,     \* entries that hold a whole paybill receipt
  Excess,         \* the overpayment of the loan, in the amounts of one request
  Settlers,       \* the threads that can settle transfers at the same time
  EarlyResolve,   \* may staff resolve a refund whose request is still running?
  LostReversals,  \* may a reversal Safaricom has taken be answered with an error?
  MaxRestarts     \* how often the process restarts (bound)

ASSUME SuspenseAssumption ==
  /\ NoEntry \notin Entries
  /\ EntryOf \in [Requests -> Entries \cup {NoEntry}]
  /\ RequestOf \in [Transfers -> Requests]
  /\ IsFiniteSet(Transfers)
  /\ Reversible \subseteq Entries
  /\ Excess \in Nat /\ MaxRestarts \in Nat
  /\ EarlyResolve \in BOOLEAN /\ LostReversals \in BOOLEAN

VARIABLES
  entry,          \* SuspenseEntry.status
  booked,         \* how often the entry has become a repayment
  request,        \* the PendingApproval rows: status and action_type
  transfer,       \* the PaymentTransaction rows: status, ConversationID saved?
  pc,             \* where the approval that executes the transfer is
  mpesa,          \* what Safaricom has done with the transfer
  jobs,           \* settlements that have read their rows and not committed
  configured,     \* are there Daraja credentials?
  restarts

vars == <<entry, booked, request, transfer, pc, mpesa, jobs, configured, restarts>>

---------------------------------------------------------------------------
EntryStatus == {"open", "pending_approval", "allocated", "refund_processing", "refunded",
                "reversal_pending", "reversed"}
Kinds       == {"allocate", "refund", "reversal", "loan"}
OpenStates  == {"initiated", "processing", "timed_out", "uncertain"}
Settleable  == {"processing", "timed_out", "uncertain"}
Refunding   == {"saved", "accepted", "refused", "unknown"}

(* A reversal holds the locks of its request and its entry for this long. *)
Reversing   == {"asked", "denied"}

Request  == [status : {"none", "pending", "approved", "rejected"}, kind : Kinds \cup {"none"}]
Transfer == [status : {"none", "success", "failed"} \cup OpenStates, ack : BOOLEAN]
Job      == [by : Settlers, kind : {"settle", "timeout", "resolve"}, transfer : Transfers,
             paid : BOOLEAN]

Source(t) == EntryOf[RequestOf[t]]
Kind(t)   == request[RequestOf[t]].kind

EntryFree(e)   == \A t \in Transfers : Source(t) = e => pc[t] \notin Reversing
RequestFree(q) == \A t \in Transfers : RequestOf[t] = q => pc[t] \notin Reversing
RowFree(t)     == \A j \in jobs : j.kind = "resolve" => j.transfer # t

Idle(s) == \A j \in jobs : j.by # s

Init ==
  /\ entry = [e \in Entries |-> "open"]
  /\ booked = [e \in Entries |-> 0]
  /\ request = [q \in Requests |-> [status |-> "none", kind |-> "none"]]
  /\ transfer = [t \in Transfers |-> [status |-> "none", ack |-> FALSE]]
  /\ pc = [t \in Transfers |-> "idle"]
  /\ mpesa = [t \in Transfers |-> "none"]
  /\ jobs = {}
  /\ configured \in BOOLEAN
  /\ restarts = 0

---------------------------------------------------------------------------
(* The maker *)

(* park_suspense_allocation, _refund, _reversal: an open entry is held for  *)
(* the checker.  Any other entry is "already_resolved" and stays as it is.  *)
Park(q, kind) ==
  LET e == EntryOf[q] IN
  /\ e # NoEntry /\ request[q].status = "none"
  /\ entry[e] = "open" /\ EntryFree(e)
  /\ kind = "reversal" => e \in Reversible
  /\ entry' = [entry EXCEPT ![e] = "pending_approval"]
  /\ request' = [request EXCEPT ![q] = [status |-> "pending", kind |-> kind]]
  /\ UNCHANGED <<booked, transfer, pc, mpesa, jobs, configured, restarts>>

(* allocate_entry, with or without an approval before it. *)
BookTo(e) ==
  /\ entry' = [entry EXCEPT ![e] = "allocated"]
  /\ booked' = [booked EXCEPT ![e] = @ + 1]
  /\ UNCHANGED <<transfer, pc, mpesa, jobs, configured, restarts>>

(* An allocation at or under the DCP's threshold needs no second person. *)
Allocate(e) ==
  /\ entry[e] = "open" /\ EntryFree(e)
  /\ BookTo(e) /\ UNCHANGED request

(* The loan refunds sent and not failed, and those waiting for approval. *)
SentRefunds == {t \in Transfers : Source(t) = NoEntry
                                  /\ transfer[t].status \in OpenStates \cup {"success"}}
AwaitedRefunds == {q \in Requests : EntryOf[q] = NoEntry /\ request[q].status = "pending"}

(* POST /refund, under the loan's lock. *)
RaiseLoanRefund(q) ==
  /\ EntryOf[q] = NoEntry /\ request[q].status = "none"
  /\ Cardinality(SentRefunds) + Cardinality(AwaitedRefunds) < Excess
  /\ request' = [request EXCEPT ![q] = [status |-> "pending", kind |-> "loan"]]
  /\ UNCHANGED <<entry, booked, transfer, pc, mpesa, jobs, configured, restarts>>

---------------------------------------------------------------------------
(* The checker: decide_pending_action.  Only a pending request, and only an *)
(* entry that is pending_approval; the others are refused (404, 409).       *)

Awaiting(q) == request[q].status = "pending" /\ RequestFree(q)
Held(e)     == entry[e] = "pending_approval" /\ EntryFree(e)

Decide(q, status) == request' = [request EXCEPT ![q].status = status]

Reject(q) ==
  /\ Awaiting(q)
  /\ Decide(q, "rejected")
  /\ IF EntryOf[q] = NoEntry THEN UNCHANGED entry
     ELSE /\ EntryFree(EntryOf[q])
          /\ entry' = [entry EXCEPT ![EntryOf[q]] = IF @ = "pending_approval" THEN "open" ELSE @]
  /\ UNCHANGED <<booked, transfer, pc, mpesa, jobs, configured, restarts>>

ApproveAllocation(q) ==
  /\ Awaiting(q) /\ request[q].kind = "allocate" /\ Held(EntryOf[q])
  /\ Decide(q, "approved")
  /\ BookTo(EntryOf[q])

(* execute_refund, step 1: the row is saved and committed, which lets go of  *)
(* the locks of the request and the entry.  The request is still pending.   *)
SaveIntent(t) ==
  /\ pc[t] = "idle"
  /\ transfer' = [transfer EXCEPT ![t].status = "initiated"]
  /\ pc' = [pc EXCEPT ![t] = "saved"]
  /\ UNCHANGED <<booked, request, mpesa, jobs, configured, restarts>>

ApproveRefund(t) ==
  /\ Awaiting(RequestOf[t]) /\ Kind(t) = "refund" /\ Held(Source(t))
  /\ entry' = [entry EXCEPT ![Source(t)] = "refund_processing"]
  /\ SaveIntent(t)

(* Seeded fault: what is still refundable is not looked at again. *)
ApproveLoanRefundFault(t) ==
  /\ Awaiting(RequestOf[t]) /\ Kind(t) = "loan"
  /\ SaveIntent(t) /\ UNCHANGED entry

(* refundable_overpayment is computed again, under the loan's lock. *)
ApproveLoanRefund(t) ==
  /\ Awaiting(RequestOf[t]) /\ Kind(t) = "loan"
  /\ Cardinality(SentRefunds) < Excess
  /\ SaveIntent(t) /\ UNCHANGED entry

(* Step 2, _send_b2c: accepted, definitely refused, or nobody knows. *)
Send(t) ==
  /\ pc[t] = "saved"
  /\ \E outcome \in {"accepted", "refused", "unknown"},
        taken \in {"none", "queued", "simulated"} :
       /\ outcome = "accepted" => taken # "none"
       /\ outcome = "refused" => taken = "none"
       /\ taken = "simulated" => outcome = "accepted"
       /\ IF configured THEN taken # "simulated"
                        ELSE taken # "queued" /\ outcome # "unknown"
       /\ pc' = [pc EXCEPT ![t] = outcome]
       /\ mpesa' = [mpesa EXCEPT ![t] = taken]
  /\ UNCHANGED <<entry, booked, request, transfer, jobs, configured, restarts>>

(* The entry of a refund that came to nothing. *)
Reopened(e) ==
  IF e = NoEntry THEN entry
  ELSE [entry EXCEPT ![e] = IF @ \in {"refund_processing", "pending_approval"} THEN "open" ELSE @]

Closed(e, status) == IF e = NoEntry THEN entry ELSE [entry EXCEPT ![e] = status]

(* Step 3: the outcome.  Only an accepted refund settles the request, what- *)
(* ever has become of it meanwhile; a simulated one is settled at once.     *)
SaveAccepted(t) ==
  /\ pc[t] = "accepted" /\ RowFree(t)
  /\ IF mpesa[t] = "simulated"
       THEN /\ EntryFree(Source(t))
            /\ transfer' = [transfer EXCEPT ![t] = [status |-> "success", ack |-> TRUE]]
            /\ entry' = Closed(Source(t), "refunded")
       ELSE /\ transfer' = [transfer EXCEPT ![t] = [status |-> "processing", ack |-> TRUE]]
            /\ UNCHANGED entry
  /\ Decide(RequestOf[t], "approved")
  /\ pc' = [pc EXCEPT ![t] = "done"]
  /\ UNCHANGED <<booked, mpesa, jobs, configured, restarts>>

SaveRefused(t) ==
  /\ pc[t] = "refused" /\ RowFree(t) /\ EntryFree(Source(t))
  /\ transfer' = [transfer EXCEPT ![t].status = "failed"]
  /\ entry' = Reopened(Source(t))
  /\ pc' = [pc EXCEPT ![t] = "done"]
  /\ UNCHANGED <<booked, request, mpesa, jobs, configured, restarts>>

(* Seeded fault: an unknown outcome is taken for a refusal. *)
SaveUnknownFault(t) ==
  /\ pc[t] = "unknown" /\ RowFree(t) /\ EntryFree(Source(t))
  /\ transfer' = [transfer EXCEPT ![t].status = "failed"]
  /\ entry' = Reopened(Source(t))
  /\ pc' = [pc EXCEPT ![t] = "done"]
  /\ UNCHANGED <<booked, request, mpesa, jobs, configured, restarts>>

SaveUnknown(t) ==
  /\ pc[t] = "unknown" /\ RowFree(t)
  /\ transfer' = [transfer EXCEPT ![t].status = "uncertain"]
  /\ pc' = [pc EXCEPT ![t] = "done"]
  /\ UNCHANGED <<entry, booked, request, mpesa, jobs, configured, restarts>>

(* What asking for a reversal comes to: production without credentials asks *)
(* nothing, the sandbox without them gets an acknowledgement.               *)
simulate_reversal_accept(answer, taken) == answer = "asked" /\ taken = "simulated"

reversal_request(answer, taken) ==
  IF configured
  THEN \/ answer = "asked" /\ taken = "queued"
       \/ answer = "denied" /\ (taken = "none" \/ (LostReversals /\ taken = "queued"))
  ELSE \/ answer = "denied" /\ taken = "none"
       \/ simulate_reversal_accept(answer, taken)

(* _execute_reversal: Safaricom is called before anything is saved.  Every   *)
(* error, lost answers among them, is "did not accept".                     *)
AskReversal(t) ==
  /\ pc[t] = "idle"
  /\ Awaiting(RequestOf[t]) /\ Kind(t) = "reversal" /\ Held(Source(t))
  /\ \E answer \in Reversing, taken \in {"none", "queued", "simulated"} :
       /\ reversal_request(answer, taken)
       /\ pc' = [pc EXCEPT ![t] = answer]
       /\ mpesa' = [mpesa EXCEPT ![t] = taken]
  /\ UNCHANGED <<entry, booked, request, transfer, jobs, configured, restarts>>

(* The result that the sandbox makes up is always a success. *)
simulate_reversal_result == [status |-> "success", ack |-> TRUE]

SaveReversal(t) ==
  /\ pc[t] = "asked"
  /\ IF mpesa[t] = "simulated"
       THEN /\ transfer' = [transfer EXCEPT ![t] = simulate_reversal_result]
            /\ entry' = [entry EXCEPT ![Source(t)] = "reversed"]
       ELSE /\ transfer' = [transfer EXCEPT ![t] = [status |-> "processing", ack |-> TRUE]]
            /\ entry' = [entry EXCEPT ![Source(t)] = "reversal_pending"]
  /\ Decide(RequestOf[t], "approved")
  /\ pc' = [pc EXCEPT ![t] = "done"]
  /\ UNCHANGED <<booked, mpesa, jobs, configured, restarts>>

(* 502, 422: the transaction is rolled back. *)
DropReversal(t) ==
  /\ pc[t] = "denied"
  /\ pc' = [pc EXCEPT ![t] = "done"]
  /\ UNCHANGED <<entry, booked, request, transfer, mpesa, jobs, configured, restarts>>

---------------------------------------------------------------------------
(* Safaricom (external): a queued transfer is paid or declined. *)
SafaricomSettles(t) ==
  /\ mpesa[t] = "queued"
  /\ \E outcome \in {"paid", "declined"} : mpesa' = [mpesa EXCEPT ![t] = outcome]
  /\ UNCHANGED <<entry, booked, request, transfer, pc, jobs, configured, restarts>>

Read(s, t, kind, paid) ==
  /\ Idle(s)
  /\ jobs' = jobs \cup {[by |-> s, kind |-> kind, transfer |-> t, paid |-> paid]}
  /\ UNCHANGED <<entry, booked, request, transfer, pc, mpesa, configured, restarts>>

(* Seeded fault: a repeated result is applied again. *)
ReadResultFault(s, t) ==
  /\ mpesa[t] \in {"paid", "declined"}
  /\ transfer[t].ack
  /\ Read(s, t, "settle", mpesa[t] = "paid")

(* The result of a refund or a reversal, first delivery or repeat. *)
ReadResult(s, t) ==
  /\ mpesa[t] \in {"paid", "declined"}
  /\ transfer[t].ack /\ transfer[t].status \in Settleable
  /\ Read(s, t, "settle", mpesa[t] = "paid")

(* Seeded fault: a timeout notice is taken for a failed result. *)
ReadTimeoutFault(s, t) ==
  /\ mpesa[t] \in {"queued", "paid", "declined"}
  /\ transfer[t].ack /\ transfer[t].status = "processing"
  /\ Read(s, t, "settle", FALSE)

ReadTimeout(s, t) ==
  /\ mpesa[t] \in {"queued", "paid", "declined"}
  /\ transfer[t].ack /\ transfer[t].status = "processing"
  /\ Read(s, t, "timeout", FALSE)

(* What the M-Pesa portal tells a person who looks (external). *)
PortalShows(t, paid) ==
  IF paid THEN mpesa[t] \in {"paid", "simulated"}
          ELSE mpesa[t] \in {"none", "declined", "simulated"}

(* POST /payouts/{id}/resolve takes refunds, and no reversals. *)
ReadResolve(s, t) ==
  /\ Kind(t) # "reversal"
  /\ transfer[t].status \in OpenStates /\ RowFree(t)
  /\ EarlyResolve \/ pc[t] \notin Refunding
  /\ \E paid \in BOOLEAN : PortalShows(t, paid) /\ Read(s, t, "resolve", paid)

(* Seeded fault: a reversal that took the money opens its entry. *)
SettledEntryFault(j) ==
  LET e == Source(j.transfer)
      reversal == Kind(j.transfer) = "reversal"
  IN IF j.kind = "timeout" THEN entry
     ELSE IF j.paid THEN Closed(e, IF reversal THEN "open" ELSE "refunded")
     ELSE IF reversal THEN Closed(e, "open") ELSE Reopened(e)

(* apply_reversal_result reopens the entry whatever it is by now,           *)
(* apply_refund_result only one that is still being refunded.               *)
SettledEntry(j) ==
  LET e == Source(j.transfer)
      reversal == Kind(j.transfer) = "reversal"
  IN IF j.kind = "timeout" THEN entry
     ELSE IF j.paid THEN Closed(e, IF reversal THEN "reversed" ELSE "refunded")
     ELSE IF reversal THEN Closed(e, "open") ELSE Reopened(e)

Commit(j) ==
  /\ \A k \in jobs : k # j /\ k.kind = "resolve" => k.transfer # j.transfer
  /\ j.kind # "timeout" => EntryFree(Source(j.transfer))
  /\ jobs' = jobs \ {j}
  /\ transfer' = [transfer EXCEPT ![j.transfer].status =
                    IF j.kind = "timeout" THEN "timed_out"
                    ELSE IF j.paid THEN "success" ELSE "failed"]
  /\ entry' = SettledEntry(j)
  /\ UNCHANGED <<booked, request, pc, mpesa, configured, restarts>>

(* The process dies and comes back: what is not committed is gone. *)
Restart ==
  /\ restarts < MaxRestarts
  /\ LostReversals \/ \A t \in Transfers : pc[t] # "asked"
  /\ restarts' = restarts + 1
  /\ pc' = [t \in Transfers |-> IF pc[t] = "idle" THEN "idle" ELSE "done"]
  /\ jobs' = {}
  /\ UNCHANGED <<entry, booked, request, transfer, mpesa, configured>>

---------------------------------------------------------------------------
Make == \E q \in Requests : RaiseLoanRefund(q) \/ \E kind \in Kinds \ {"loan"} : Park(q, kind)

Execute(t) ==
  \/ ApproveRefund(t) \/ ApproveLoanRefund(t) \/ Send(t)
  \/ SaveAccepted(t) \/ SaveRefused(t) \/ SaveUnknown(t)
  \/ AskReversal(t) \/ SaveReversal(t) \/ DropReversal(t)

Begin(s, t) == ReadResult(s, t) \/ ReadTimeout(s, t) \/ ReadResolve(s, t)

Next ==
  \/ Make
  \/ \E e \in Entries : Allocate(e)
  \/ \E q \in Requests : Reject(q) \/ ApproveAllocation(q)
  \/ \E t \in Transfers : Execute(t) \/ SafaricomSettles(t)
  \/ \E s \in Settlers, t \in Transfers : Begin(s, t)
  \/ \E j \in jobs : Commit(j)
  \/ Restart

Spec == Init /\ [][Next]_vars

---------------------------------------------------------------------------
(* The types of the rows and of what is in flight. *)
TypeOK ==
  /\ entry \in [Entries -> EntryStatus]
  /\ booked \in [Entries -> Nat]
  /\ request \in [Requests -> Request]
  /\ transfer \in [Transfers -> Transfer]
  /\ pc \in [Transfers -> {"idle", "done"} \cup Refunding \cup Reversing]
  /\ mpesa \in [Transfers -> {"none", "queued", "paid", "declined", "simulated"}]
  /\ jobs \subseteq Job
  /\ configured \in BOOLEAN
  /\ restarts \in 0..MaxRestarts

(* The transfers that reached the payer, or count as if they had. *)
Moved(t) == mpesa[t] = "paid" \/ transfer[t].status = "success"

PaidBack(e) == {t \in Transfers : Source(t) = e /\ Moved(t)}

(* "so it cannot be allocated or refunded twice meanwhile", "to avoid paying *)
(* twice": the money of an entry becomes a repayment, a refund or a reversal *)
(* once, over repeated requests, refusals, lost answers and crashes.        *)
LeavesOnce ==
  \A e \in Entries :
    /\ booked[e] <= 1
    /\ booked[e] = 1 => PaidBack(e) = {}
    /\ \A t, u \in PaidBack(e) : t = u

(* An entry says where its money is: one that may be dealt with again still *)
(* has all of it, one that is resolved has none.                            *)
EntryMatchesMoney ==
  \A e \in Entries :
    /\ entry[e] \in {"open", "pending_approval"} =>
         booked[e] = 0 /\ \A t \in PaidBack(e) : pc[t] = "asked"
    /\ entry[e] = "allocated" => booked[e] = 1
    /\ entry[e] \in {"refunded", "reversed"} => PaidBack(e) # {}

(* F07: however many refunds of a loan's overpayment are asked for, approved *)
(* twice or retried, no more than the overpayment leaves.                   *)
RefundsWithinExcess == Cardinality({t \in Transfers : Source(t) = NoEntry /\ Moved(t)}) <= Excess

(* An entry that is resolved stays as it is. *)
ResolvedIsFinal ==
  [][\A e \in Entries : entry[e] \in {"allocated", "refunded", "reversed"} =>
       entry'[e] = entry[e] /\ booked'[e] = booked[e]]_vars

(* "Two checkers clicking Approve at once must not both execute": a request *)
(* moves money once.                                                        *)
ExecutedOnce ==
  \A t, u \in Transfers : RequestOf[t] = RequestOf[u] /\ Moved(t) /\ Moved(u) => t = u

---------------------------------------------------------------------------
(* The inductive invariant of SuspenseProofs.                              *)

(* Where an approval is tells what its row and Safaricom hold. *)
HandlerState ==
  \A t \in Transfers :
    /\ pc[t] \in {"idle"} \cup Reversing => transfer[t].status = "none"
    /\ pc[t] \in Refunding => transfer[t].status = "initiated"
    /\ pc[t] # "done" => ~transfer[t].ack
    /\ pc[t] \in {"idle", "saved", "refused", "denied"} => mpesa[t] = "none"
    /\ pc[t] \in {"accepted", "asked"} => mpesa[t] # "none"
    /\ transfer[t].status = "none" /\ pc[t] # "asked" => mpesa[t] = "none"
    /\ transfer[t].status = "processing" => mpesa[t] # "none"

(* What a request asks for is what its transfers do. *)
KindState ==
  /\ \A q \in Requests :
       /\ request[q].status = "none" <=> request[q].kind = "none"
       /\ request[q].kind # "none" => (request[q].kind = "loan" <=> EntryOf[q] = NoEntry)
  /\ \A t \in Transfers :
       /\ pc[t] \in Refunding => Kind(t) \in {"refund", "loan"}
       /\ pc[t] \in Reversing => Kind(t) = "reversal"
       /\ transfer[t].status # "none" => Kind(t) \in {"refund", "reversal", "loan"}

(* What the records say of a transfer is true. *)
RecordIsTrue ==
  \A t \in Transfers :
    /\ transfer[t].status = "success" => mpesa[t] \in {"paid", "simulated"}
    /\ transfer[t].status = "failed" => mpesa[t] \in {"none", "declined", "simulated"}

(* The one settlement under way works on a transfer that is still open,     *)
(* whose approval has ended, and writes what Safaricom did.                 *)
JobsFresh ==
  /\ \A j, k \in jobs : j = k
  /\ \A j \in jobs :
       /\ pc[j.transfer] = "done"
       /\ transfer[j.transfer].status \in OpenStates
       /\ j.kind = "timeout" => mpesa[j.transfer] # "none"
       /\ j.kind # "timeout" => IF j.paid THEN mpesa[j.transfer] \in {"paid", "simulated"}
                                ELSE mpesa[j.transfer] \in {"none", "declined", "simulated"}

(* A transfer that has taken, or may take, the money of its source. *)
Live(t) == transfer[t].status \in OpenStates \cup {"success"} \/ pc[t] \in Reversing

(* The entry says what its transfers do, and one of them at most is live. *)
EntryState ==
  /\ \A t \in Transfers : Source(t) # NoEntry =>
       /\ transfer[t].status \in OpenStates =>
            entry[Source(t)] = IF Kind(t) = "reversal" THEN "reversal_pending"
                                                      ELSE "refund_processing"
       /\ transfer[t].status = "success" =>
            entry[Source(t)] = IF Kind(t) = "reversal" THEN "reversed" ELSE "refunded"
       /\ pc[t] \in Reversing => entry[Source(t)] = "pending_approval"
  /\ \A t, u \in Transfers : Source(t) # NoEntry /\ Source(t) = Source(u) /\ Live(t) /\ Live(u)
                               => t = u
  /\ \A e \in Entries : /\ booked[e] = (IF entry[e] = "allocated" THEN 1 ELSE 0)
                        /\ entry[e] \in {"refunded", "reversed"} => PaidBack(e) # {}

(* The conditions under which the theorems that need them are stated. *)
Serial  == \A s, t \in Settlers : s = t
Careful == ~EarlyResolve /\ ~LostReversals

SuspenseInv == TypeOK /\ HandlerState /\ KindState /\ RecordIsTrue /\ JobsFresh /\ EntryState
               /\ Cardinality(SentRefunds) <= Excess
=============================================================================
