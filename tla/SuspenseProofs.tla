--------------------------- MODULE SuspenseProofs ---------------------------
(***************************************************************************)
(* Theorems about Suspense, for any entries, requests, transfers, threads  *)
(* and bounds.                                                             *)
(***************************************************************************)
EXTENDS Suspense, FiniteSetTheorems, TLAPS

USE DEF EntryStatus, Kinds, OpenStates, Settleable, Refunding, Reversing

LEMMA SourceType ==
  /\ \A t \in Transfers : RequestOf[t] \in Requests /\ Source(t) \in Entries \cup {NoEntry}
  /\ \A q \in Requests : EntryOf[q] \in Entries \cup {NoEntry}
  /\ NoEntry \notin Entries
  BY SuspenseAssumption DEF Source

(* Requests about an entry never become requests about a loan. *)
LEMMA KindSource ==
  ASSUME KindState, NEW t \in Transfers, Kind(t) # "none"
  PROVE  Kind(t) = "loan" <=> Source(t) = NoEntry
  BY SourceType DEF KindState, Kind, Source

LEMMA ReopenedType ==
  ASSUME entry \in [Entries -> EntryStatus], NEW e
  PROVE  Reopened(e) \in [Entries -> EntryStatus]
  BY DEF Reopened

LEMMA ClosedType ==
  ASSUME entry \in [Entries -> EntryStatus], NEW e, NEW s \in EntryStatus
  PROVE  Closed(e, s) \in [Entries -> EntryStatus]
  BY DEF Closed

LEMMA DecideType ==
  ASSUME request \in [Requests -> Request], NEW q \in Requests,
         NEW status \in {"approved", "rejected"}, Decide(q, status)
  PROVE  request' \in [Requests -> Request]
  <1>1. [request[q] EXCEPT !.status = status] \in Request
    BY DEF Request
  <1>2. QED BY <1>1 DEF Decide

LEMMA BookType ==
  ASSUME entry \in [Entries -> EntryStatus], booked \in [Entries -> Nat], NEW e, BookTo(e)
  PROVE  entry' \in [Entries -> EntryStatus] /\ booked' \in [Entries -> Nat]
  <1>1. CASE e \in Entries
    BY <1>1 DEF BookTo
  <1>2. CASE e \notin Entries
    <2>1. entry' = entry /\ booked' = booked
      BY <1>2 DEF BookTo
    <2>2. QED BY <2>1
  <1>3. QED BY <1>1, <1>2

LEMMA SavedType ==
  ASSUME transfer \in [Transfers -> Transfer], NEW t \in Transfers,
         NEW status \in {"success", "processing"}
  PROVE  [transfer EXCEPT ![t] = [status |-> status, ack |-> TRUE]] \in [Transfers -> Transfer]
  BY DEF Transfer

LEMMA StatusType ==
  ASSUME transfer \in [Transfers -> Transfer], NEW t \in Transfers,
         NEW status \in {"success", "failed"} \cup OpenStates
  PROVE  [transfer EXCEPT ![t].status = status] \in [Transfers -> Transfer]
  <1>1. [transfer[t] EXCEPT !.status = status] \in Transfer
    BY DEF Transfer
  <1>2. QED BY <1>1

---------------------------------------------------------------------------
LEMMA TypeStep == TypeOK /\ [Next]_vars => TypeOK'
  <1> SUFFICES ASSUME TypeOK, [Next]_vars PROVE TypeOK'
    OBVIOUS
  <1> USE SourceType, SuspenseAssumption DEF TypeOK
  <1>1. ASSUME NEW q \in Requests, NEW kind \in Kinds \ {"loan"}, Park(q, kind) PROVE TypeOK'
    BY <1>1 DEF Park, Request
  <1>2. ASSUME NEW q \in Requests, RaiseLoanRefund(q) PROVE TypeOK'
    BY <1>2 DEF RaiseLoanRefund, Request
  <1>3. ASSUME NEW e \in Entries, Allocate(e) PROVE TypeOK'
    BY <1>3 DEF Allocate, BookTo
  <1>4. ASSUME NEW q \in Requests, Reject(q) PROVE TypeOK'
    BY <1>4, DecideType DEF Reject
  <1>5. ASSUME NEW q \in Requests, ApproveAllocation(q) PROVE TypeOK'
    <2>1. request' \in [Requests -> Request]
      BY <1>5, DecideType DEF ApproveAllocation
    <2>2. entry' \in [Entries -> EntryStatus] /\ booked' \in [Entries -> Nat]
      BY <1>5, BookType DEF ApproveAllocation
    <2>3. QED BY <1>5, <2>1, <2>2 DEF ApproveAllocation, BookTo
  <1>6. ASSUME NEW t \in Transfers, Execute(t) PROVE TypeOK'
    <2>1. CASE ApproveRefund(t) \/ ApproveLoanRefund(t)
      <3>1. SaveIntent(t) /\ entry' \in [Entries -> EntryStatus]
        BY <2>1 DEF ApproveRefund, ApproveLoanRefund
      <3>2. transfer' \in [Transfers -> Transfer]
        BY <3>1, StatusType DEF SaveIntent
      <3>3. QED BY <3>1, <3>2 DEF SaveIntent
    <2>2. CASE Send(t)
      BY <2>2 DEF Send
    <2>3. CASE SaveAccepted(t)
      <3>1. request' \in [Requests -> Request]
        BY <2>3, DecideType DEF SaveAccepted
      <3>2. entry' \in [Entries -> EntryStatus]
        BY <2>3, ClosedType DEF SaveAccepted
      <3>3. PICK status \in {"success", "processing"} :
              transfer' = [transfer EXCEPT ![t] = [status |-> status, ack |-> TRUE]]
        BY <2>3 DEF SaveAccepted
      <3>4. transfer' \in [Transfers -> Transfer]
        BY <3>3, SavedType
      <3>5. QED BY <2>3, <3>1, <3>2, <3>4 DEF SaveAccepted
    <2>4. CASE SaveRefused(t)
      BY <2>4, ReopenedType, StatusType DEF SaveRefused
    <2>5. CASE SaveUnknown(t)
      BY <2>5, StatusType DEF SaveUnknown
    <2>6. CASE AskReversal(t)
      BY <2>6 DEF AskReversal, reversal_request, simulate_reversal_accept
    <2>7. CASE SaveReversal(t)
      <3>1. request' \in [Requests -> Request]
        BY <2>7, DecideType DEF SaveReversal, simulate_reversal_result
      <3>2. PICK status \in {"success", "processing"} :
              transfer' = [transfer EXCEPT ![t] = [status |-> status, ack |-> TRUE]]
        BY <2>7 DEF SaveReversal, simulate_reversal_result
      <3>3. transfer' \in [Transfers -> Transfer]
        BY <3>2, SavedType
      <3>4. QED BY <2>7, <3>1, <3>3 DEF SaveReversal, simulate_reversal_result
    <2>8. CASE DropReversal(t)
      BY <2>8 DEF DropReversal
    <2>9. QED BY <1>6, <2>1, <2>2, <2>3, <2>4, <2>5, <2>6, <2>7, <2>8 DEF Execute
  <1>7. ASSUME NEW t \in Transfers, SafaricomSettles(t) PROVE TypeOK'
    BY <1>7 DEF SafaricomSettles
  <1>8. ASSUME NEW s \in Settlers, NEW t \in Transfers, Begin(s, t) PROVE TypeOK'
    <2>1. \E kind \in {"settle", "timeout", "resolve"}, paid \in BOOLEAN : Read(s, t, kind, paid)
      BY <1>8 DEF Begin, ReadResult, ReadTimeout, ReadResolve
    <2>2. QED BY <2>1 DEF Read, Job
  <1>9. ASSUME NEW j \in jobs, Commit(j) PROVE TypeOK'
    <2>1. entry' \in [Entries -> EntryStatus]
      BY <1>9, ReopenedType, ClosedType DEF Commit, SettledEntry
    <2>2. transfer' \in [Transfers -> Transfer]
      BY <1>9, StatusType DEF Commit, Job
    <2>3. QED BY <1>9, <2>1, <2>2 DEF Commit
  <1>10. CASE Restart
    BY <1>10 DEF Restart
  <1>11. CASE UNCHANGED vars
    BY <1>11 DEF vars
  <1>12. QED BY <1>1, <1>2, <1>3, <1>4, <1>5, <1>6, <1>7, <1>8, <1>9, <1>10, <1>11 DEF Next, Make

(* Type correctness, whatever races with what. *)
THEOREM TypeCorrect == Spec => []TypeOK
  <1>1. Init => TypeOK
    BY SuspenseAssumption DEF Init, TypeOK, Request, Transfer
  <1>2. QED BY <1>1, TypeStep, PTL DEF Spec
---------------------------------------------------------------------------
(* The inductive invariant, all of it but the count of loan refunds, one    *)
(* lemma per kind of step.                                                  *)

Core == HandlerState /\ KindState /\ RecordIsTrue /\ JobsFresh /\ EntryState

LEMMA CoreInit == ASSUME Init PROVE Core
  BY SourceType DEF Init, Core, HandlerState, KindState, RecordIsTrue, JobsFresh, EntryState, Live, Kind

(* A decision changes the status of a request and not what it asks for. *)
LEMMA DecideKeepsKinds ==
  ASSUME TypeOK, KindState, NEW q \in Requests, NEW status \in {"approved", "rejected"},
         request[q].status = "pending", Decide(q, status)
  PROVE  /\ \A t \in Transfers : Kind(t)' = Kind(t)
         /\ \A r \in Requests : /\ request'[r].kind = request[r].kind
                                /\ request'[r].status = "none" <=> request'[r].kind = "none"
  BY SourceType DEF Decide, TypeOK, Request, Kind, KindState

LEMMA ParkStep ==
  ASSUME TypeOK, Core, NEW q \in Requests, NEW kind \in Kinds \ {"loan"}, Park(q, kind)
  PROVE  Core'
  <1> USE SourceType DEF Core, TypeOK, Request, Transfer, Park
  <1>1. \A t \in Transfers : RequestOf[t] = q =>
          pc[t] \notin Refunding \cup Reversing /\ transfer[t].status = "none"
    BY DEF KindState, Kind
  <1>2. \A t \in Transfers : RequestOf[t] # q => Kind(t)' = Kind(t)
    BY DEF Kind
  <1>3. \A t \in Transfers : Source(t) = EntryOf[q] =>
          transfer[t].status \notin OpenStates \cup {"success"} /\ pc[t] \notin Reversing
    BY DEF EntryState, EntryFree
  <1>4. HandlerState' /\ RecordIsTrue' /\ JobsFresh'
    BY DEF HandlerState, RecordIsTrue, JobsFresh
  <1>5. KindState'
    BY <1>1, <1>2 DEF KindState
  <1>6. EntryState'
    <2>1. \A t \in Transfers : Live(t)' <=> Live(t)
      BY DEF Live
    <2>2. \A e \in Entries : PaidBack(e)' = PaidBack(e)
      BY DEF PaidBack, Moved
    <2>3. \A e \in Entries : e # EntryOf[q] => entry'[e] = entry[e]
      OBVIOUS
    <2>4. \A t \in Transfers : Live(t) => Kind(t)' = Kind(t) /\ Source(t) # EntryOf[q]
      BY <1>1, <1>2, <1>3 DEF Live
    <2>5. QED BY <2>1, <2>2, <2>3, <2>4 DEF EntryState, Live
  <1>7. QED BY <1>4, <1>5, <1>6

LEMMA RaiseStep ==
  ASSUME TypeOK, Core, NEW q \in Requests, RaiseLoanRefund(q)
  PROVE  Core'
  <1> USE SourceType DEF Core, TypeOK, Request, Transfer, RaiseLoanRefund
  <1>1. \A t \in Transfers : RequestOf[t] = q =>
          pc[t] \notin Refunding \cup Reversing /\ transfer[t].status = "none"
    BY DEF KindState, Kind
  <1>2. \A t \in Transfers : RequestOf[t] # q => Kind(t)' = Kind(t)
    BY DEF Kind
  <1>3. HandlerState' /\ RecordIsTrue' /\ JobsFresh'
    BY DEF HandlerState, RecordIsTrue, JobsFresh
  <1>4. KindState'
    BY <1>1, <1>2 DEF KindState
  <1>5. EntryState'
    <2>1. \A t \in Transfers : Live(t)' <=> Live(t)
      BY DEF Live
    <2>2. \A e \in Entries : PaidBack(e)' = PaidBack(e)
      BY DEF PaidBack, Moved
    <2>3. \A t \in Transfers : Live(t) => Kind(t)' = Kind(t)
      BY <1>1, <1>2 DEF Live
    <2>4. QED BY <2>1, <2>2, <2>3 DEF EntryState, Live
  <1>6. QED BY <1>3, <1>4, <1>5

(* Only an entry without live transfers is allocated. *)
LEMMA AllocateStep ==
  ASSUME TypeOK, Core, NEW e \in Entries, entry[e] \in {"open", "pending_approval"},
         EntryFree(e), BookTo(e)
  PROVE  HandlerState' /\ RecordIsTrue' /\ JobsFresh'
         /\ (UNCHANGED request => KindState' /\ EntryState')
         /\ \A q \in Requests : Awaiting(q) /\ Decide(q, "approved") => KindState' /\ EntryState'
  <1> USE SourceType DEF Core, TypeOK, Request, Transfer, BookTo
  <1>1. \A t \in Transfers : Source(t) = e => ~Live(t)
    BY DEF EntryState, EntryFree, Live
  <1>2. HandlerState' /\ RecordIsTrue' /\ JobsFresh'
    BY DEF HandlerState, RecordIsTrue, JobsFresh
  <1>3. ASSUME \A t \in Transfers : Kind(t)' = Kind(t) PROVE EntryState'
    <2>1. \A t \in Transfers : Live(t)' <=> Live(t)
      BY DEF Live
    <2>2. \A f \in Entries : PaidBack(f)' = PaidBack(f)
      BY DEF PaidBack, Moved
    <2>3. \A f \in Entries : f # e => entry'[f] = entry[f] /\ booked'[f] = booked[f]
      OBVIOUS
    <2>4. entry'[e] = "allocated" /\ booked'[e] = 1
      BY DEF EntryState
    <2>5. \A t \in Transfers : Live(t) => Source(t) # e
      BY <1>1
    <2>6. QED BY <2>1, <2>2, <2>3, <2>4, <2>5, <1>3 DEF EntryState, Live
  <1>4. ASSUME UNCHANGED request PROVE KindState' /\ EntryState'
    <2>1. \A t \in Transfers : Kind(t)' = Kind(t)
      BY <1>4 DEF Kind
    <2>2. QED BY <1>3, <1>4, <2>1 DEF KindState
  <1>5. ASSUME NEW q \in Requests, Awaiting(q), Decide(q, "approved") PROVE KindState' /\ EntryState'
    <2>1. /\ \A t \in Transfers : Kind(t)' = Kind(t)
          /\ \A r \in Requests : /\ request'[r].kind = request[r].kind
                                 /\ request'[r].status = "none" <=> request'[r].kind = "none"
      BY <1>5, DecideKeepsKinds DEF Awaiting
    <2>2. QED BY <1>3, <2>1 DEF KindState
  <1>6. QED BY <1>2, <1>4, <1>5

(* Only an entry that is held, and has nothing live, is opened again. *)
LEMMA RejectStep ==
  ASSUME TypeOK, Core, NEW q \in Requests, Reject(q)
  PROVE  Core'
  <1> USE SourceType DEF Core, TypeOK, Request, Transfer, Reject
  <1>1. /\ \A t \in Transfers : Kind(t)' = Kind(t)
        /\ \A r \in Requests : /\ request'[r].kind = request[r].kind
                               /\ request'[r].status = "none" <=> request'[r].kind = "none"
    BY DecideKeepsKinds DEF Awaiting
  <1>2. HandlerState' /\ RecordIsTrue' /\ JobsFresh'
    BY DEF HandlerState, RecordIsTrue, JobsFresh
  <1>3. KindState'
    BY <1>1 DEF KindState
  <1>4. EntryState'
    <2>1. \A t \in Transfers : Live(t)' <=> Live(t)
      BY DEF Live
    <2>2. \A e \in Entries : PaidBack(e)' = PaidBack(e)
      BY DEF PaidBack, Moved
    <2>3. \A e \in Entries : entry'[e] # entry[e] =>
            /\ e = EntryOf[q] /\ EntryFree(e)
            /\ entry[e] = "pending_approval" /\ entry'[e] = "open"
      OBVIOUS
    <2>4. \A t \in Transfers : Live(t) => entry'[Source(t)] = entry[Source(t)] \/ Source(t) = NoEntry
      BY <2>3 DEF EntryState, EntryFree, Live
    <2>5. QED BY <2>1, <2>2, <2>3, <2>4, <1>1 DEF EntryState, Live
  <1>5. QED BY <1>2, <1>3, <1>4

(* Step 1 of a refund.  Nothing of its entry is live yet. *)
LEMMA SaveIntentStep ==
  ASSUME TypeOK, Core, Careful, NEW t \in Transfers, ApproveRefund(t) \/ ApproveLoanRefund(t)
  PROVE  Core'
  <1> USE SourceType DEF Core, TypeOK, Request, Transfer, SaveIntent
  <1>1. /\ SaveIntent(t)
        /\ Kind(t) \in {"refund", "loan"}
        /\ Kind(t) = "loan" => UNCHANGED entry
        /\ Kind(t) = "refund" =>
             /\ entry[Source(t)] = "pending_approval" /\ EntryFree(Source(t))
             /\ entry' = [entry EXCEPT ![Source(t)] = "refund_processing"]
    BY DEF ApproveRefund, ApproveLoanRefund, Held
  <1>2. Kind(t) = "loan" <=> Source(t) = NoEntry
    BY <1>1, KindSource
  <1>3. \A u \in Transfers : Kind(u)' = Kind(u)
    BY <1>1 DEF Kind
  <1>4. HandlerState' /\ RecordIsTrue'
    BY <1>1 DEF HandlerState, RecordIsTrue
  <1>5. JobsFresh'
    <2>1. \A j \in jobs : j.transfer # t
      BY <1>1 DEF JobsFresh
    <2>2. QED BY <1>1, <2>1 DEF JobsFresh, Job
  <1>6. KindState'
    BY <1>1, <1>3 DEF KindState
  <1>7. EntryState'
    <2>1. \A u \in Transfers : u # t => /\ Live(u)' <=> Live(u)
                                        /\ transfer'[u] = transfer[u] /\ pc'[u] = pc[u]
      BY <1>1 DEF Live
    <2>2. \A e \in Entries : PaidBack(e)' = PaidBack(e)
      BY <1>1 DEF PaidBack, Moved, HandlerState
    <2>3. \A e \in Entries : e # Source(t) => entry'[e] = entry[e]
      BY <1>1
    <2>4. Source(t) # NoEntry => \A u \in Transfers : Source(u) = Source(t) => ~Live(u)
      BY <1>1, <1>2 DEF EntryState, EntryFree, Live
    <2>5. transfer'[t].status = "initiated" /\ pc'[t] = "saved"
      BY <1>1
    <2>6. Source(t) # NoEntry => /\ entry[Source(t)] = "pending_approval"
                                 /\ entry'[Source(t)] = "refund_processing"
      BY <1>1, <1>2
    <2>7. UNCHANGED booked
      BY <1>1
    <2>8. QED BY <2>1, <2>2, <2>3, <2>4, <2>5, <2>6, <2>7, <1>1, <1>2, <1>3 DEF EntryState, Live
  <1>8. QED BY <1>4, <1>5, <1>6, <1>7

LEMMA SendStep ==
  ASSUME TypeOK, Core, NEW t \in Transfers, Send(t)
  PROVE  Core'
  <1> USE SourceType DEF Core, TypeOK, Request, Transfer, Send
  <1>1. HandlerState' /\ RecordIsTrue'
    BY DEF HandlerState, RecordIsTrue
  <1>2. JobsFresh'
    <2>1. \A j \in jobs : j.transfer # t
      BY DEF JobsFresh
    <2>2. QED BY <2>1 DEF JobsFresh, Job
  <1>3. KindState'
    BY DEF KindState, Kind
  <1>4. EntryState'
    <2>1. \A u \in Transfers : (Live(u)' <=> Live(u)) /\ Kind(u)' = Kind(u)
      BY DEF Live, Kind
    <2>2. \A e \in Entries : PaidBack(e)' = PaidBack(e)
      BY DEF PaidBack, Moved, HandlerState
    <2>3. QED BY <2>1, <2>2 DEF EntryState, Live
  <1>5. QED BY <1>1, <1>2, <1>3, <1>4

(* A step that changes one transfer, and no entry but the one it is about,  *)
(* keeps what the entries say, if nothing else of that entry is live.       *)
LEMMA OneTransfer ==
  ASSUME TypeOK, EntryState, NEW t \in Transfers,
         \A u \in Transfers : Kind(u)' = Kind(u) /\ (Moved(u) => Moved(u)'),
         \A u \in Transfers \ {t} : transfer'[u] = transfer[u] /\ pc'[u] = pc[u],
         UNCHANGED booked,
         \A e \in Entries : e # Source(t) => entry'[e] = entry[e],
         Source(t) # NoEntry => \A u \in Transfers \ {t} : Source(u) = Source(t) => ~Live(u),
         Source(t) # NoEntry =>
           /\ transfer'[t].status \in OpenStates =>
                entry'[Source(t)] = IF Kind(t) = "reversal" THEN "reversal_pending"
                                                            ELSE "refund_processing"
           /\ transfer'[t].status = "success" =>
                entry'[Source(t)] = IF Kind(t) = "reversal" THEN "reversed" ELSE "refunded"
           /\ pc'[t] \in Reversing => entry'[Source(t)] = "pending_approval",
         Source(t) # NoEntry => \/ entry'[Source(t)] = entry[Source(t)]
                                \/ /\ entry[Source(t)] # "allocated"
                                   /\ entry'[Source(t)] # "allocated"
                                   /\ entry'[Source(t)] \in {"refunded", "reversed"} => Moved(t)'
  PROVE  EntryState'
  <1> USE SourceType
  <1>1. \A u \in Transfers \ {t} : Live(u)' <=> Live(u)
    BY DEF Live
  <1>2. \A u \in Transfers : Source(u)' = Source(u)
    BY DEF Source
  <1>3. \A e \in Entries : PaidBack(e) \subseteq PaidBack(e)'
    BY <1>2 DEF PaidBack
  <1>4. \A e \in Entries : e = Source(t) /\ Moved(t)' => PaidBack(e)' # {}
    BY <1>2 DEF PaidBack
  <1>5. \A u \in Transfers : Source(u) # NoEntry =>
          /\ transfer'[u].status \in OpenStates =>
               entry'[Source(u)] = IF Kind(u) = "reversal" THEN "reversal_pending"
                                                           ELSE "refund_processing"
          /\ transfer'[u].status = "success" =>
               entry'[Source(u)] = IF Kind(u) = "reversal" THEN "reversed" ELSE "refunded"
          /\ pc'[u] \in Reversing => entry'[Source(u)] = "pending_approval"
    <2>1. CASE \A u \in Transfers \ {t} : Source(u) # NoEntry /\ Live(u) => Source(u) # Source(t)
      BY <2>1 DEF EntryState, Live
    <2>2. QED BY <2>1
  <1>6. \A u, v \in Transfers : Source(u) # NoEntry /\ Source(u) = Source(v) /\ Live(u)' /\ Live(v)'
                                 => u = v
    BY <1>1 DEF EntryState
  <1>7. \A e \in Entries : /\ booked'[e] = (IF entry'[e] = "allocated" THEN 1 ELSE 0)
                           /\ entry'[e] \in {"refunded", "reversed"} => PaidBack(e)' # {}
    BY <1>3, <1>4 DEF EntryState
  <1>8. QED BY <1>2, <1>5, <1>6, <1>7 DEF EntryState

(* While an approval runs, no settlement works on its transfer. *)
LEMMA NoJob ==
  ASSUME JobsFresh, NEW t \in Transfers, pc[t] # "done"
  PROVE  \A j \in jobs : j.transfer # t
  BY DEF JobsFresh

LEMMA OtherJobs ==
  ASSUME TypeOK, JobsFresh, NEW t \in Transfers, UNCHANGED jobs,
         \A j \in jobs : j.transfer # t,
         \A u \in Transfers \ {t} : transfer'[u] = transfer[u] /\ pc'[u] = pc[u]
                                    /\ mpesa'[u] = mpesa[u]
  PROVE  JobsFresh'
  BY DEF JobsFresh, TypeOK, Job

LEMMA SaveAcceptedStep ==
  ASSUME TypeOK, Core, NEW t \in Transfers, SaveAccepted(t)
  PROVE  Core'
  <1> USE SourceType DEF Core, TypeOK, Request, Transfer
  <1>1. transfer[t].status = "initiated" /\ mpesa[t] # "none"
        /\ Kind(t) \in {"refund", "loan"} /\ UNCHANGED <<booked, mpesa, jobs>>
        /\ pc[t] = "accepted" /\ pc' = [pc EXCEPT ![t] = "done"]
    BY DEF SaveAccepted, HandlerState, KindState
  <1>2. Source(t) # NoEntry => Kind(t) = "refund"
    BY <1>1, KindSource
  <1>3. /\ \A u \in Transfers : Kind(u)' = Kind(u)
        /\ \A r \in Requests : /\ request'[r].kind = request[r].kind
                               /\ request'[r].status = "none" <=> request'[r].kind = "none"
    <2>1. request' = [request EXCEPT ![RequestOf[t]].status = "approved"]
      BY DEF SaveAccepted, Decide
    <2>2. request[RequestOf[t]].kind # "none"
      BY <1>1 DEF Kind
    <2>3. \A r \in Requests : /\ request'[r].kind = request[r].kind
                              /\ request'[r].status = "none" <=> request'[r].kind = "none"
      BY <2>1, <2>2 DEF KindState
    <2>4. QED BY <2>3 DEF Kind
  <1>4. /\ transfer'[t] = [status |-> IF mpesa[t] = "simulated" THEN "success" ELSE "processing",
                           ack |-> TRUE]
        /\ \A u \in Transfers \ {t} : transfer'[u] = transfer[u] /\ pc'[u] = pc[u]
    BY DEF SaveAccepted
  <1>5. entry' = IF mpesa[t] = "simulated" THEN Closed(Source(t), "refunded") ELSE entry
    BY DEF SaveAccepted
  <1>6. HandlerState'
    BY <1>1, <1>4 DEF HandlerState
  <1>7. RecordIsTrue'
    BY <1>1, <1>4 DEF RecordIsTrue
  <1>8. JobsFresh'
    BY <1>1, <1>4, NoJob, OtherJobs
  <1>9. KindState'
    BY <1>1, <1>3, <1>4 DEF KindState
  <1>10. EntryState'
    <2>1. Live(t)
      BY <1>1 DEF Live
    <2>2. Source(t) # NoEntry => \A u \in Transfers \ {t} : Source(u) = Source(t) => ~Live(u)
      BY <2>1 DEF EntryState
    <2>3. Source(t) # NoEntry => entry[Source(t)] = "refund_processing"
      BY <1>1, <1>2 DEF EntryState
    <2>4. \A u \in Transfers : Moved(u) => Moved(u)'
      BY <1>1, <1>4 DEF Moved
    <2>5. mpesa[t] = "simulated" => Moved(t)'
      BY <1>4 DEF Moved
    <2>6. /\ \A e \in Entries : e # Source(t) => entry'[e] = entry[e]
          /\ Source(t) # NoEntry => entry'[Source(t)] = IF mpesa[t] = "simulated" THEN "refunded"
                                                        ELSE "refund_processing"
      BY <1>5, <2>3 DEF Closed
    <2>7. QED BY <1>1, <1>2, <1>3, <1>4, <2>2, <2>3, <2>4, <2>5, <2>6, OneTransfer
  <1>11. QED BY <1>6, <1>7, <1>8, <1>9, <1>10

(* The two other ends of a refund. *)
LEMMA SaveFailureStep ==
  ASSUME TypeOK, Core, NEW t \in Transfers, SaveRefused(t) \/ SaveUnknown(t)
  PROVE  Core'
  <1> USE SourceType DEF Core, TypeOK, Request, Transfer
  <1>1. transfer[t].status = "initiated" /\ ~transfer[t].ack
        /\ Kind(t) \in {"refund", "loan"} /\ UNCHANGED <<booked, request, mpesa, jobs>>
        /\ pc[t] \in {"refused", "unknown"} /\ pc' = [pc EXCEPT ![t] = "done"]
        /\ (pc[t] = "refused" => mpesa[t] = "none")
    BY DEF SaveRefused, SaveUnknown, HandlerState, KindState
  <1>2. Source(t) # NoEntry => Kind(t) = "refund"
    BY <1>1, KindSource
  <1>3. \A u \in Transfers : Kind(u)' = Kind(u)
    BY <1>1 DEF Kind
  <1>4. /\ transfer' = [transfer EXCEPT ![t].status = IF pc[t] = "refused" THEN "failed"
                                                                         ELSE "uncertain"]
        /\ entry' = IF pc[t] = "refused" THEN Reopened(Source(t)) ELSE entry
    BY DEF SaveRefused, SaveUnknown
  <1>5. HandlerState'
    BY <1>1, <1>4 DEF HandlerState
  <1>6. RecordIsTrue'
    BY <1>1, <1>4 DEF RecordIsTrue
  <1>7. JobsFresh'
    BY <1>1, <1>4, NoJob, OtherJobs
  <1>8. KindState'
    BY <1>1, <1>3, <1>4 DEF KindState
  <1>9. EntryState'
    <2>1. Live(t)
      BY <1>1 DEF Live
    <2>2. Source(t) # NoEntry => \A u \in Transfers \ {t} : Source(u) = Source(t) => ~Live(u)
      BY <2>1 DEF EntryState
    <2>3. Source(t) # NoEntry => entry[Source(t)] = "refund_processing"
      BY <1>1, <1>2 DEF EntryState
    <2>4. \A u \in Transfers : Moved(u) => Moved(u)'
      BY <1>1, <1>4 DEF Moved
    <2>5. /\ \A e \in Entries : e # Source(t) => entry'[e] = entry[e]
          /\ Source(t) # NoEntry => entry'[Source(t)] = IF pc[t] = "refused" THEN "open"
                                                        ELSE "refund_processing"
      BY <1>4, <2>3 DEF Reopened
    <2>6. QED BY <1>1, <1>2, <1>3, <1>4, <2>2, <2>3, <2>4, <2>5, OneTransfer
  <1>10. QED BY <1>5, <1>6, <1>7, <1>8, <1>9

LEMMA AskReversalStep ==
  ASSUME TypeOK, Core, Careful, NEW t \in Transfers, AskReversal(t)
  PROVE  Core'
  <1> USE SourceType DEF Core, TypeOK, Request, Transfer
  <1>1. /\ pc[t] = "idle" /\ pc'[t] \in Reversing /\ Kind(t) = "reversal"
        /\ pc'[t] = "asked" => mpesa'[t] # "none"
        /\ pc'[t] = "denied" => mpesa'[t] = "none"
        /\ mpesa'[t] \in {"none", "queued", "simulated"}
        /\ entry[Source(t)] = "pending_approval" /\ EntryFree(Source(t))
        /\ UNCHANGED <<entry, booked, request, transfer, jobs>>
        /\ \A u \in Transfers \ {t} : pc'[u] = pc[u] /\ mpesa'[u] = mpesa[u]
    BY DEF AskReversal, reversal_request, simulate_reversal_accept, Held, Careful
  <1>2. \A u \in Transfers : Kind(u)' = Kind(u)
    BY <1>1 DEF Kind
  <1>3. HandlerState' /\ RecordIsTrue'
    BY <1>1 DEF HandlerState, RecordIsTrue
  <1>4. JobsFresh'
    BY <1>1, NoJob, OtherJobs
  <1>5. KindState'
    BY <1>1, <1>2 DEF KindState
  <1>6. EntryState'
    <2>1. Source(t) # NoEntry
      BY <1>1, KindSource
    <2>2. \A u \in Transfers : Source(u) = Source(t) => ~Live(u)
      BY <1>1, <2>1 DEF EntryState, EntryFree, Live
    <2>3. \A u \in Transfers : Moved(u) => Moved(u)'
      BY <1>1 DEF Moved, HandlerState
    <2>4. transfer'[t].status = "none"
      BY <1>1 DEF HandlerState
    <2>5. QED BY <1>1, <1>2, <2>2, <2>3, <2>4, OneTransfer
  <1>7. QED BY <1>3, <1>4, <1>5, <1>6

LEMMA SaveReversalStep ==
  ASSUME TypeOK, Core, NEW t \in Transfers, SaveReversal(t)
  PROVE  Core'
  <1> USE SourceType DEF Core, TypeOK, Request, Transfer
  <1>1. /\ pc[t] = "asked" /\ Kind(t) = "reversal" /\ transfer[t].status = "none"
        /\ mpesa[t] # "none" /\ UNCHANGED <<booked, mpesa, jobs>>
        /\ pc' = [pc EXCEPT ![t] = "done"]
    BY DEF SaveReversal, simulate_reversal_result, HandlerState, KindState
  <1>2. Source(t) # NoEntry /\ entry[Source(t)] = "pending_approval"
    BY <1>1, KindSource DEF EntryState
  <1>3. /\ \A u \in Transfers : Kind(u)' = Kind(u)
        /\ \A r \in Requests : /\ request'[r].kind = request[r].kind
                               /\ request'[r].status = "none" <=> request'[r].kind = "none"
    <2>1. request' = [request EXCEPT ![RequestOf[t]].status = "approved"]
      BY DEF SaveReversal, simulate_reversal_result, Decide
    <2>2. request[RequestOf[t]].kind # "none"
      BY <1>1 DEF Kind
    <2>3. \A r \in Requests : /\ request'[r].kind = request[r].kind
                              /\ request'[r].status = "none" <=> request'[r].kind = "none"
      BY <2>1, <2>2 DEF KindState
    <2>4. QED BY <2>3 DEF Kind
  <1>4. /\ transfer'[t] = [status |-> IF mpesa[t] = "simulated" THEN "success" ELSE "processing",
                           ack |-> TRUE]
        /\ \A u \in Transfers \ {t} : transfer'[u] = transfer[u] /\ pc'[u] = pc[u]
    BY DEF SaveReversal, simulate_reversal_result
  <1>5. entry' = [entry EXCEPT ![Source(t)] = IF mpesa[t] = "simulated" THEN "reversed"
                                                                       ELSE "reversal_pending"]
    BY DEF SaveReversal, simulate_reversal_result
  <1>6. HandlerState' /\ RecordIsTrue'
    <2>1. HandlerState'
      BY <1>1, <1>4 DEF HandlerState
    <2>2. RecordIsTrue'
      BY <1>1, <1>4 DEF RecordIsTrue
    <2>3. QED BY <2>1, <2>2
  <1>7. JobsFresh'
    BY <1>1, <1>4, NoJob, OtherJobs
  <1>8. KindState'
    BY <1>1, <1>3, <1>4 DEF KindState
  <1>9. EntryState'
    <2>1. Live(t)
      BY <1>1 DEF Live
    <2>2. \A u \in Transfers \ {t} : Source(u) = Source(t) => ~Live(u)
      BY <1>2, <2>1 DEF EntryState
    <2>3. \A u \in Transfers : Moved(u) => Moved(u)'
      BY <1>1, <1>4 DEF Moved
    <2>4. mpesa[t] = "simulated" => Moved(t)'
      BY <1>4 DEF Moved
    <2>5. QED BY <1>1, <1>2, <1>3, <1>4, <1>5, <2>2, <2>3, <2>4, OneTransfer
  <1>10. QED BY <1>6, <1>7, <1>8, <1>9

LEMMA DropReversalStep ==
  ASSUME TypeOK, Core, NEW t \in Transfers, DropReversal(t)
  PROVE  Core'
  <1> USE SourceType DEF Core, TypeOK, Request, Transfer, DropReversal
  <1>1. transfer[t].status = "none" /\ mpesa[t] = "none"
    BY DEF HandlerState
  <1>2. \A u \in Transfers : Kind(u)' = Kind(u) /\ (Moved(u) => Moved(u)')
    BY DEF Kind, Moved
  <1>3. HandlerState' /\ RecordIsTrue'
    BY <1>1 DEF HandlerState, RecordIsTrue
  <1>4. JobsFresh'
    BY NoJob, OtherJobs
  <1>5. KindState'
    BY <1>2 DEF KindState
  <1>6. EntryState'
    <2>1. Source(t) # NoEntry => \A u \in Transfers \ {t} : Source(u) = Source(t) => ~Live(u)
      BY DEF EntryState, Live
    <2>2. QED BY <1>1, <1>2, <2>1, OneTransfer
  <1>7. QED BY <1>3, <1>4, <1>5, <1>6

LEMMA SafaricomStep ==
  ASSUME TypeOK, Core, NEW t \in Transfers, SafaricomSettles(t)
  PROVE  Core'
  <1> USE SourceType DEF Core, TypeOK, Request, Transfer, SafaricomSettles
  <1>1. HandlerState'
    BY DEF HandlerState
  <1>2. RecordIsTrue'
    BY DEF RecordIsTrue
  <1>3. JobsFresh'
    BY DEF JobsFresh, Job
  <1>4. \A u \in Transfers : (Live(u)' <=> Live(u)) /\ Kind(u)' = Kind(u) /\ (Moved(u) => Moved(u)')
    BY DEF Live, Kind, Moved
  <1>5. KindState'
    BY <1>4 DEF KindState
  <1>6. EntryState'
    <2>1. \A e \in Entries : PaidBack(e) \subseteq PaidBack(e)'
      BY <1>4 DEF PaidBack, Source
    <2>2. QED BY <1>4, <2>1 DEF EntryState
  <1>7. QED BY <1>1, <1>2, <1>3, <1>5, <1>6

---------------------------------------------------------------------------
(* The settlements.  With one thread none begins while another is under     *)
(* way, and none begins on a transfer whose approval is running.            *)
LEMMA BeginStep ==
  ASSUME TypeOK, Core, Serial, Careful, NEW s \in Settlers, NEW t \in Transfers, Begin(s, t)
  PROVE  Core'
  <1> USE SourceType DEF Core, TypeOK, Request, Transfer
  <1>1. PICK kind \in {"settle", "timeout", "resolve"}, paid \in BOOLEAN :
          /\ Read(s, t, kind, paid)
          /\ pc[t] = "done" /\ transfer[t].status \in OpenStates
          /\ kind = "timeout" => mpesa[t] # "none"
          /\ kind # "timeout" => IF paid THEN mpesa[t] \in {"paid", "simulated"}
                                 ELSE mpesa[t] \in {"none", "declined", "simulated"}
    <2>1. CASE ReadResult(s, t)
      BY <2>1 DEF ReadResult, HandlerState
    <2>2. CASE ReadTimeout(s, t)
      BY <2>2 DEF ReadTimeout, HandlerState
    <2>3. CASE ReadResolve(s, t)
      BY <2>3 DEF ReadResolve, PortalShows, HandlerState, Careful
    <2>4. QED BY <2>1, <2>2, <2>3 DEF Begin
  <1>2. jobs = {}
    BY <1>1 DEF Read, Idle, Serial, Job
  <1>3. jobs' = {[by |-> s, kind |-> kind, transfer |-> t, paid |-> paid]}
        /\ UNCHANGED <<entry, booked, request, transfer, pc, mpesa>>
    BY <1>1, <1>2 DEF Read
  <1>4. JobsFresh'
    BY <1>1, <1>3 DEF JobsFresh
  <1>5. HandlerState' /\ RecordIsTrue' /\ KindState'
    BY <1>3 DEF HandlerState, RecordIsTrue, KindState, Kind
  <1>6. EntryState'
    BY <1>3 DEF EntryState, Live, PaidBack, Moved, Kind, Source
  <1>7. QED BY <1>4, <1>5, <1>6

LEMMA CommitStep ==
  ASSUME TypeOK, Core, NEW j \in jobs, Commit(j)
  PROVE  Core'
  <1> USE SourceType DEF Core, TypeOK, Request, Transfer, Job
  <1> DEFINE t == j.transfer
  <1>1. /\ t \in Transfers /\ jobs' = {} /\ pc[t] = "done"
        /\ transfer[t].status \in OpenStates
        /\ UNCHANGED <<booked, request, pc, mpesa>>
    BY DEF Commit, JobsFresh
  <1>2. /\ transfer' = [transfer EXCEPT ![t].status = IF j.kind = "timeout" THEN "timed_out"
                                     ELSE IF j.paid THEN "success" ELSE "failed"]
        /\ entry' = SettledEntry(j)
    BY DEF Commit
  <1>3. \A u \in Transfers : Kind(u)' = Kind(u)
    BY <1>1 DEF Kind
  <1>4. HandlerState'
    BY <1>1, <1>2 DEF HandlerState
  <1>5. RecordIsTrue'
    BY <1>1, <1>2 DEF RecordIsTrue, JobsFresh
  <1>6. JobsFresh'
    BY <1>1 DEF JobsFresh
  <1>7. KindState'
    BY <1>1, <1>2, <1>3 DEF KindState
  <1>8. EntryState'
    <2>1. Live(t)
      BY <1>1 DEF Live
    <2>2. Source(t) # NoEntry => \A u \in Transfers \ {t} : Source(u) = Source(t) => ~Live(u)
      BY <1>1, <2>1 DEF EntryState
    <2>3. Source(t) # NoEntry =>
            entry[Source(t)] = IF Kind(t) = "reversal" THEN "reversal_pending"
                                                       ELSE "refund_processing"
      BY <1>1 DEF EntryState
    <2>4. \A u \in Transfers : Moved(u) => Moved(u)'
      BY <1>1, <1>2 DEF Moved
    <2>5. j.kind # "timeout" /\ j.paid => Moved(t)'
      BY <1>1, <1>2 DEF Moved
    <2>6. \A e \in Entries : e # Source(t) => entry'[e] = entry[e]
      BY <1>2 DEF SettledEntry, Closed, Reopened
    <2>7. Source(t) # NoEntry =>
            entry'[Source(t)] = IF j.kind = "timeout" THEN entry[Source(t)]
                                ELSE IF ~j.paid THEN "open"
                                ELSE IF Kind(t) = "reversal" THEN "reversed" ELSE "refunded"
      BY <1>1, <1>2, <2>3 DEF SettledEntry, Closed, Reopened
    <2>8. QED BY <1>1, <1>2, <1>3, <2>2, <2>3, <2>4, <2>5, <2>6, <2>7, OneTransfer
  <1>9. QED BY <1>4, <1>5, <1>6, <1>7, <1>8

LEMMA RestartStep ==
  ASSUME TypeOK, Core, Careful, Restart
  PROVE  Core'
  <1> USE SourceType DEF Core, TypeOK, Request, Transfer
  <1>1. /\ \A t \in Transfers : pc[t] # "asked"
        /\ \A t \in Transfers : pc'[t] = IF pc[t] = "idle" THEN "idle" ELSE "done"
        /\ jobs' = {} /\ UNCHANGED <<entry, booked, request, transfer, mpesa>>
    BY DEF Restart, Careful
  <1>2. HandlerState' /\ RecordIsTrue' /\ JobsFresh'
    BY <1>1 DEF HandlerState, RecordIsTrue, JobsFresh
  <1>3. KindState'
    BY <1>1 DEF KindState, Kind
  <1>4. EntryState'
    <2>1. \A t \in Transfers : (Live(t)' => Live(t)) /\ Kind(t)' = Kind(t)
      BY <1>1 DEF Live, Kind
    <2>2. \A e \in Entries : PaidBack(e)' = PaidBack(e)
      BY <1>1 DEF PaidBack, Moved
    <2>3. QED BY <1>1, <2>1, <2>2 DEF EntryState
  <1>5. QED BY <1>2, <1>3, <1>4

LEMMA StutterStep == ASSUME Core, UNCHANGED vars PROVE Core'
  BY DEF vars, Core, HandlerState, KindState, RecordIsTrue, JobsFresh, EntryState, Live, PaidBack,
         Moved, Kind, Source

LEMMA CoreStep ==
  ASSUME TypeOK, Core, Serial, Careful, [Next]_vars
  PROVE  Core'
  <1>1. CASE Make
    BY <1>1, ParkStep, RaiseStep DEF Make
  <1>2. ASSUME NEW e \in Entries, Allocate(e) PROVE Core'
    BY <1>2, AllocateStep DEF Allocate, Core
  <1>3. ASSUME NEW q \in Requests, Reject(q) PROVE Core'
    BY <1>3, RejectStep
  <1>4. ASSUME NEW q \in Requests, ApproveAllocation(q) PROVE Core'
    <2>1. EntryOf[q] \in Entries
      BY <1>4, SourceType DEF ApproveAllocation, Awaiting, Core, KindState
    <2>2. QED BY <1>4, <2>1, AllocateStep DEF ApproveAllocation, Held, Core
  <1>5. ASSUME NEW t \in Transfers, Execute(t) PROVE Core'
    BY <1>5, SaveIntentStep, SendStep, SaveAcceptedStep, SaveFailureStep, AskReversalStep,
       SaveReversalStep, DropReversalStep DEF Execute
  <1>6. ASSUME NEW t \in Transfers, SafaricomSettles(t) PROVE Core'
    BY <1>6, SafaricomStep
  <1>7. ASSUME NEW s \in Settlers, NEW t \in Transfers, Begin(s, t) PROVE Core'
    BY <1>7, BeginStep
  <1>8. ASSUME NEW j \in jobs, Commit(j) PROVE Core'
    BY <1>8, CommitStep
  <1>9. CASE Restart
    BY <1>9, RestartStep
  <1>10. CASE UNCHANGED vars
    BY <1>10, StutterStep
  <1>11. QED BY <1>1, <1>2, <1>3, <1>4, <1>5, <1>6, <1>7, <1>8, <1>9, <1>10 DEF Next

---------------------------------------------------------------------------
(* The count of the loan refunds: only the approval of one adds to it. *)

Counted == Cardinality(SentRefunds) <= Excess

LEMMA SentIsFinite == IsFiniteSet(SentRefunds)
  BY SuspenseAssumption, FS_Subset DEF SentRefunds

LEMMA NotMore ==
  ASSUME Counted, \A t \in Transfers : Source(t) = NoEntry
                    /\ transfer'[t].status \in OpenStates \cup {"success"}
                    => transfer[t].status \in OpenStates \cup {"success"}
  PROVE  Counted'
  <1>1. SentRefunds' \subseteq SentRefunds
    BY DEF SentRefunds, Source
  <1>2. Cardinality(SentRefunds') <= Cardinality(SentRefunds)
    BY <1>1, SentIsFinite, FS_Subset
  <1>3. IsFiniteSet(SentRefunds')
    BY <1>1, SentIsFinite, FS_Subset
  <1>4. Cardinality(SentRefunds) \in Nat /\ Cardinality(SentRefunds') \in Nat
    BY <1>3, SentIsFinite, FS_CardinalityType
  <1>5. QED BY <1>2, <1>4, SuspenseAssumption DEF Counted

LEMMA OneMore ==
  ASSUME TypeOK, NEW t \in Transfers, ApproveLoanRefund(t)
  PROVE  Counted'
  <1>1. SentRefunds' \subseteq SentRefunds \cup {t}
    <2>1. transfer' = [transfer EXCEPT ![t].status = "initiated"]
      BY DEF ApproveLoanRefund, SaveIntent
    <2>2. \A u \in Transfers \ {t} : transfer'[u] = transfer[u]
      BY <2>1 DEF TypeOK
    <2>3. QED BY <2>2 DEF SentRefunds, Source
  <1>2. IsFiniteSet(SentRefunds \cup {t})
        /\ Cardinality(SentRefunds \cup {t}) <= Cardinality(SentRefunds) + 1
    <2>1. IsFiniteSet(SentRefunds) /\ Cardinality(SentRefunds) \in Nat
      BY SentIsFinite, FS_CardinalityType
    <2>2. IsFiniteSet(SentRefunds \cup {t})
          /\ Cardinality(SentRefunds \cup {t})
               = IF t \in SentRefunds THEN Cardinality(SentRefunds)
                                      ELSE Cardinality(SentRefunds) + 1
      BY <2>1, FS_AddElement
    <2>3. QED BY <2>1, <2>2
  <1>3. IsFiniteSet(SentRefunds') /\ Cardinality(SentRefunds') <= Cardinality(SentRefunds \cup {t})
    BY <1>1, <1>2, FS_Subset
  <1>4. /\ Cardinality(SentRefunds) \in Nat /\ Cardinality(SentRefunds') \in Nat
        /\ Cardinality(SentRefunds \cup {t}) \in Nat
    BY <1>2, <1>3, SentIsFinite, FS_CardinalityType
  <1>5. Cardinality(SentRefunds) < Excess
    BY DEF ApproveLoanRefund
  <1>6. QED BY <1>2, <1>3, <1>4, <1>5, SuspenseAssumption DEF Counted

LEMMA CountStep ==
  ASSUME TypeOK, Core, Counted, [Next]_vars
  PROVE  Counted'
  <1> USE SourceType DEF TypeOK, Core, Transfer
  <1>1. ASSUME UNCHANGED transfer PROVE Counted'
    BY <1>1, NotMore
  <1>2. ASSUME NEW t \in Transfers, Execute(t) PROVE Counted'
    <2>1. CASE ApproveLoanRefund(t)
      BY <2>1, OneMore
    <2>2. CASE ApproveRefund(t)
      <3>1. Source(t) # NoEntry
        BY <2>2, KindSource DEF ApproveRefund
      <3>2. QED BY <2>2, <3>1, NotMore DEF ApproveRefund, SaveIntent
    <2>3. CASE SaveAccepted(t)
      BY <2>3, NotMore DEF SaveAccepted, HandlerState
    <2>4. CASE SaveRefused(t) \/ SaveUnknown(t)
      BY <2>4, NotMore DEF SaveRefused, SaveUnknown, HandlerState
    <2>5. CASE SaveReversal(t)
      <3>1. Source(t) # NoEntry
        BY <2>5, KindSource DEF SaveReversal, simulate_reversal_result, KindState
      <3>2. QED BY <2>5, <3>1, NotMore DEF SaveReversal, simulate_reversal_result
    <2>6. CASE Send(t) \/ AskReversal(t) \/ DropReversal(t)
      BY <2>6, <1>1 DEF Send, AskReversal, reversal_request, simulate_reversal_accept, DropReversal
    <2>7. QED BY <1>2, <2>1, <2>2, <2>3, <2>4, <2>5, <2>6 DEF Execute
  <1>3. ASSUME NEW j \in jobs, Commit(j) PROVE Counted'
    BY <1>3, NotMore DEF Commit, JobsFresh, Job
  <1>4. ASSUME NEW s \in Settlers, NEW t \in Transfers, Begin(s, t) PROVE Counted'
    BY <1>4, <1>1 DEF Begin, ReadResult, ReadTimeout, ReadResolve, Read
  <1>5. CASE Make
    BY <1>5, <1>1 DEF Make, Park, RaiseLoanRefund
  <1>6. CASE \/ \E e \in Entries : Allocate(e)
             \/ \E q \in Requests : Reject(q) \/ ApproveAllocation(q)
    BY <1>6, <1>1 DEF Allocate, Reject, ApproveAllocation, BookTo
  <1>7. CASE Restart \/ UNCHANGED vars \/ \E t \in Transfers : SafaricomSettles(t)
    BY <1>7, <1>1 DEF Restart, vars, SafaricomSettles
  <1>8. QED BY <1>2, <1>3, <1>4, <1>5, <1>6, <1>7 DEF Next

---------------------------------------------------------------------------
(* One settling thread, nothing resolved early and no reversal lost: the    *)
(* inductive invariant.                                                     *)
THEOREM Invariant == ASSUME Serial, Careful PROVE Spec => []SuspenseInv
  <1>1. Init => TypeOK /\ Core /\ Counted
    <2>1. ASSUME Init PROVE TypeOK
      BY <2>1, SuspenseAssumption DEF Init, TypeOK, Request, Transfer
    <2>2. ASSUME Init PROVE Counted
      <3>1. SentRefunds = {}
        BY <2>2 DEF Init, SentRefunds
      <3>2. QED BY <3>1, FS_EmptySet, SuspenseAssumption DEF Counted
    <2>3. QED BY <2>1, <2>2, CoreInit
  <1>2. TypeOK /\ Core /\ Counted /\ [Next]_vars
          => (TypeOK /\ Core /\ Counted)'
    BY TypeStep, CoreStep, CountStep
  <1>3. TypeOK /\ Core /\ Counted => SuspenseInv
    BY DEF SuspenseInv, Core, Counted
  <1>4. QED BY <1>1, <1>2, <1>3, PTL DEF Spec

(* Money that moved is still held against its entry or its loan. *)
LEMMA MovedIsLive ==
  ASSUME SuspenseInv, NEW t \in Transfers, Moved(t)
  PROVE  /\ Live(t)
         /\ pc[t] \in Reversing => pc[t] = "asked"
         /\ Source(t) = NoEntry => transfer[t].status \in OpenStates \cup {"success"}
  <1> USE SourceType DEF SuspenseInv, TypeOK, Transfer
  <1>1. pc[t] \in Reversing => pc[t] = "asked" /\ transfer[t].status = "none" /\ Source(t) # NoEntry
    <2>1. ASSUME pc[t] \in Reversing PROVE Source(t) # NoEntry
      BY <2>1, KindSource DEF KindState
    <2>2. QED BY <2>1 DEF HandlerState, Moved
  <1>2. pc[t] \notin Reversing => transfer[t].status \in OpenStates \cup {"success"}
    BY DEF HandlerState, RecordIsTrue, Moved
  <1>3. QED BY <1>1, <1>2 DEF Live

(* The money of an entry leaves it once. *)
THEOREM MoneyLeavesOnce == ASSUME Serial, Careful PROVE Spec => []LeavesOnce
  <1>1. ASSUME SuspenseInv PROVE LeavesOnce
    <2> SUFFICES ASSUME NEW e \in Entries
                 PROVE  /\ booked[e] <= 1
                        /\ booked[e] = 1 => PaidBack(e) = {}
                        /\ \A t, u \in PaidBack(e) : t = u
      BY DEF LeavesOnce
    <2>1. \A t \in PaidBack(e) : t \in Transfers /\ Source(t) = e /\ e # NoEntry /\ Live(t)
      BY <1>1, MovedIsLive, SourceType DEF PaidBack
    <2>2. booked[e] = IF entry[e] = "allocated" THEN 1 ELSE 0
      BY <1>1 DEF SuspenseInv, EntryState
    <2>3. \A t \in PaidBack(e) : entry[e] # "allocated"
      BY <1>1, <2>1 DEF SuspenseInv, EntryState, Live
    <2>4. \A t, u \in PaidBack(e) : t = u
      BY <1>1, <2>1 DEF SuspenseInv, EntryState
    <2>5. QED BY <2>2, <2>3, <2>4
  <1>2. QED BY <1>1, Invariant, PTL

(* The entries say where the money is. *)
THEOREM EntriesMatchMoney == ASSUME Serial, Careful PROVE Spec => []EntryMatchesMoney
  <1>1. ASSUME SuspenseInv PROVE EntryMatchesMoney
    <2> SUFFICES ASSUME NEW e \in Entries
                 PROVE  /\ entry[e] \in {"open", "pending_approval"} =>
                             booked[e] = 0 /\ \A t \in PaidBack(e) : pc[t] = "asked"
                        /\ entry[e] = "allocated" => booked[e] = 1
                        /\ entry[e] \in {"refunded", "reversed"} => PaidBack(e) # {}
      BY DEF EntryMatchesMoney
    <2>1. \A t \in PaidBack(e) : /\ t \in Transfers /\ Source(t) = e /\ e # NoEntry /\ Live(t)
                                 /\ pc[t] \in Reversing => pc[t] = "asked"
      BY <1>1, MovedIsLive, SourceType DEF PaidBack
    <2>2. \A t \in PaidBack(e) : entry[e] \in {"open", "pending_approval"} => pc[t] = "asked"
      BY <1>1, <2>1 DEF SuspenseInv, EntryState, Live
    <2>3. QED BY <1>1, <2>2 DEF SuspenseInv, EntryState
  <1>2. QED BY <1>1, Invariant, PTL

(* No more than the overpayment is refunded. *)
THEOREM RefundsBounded == ASSUME Serial, Careful PROVE Spec => []RefundsWithinExcess
  <1>1. ASSUME SuspenseInv PROVE RefundsWithinExcess
    <2> DEFINE Paid == {t \in Transfers : Source(t) = NoEntry /\ Moved(t)}
    <2>1. Paid \subseteq SentRefunds
      BY <1>1, MovedIsLive DEF SentRefunds
    <2>2. IsFiniteSet(Paid) /\ Cardinality(Paid) <= Cardinality(SentRefunds)
      BY <2>1, SentIsFinite, FS_Subset
    <2>3. Cardinality(Paid) \in Nat /\ Cardinality(SentRefunds) \in Nat
      BY <2>2, SentIsFinite, FS_CardinalityType
    <2> HIDE DEF Paid
    <2>4. Cardinality(Paid) <= Excess
      BY <1>1, <2>2, <2>3, SuspenseAssumption DEF SuspenseInv
    <2>5. QED BY <2>4 DEF RefundsWithinExcess, Paid
  <1>2. QED BY <1>1, Invariant, PTL

(* A resolved entry stays as it is. *)
THEOREM ResolvedForGood == ASSUME Serial, Careful PROVE Spec => ResolvedIsFinal
  <1> DEFINE Final == \A e \in Entries : entry[e] \in {"allocated", "refunded", "reversed"} =>
                        entry'[e] = entry[e] /\ booked'[e] = booked[e]
  <1>1. ASSUME SuspenseInv, [Next]_vars PROVE Final
    <2> USE <1>1, SourceType DEF SuspenseInv, TypeOK, Transfer, Request
    <2>1. ASSUME NEW t \in Transfers, Execute(t) PROVE Final
      <3>1. CASE ApproveRefund(t)
        BY <3>1 DEF ApproveRefund, SaveIntent, Held
      <3>2. CASE SaveAccepted(t)
        <4>1. Source(t) # NoEntry => entry[Source(t)] = "refund_processing"
          BY <3>2, KindSource DEF SaveAccepted, HandlerState, KindState, EntryState
        <4>2. QED BY <3>2, <4>1 DEF SaveAccepted, Closed
      <3>3. CASE SaveRefused(t)
        BY <3>3 DEF SaveRefused, Reopened
      <3>4. CASE SaveReversal(t)
        <4>1. Source(t) # NoEntry => entry[Source(t)] = "pending_approval"
          BY <3>4 DEF SaveReversal, simulate_reversal_result, EntryState
        <4>2. QED BY <3>4, <4>1 DEF SaveReversal, simulate_reversal_result
      <3>5. CASE \/ ApproveLoanRefund(t) \/ Send(t) \/ SaveUnknown(t)
                 \/ AskReversal(t) \/ DropReversal(t)
        BY <3>5 DEF ApproveLoanRefund, SaveIntent, Send, SaveUnknown, AskReversal, reversal_request, simulate_reversal_accept, DropReversal
      <3>6. QED BY <2>1, <3>1, <3>2, <3>3, <3>4, <3>5 DEF Execute
    <2>2. ASSUME NEW j \in jobs, Commit(j) PROVE Final
      <3>1. j.transfer \in Transfers
        BY DEF Job
      <3>2. Source(j.transfer) # NoEntry =>
              entry[Source(j.transfer)] \in {"reversal_pending", "refund_processing"}
        BY <3>1 DEF JobsFresh, EntryState
      <3>3. QED BY <2>2, <3>1, <3>2 DEF Commit, SettledEntry, Closed, Reopened
    <2>3. CASE Make
      BY <2>3 DEF Make, Park, RaiseLoanRefund
    <2>4. ASSUME NEW e \in Entries, Allocate(e) PROVE Final
      BY <2>4 DEF Allocate, BookTo
    <2>5. ASSUME NEW q \in Requests, Reject(q) PROVE Final
      BY <2>5 DEF Reject
    <2>6. ASSUME NEW q \in Requests, ApproveAllocation(q) PROVE Final
      BY <2>6 DEF ApproveAllocation, BookTo, Held
    <2>7. ASSUME NEW s \in Settlers, NEW t \in Transfers, Begin(s, t) PROVE Final
      BY <2>7 DEF Begin, ReadResult, ReadTimeout, ReadResolve, Read
    <2>8. CASE Restart \/ UNCHANGED vars \/ \E t \in Transfers : SafaricomSettles(t)
      BY <2>8 DEF Restart, vars, SafaricomSettles
    <2>9. QED BY <2>1, <2>2, <2>3, <2>4, <2>5, <2>6, <2>7, <2>8 DEF Next
  <1>2. ASSUME SuspenseInv, [Next]_vars
        PROVE  [\A e \in Entries : entry[e] \in {"allocated", "refunded", "reversed"} =>
                  entry'[e] = entry[e] /\ booked'[e] = booked[e]]_vars
    BY <1>1, <1>2
  <1>3. QED BY <1>2, Invariant, PTL DEF Spec, ResolvedIsFinal
=============================================================================
