--------------------------- MODULE PayoutProofs ---------------------------
(***************************************************************************)
(* Theorems about Payout, for any loans, payouts, threads and bounds.      *)
(***************************************************************************)
EXTENDS Payout, TLAPS

USE DEF LoanStatus, TxnStatus, OpenStates, Settleable, InFlight

LEMMA LoanOfType == \A p \in Payouts : LoanOf[p] \in Loans
  BY PayoutAssumption

LEMMA SettledType == ASSUME NEW row \in Txn, NEW j PROVE Settled(row, j) \in Txn
  BY DEF Settled, Txn

(* Types.  That an active loan still owes something is needed to know that *)
(* a repayment leaves a balance.                                           *)
TypeInv == TypeOK /\ ActiveOwes

LEMMA TypeInvStep == TypeInv /\ [Next]_vars => TypeInv'
  <1> SUFFICES ASSUME TypeInv, [Next]_vars PROVE TypeInv'
    OBVIOUS
  <1> USE PayoutAssumption, LoanOfType DEF TypeInv, TypeOK, ActiveOwes, Txn
  <1>1. ASSUME NEW p \in Payouts, Handle(p) PROVE TypeInv'
    <2>1. CASE Check(p)
      BY <2>1 DEF Check
    <2>2. CASE Reserve(p)
      BY <2>2 DEF Reserve
    <2>3. CASE GiveUp(p)
      BY <2>3 DEF GiveUp
    <2>4. CASE Send(p)
      BY <2>4 DEF Send, b2c_disburse, guard_production_b2c, simulate_b2c_accept, get_access_token_fails
    <2>5. CASE SaveAccepted(p)
      BY <2>5 DEF SaveAccepted
    <2>6. CASE SaveRefused(p)
      BY <2>6 DEF SaveRefused
    <2>7. CASE SaveUnknown(p)
      BY <2>7 DEF SaveUnknown
    <2>8. QED BY <1>1, <2>1, <2>2, <2>3, <2>4, <2>5, <2>6, <2>7 DEF Handle
  <1>2. ASSUME NEW p \in Payouts, SafaricomSettles(p) PROVE TypeInv'
    BY <1>2 DEF SafaricomSettles
  <1>3. ASSUME NEW s \in Settlers, NEW p \in Payouts, Begin(s, p) PROVE TypeInv'
    <2>1. \E kind \in {"settle", "timeout", "resolve"}, paid \in BOOLEAN : Read(s, p, kind, paid)
      BY <1>3 DEF Begin, ReadResult, ReadTimeout, ReadSweep, ReadResolve
    <2>2. QED BY <2>1 DEF Read, Job
  <1>4. ASSUME NEW j \in jobs, Commit(j) PROVE TypeInv'
    <2>1. j \in Job OBVIOUS
    <2>2. j.payout \in Payouts /\ LoanOf[j.payout] \in Loans
      BY <2>1 DEF Job
    <2>3. txn' \in [Payouts -> Txn]
      BY <1>4, <2>2, SettledType DEF Commit
    <2>4. loan' \in [Loans -> LoanStatus] /\ balance' \in [Loans -> 0..Due]
      BY <1>4, <2>2 DEF Commit
    <2>5. ActiveOwes'
      BY <1>4, <2>2 DEF Commit
    <2>6. QED BY <1>4, <2>3, <2>4, <2>5 DEF Commit
  <1>5. ASSUME NEW l \in Loans, Repay(l) PROVE TypeInv'
    BY <1>5 DEF Repay
  <1>6. CASE Restart
    BY <1>6 DEF Restart
  <1>7. CASE ChangeCreds
    BY <1>7 DEF ChangeCreds
  <1>8. CASE UNCHANGED vars
    BY <1>8 DEF vars
  <1>9. QED BY <1>1, <1>2, <1>3, <1>4, <1>5, <1>6, <1>7, <1>8 DEF Next

(* Type correctness, whatever races with what. *)
THEOREM TypeCorrect == Spec => []TypeOK
  <1>1. Init => TypeInv
    BY PayoutAssumption DEF Init, TypeInv, TypeOK, ActiveOwes, Txn
  <1>2. TypeInv => TypeOK
    BY DEF TypeInv
  <1>3. QED BY <1>1, <1>2, TypeInvStep, PTL DEF Spec
---------------------------------------------------------------------------
(* DurableIntent holds in every behaviour: no request reaches Safaricom    *)
(* before its row is committed, and no row is ever removed.                *)
THEOREM IntentIsDurable == Spec => []DurableIntent
  <1>1. Init => DurableIntent
    BY DEF Init, DurableIntent
  <1>2. TypeOK /\ DurableIntent /\ [Next]_vars => DurableIntent'
    <2> SUFFICES ASSUME TypeOK, DurableIntent, [Next]_vars PROVE DurableIntent'
      OBVIOUS
    <2> USE LoanOfType DEF TypeOK, DurableIntent, Txn
    <2>1. ASSUME NEW p \in Payouts, Handle(p) PROVE DurableIntent'
      BY <2>1 DEF Handle, Check, Reserve, GiveUp, Send, SaveAccepted, SaveRefused, SaveUnknown
    <2>2. ASSUME NEW p \in Payouts, SafaricomSettles(p) PROVE DurableIntent'
      BY <2>2 DEF SafaricomSettles
    <2>3. ASSUME NEW s \in Settlers, NEW p \in Payouts, Begin(s, p) PROVE DurableIntent'
      BY <2>3 DEF Begin, ReadResult, ReadTimeout, ReadSweep, ReadResolve, Read
    <2>4. ASSUME NEW j \in jobs, Commit(j) PROVE DurableIntent'
      <3>1. \A p \in Payouts : txn[p].status # "none" => txn'[p].status # "none"
        BY <2>4 DEF Commit, Settled
      <3>2. QED BY <2>4, <3>1 DEF Commit
    <2>5. ASSUME NEW l \in Loans, Repay(l) PROVE DurableIntent'
      BY <2>5 DEF Repay
    <2>6. CASE Restart
      BY <2>6 DEF Restart
    <2>7. CASE ChangeCreds
      BY <2>7 DEF ChangeCreds
    <2>8. CASE UNCHANGED vars
      BY <2>8 DEF vars
    <2>9. QED BY <2>1, <2>2, <2>3, <2>4, <2>5, <2>6, <2>7, <2>8 DEF Next
  <1>3. QED BY <1>1, <1>2, TypeCorrect, PTL DEF Spec

---------------------------------------------------------------------------
(* What the records say is true, however settlements race, as long as      *)
(* staff leave running requests alone and change credentials when idle.    *)

LEMMA RecordInit == Init => HandlerState /\ OneMode /\ JobsTruthful /\ RecordIsTrue
  BY DEF Init, HandlerState, OneMode, Pending, JobsTruthful, RecordIsTrue

LEMMA RecordStep ==
  ASSUME Careful, RecordInv, [Next]_vars
  PROVE  HandlerState' /\ OneMode' /\ JobsTruthful' /\ RecordIsTrue'
  <1> USE LoanOfType DEF RecordInv, TypeOK, Txn, Careful
  <1>1. ASSUME NEW p \in Payouts, Handle(p)
        PROVE  HandlerState' /\ OneMode' /\ JobsTruthful' /\ RecordIsTrue'
    <2> USE <1>1
    <2>0. \A j \in jobs : j.payout \in Payouts
      BY DEF Job
    <2>1. CASE Check(p)
      BY <2>0, <2>1 DEF Check, HandlerState, OneMode, Pending, JobsTruthful, RecordIsTrue
    <2>2. CASE Reserve(p)
      BY <2>0, <2>2 DEF Reserve, HandlerState, OneMode, Pending, JobsTruthful, RecordIsTrue
    <2>3. CASE GiveUp(p)
      BY <2>0, <2>3 DEF GiveUp, HandlerState, OneMode, Pending, JobsTruthful, RecordIsTrue
    <2>4. CASE Send(p)
      BY <2>0, <2>4 DEF Send, b2c_disburse, guard_production_b2c, simulate_b2c_accept, get_access_token_fails,
                        HandlerState, OneMode, Pending, JobsTruthful, RecordIsTrue
    <2>5. CASE SaveAccepted(p)
      BY <2>0, <2>5 DEF SaveAccepted, HandlerState, OneMode, Pending, JobsTruthful, RecordIsTrue
    <2>6. CASE SaveRefused(p)
      BY <2>0, <2>6 DEF SaveRefused, HandlerState, OneMode, Pending, JobsTruthful, RecordIsTrue
    <2>7. CASE SaveUnknown(p)
      BY <2>0, <2>7 DEF SaveUnknown, HandlerState, OneMode, Pending, JobsTruthful, RecordIsTrue
    <2>8. QED BY <2>1, <2>2, <2>3, <2>4, <2>5, <2>6, <2>7 DEF Handle
  <1>2. ASSUME NEW p \in Payouts, SafaricomSettles(p)
        PROVE  HandlerState' /\ OneMode' /\ JobsTruthful' /\ RecordIsTrue'
    <2>0. \A j \in jobs : j.payout \in Payouts
      BY DEF Job
    <2>1. QED
      BY <1>2, <2>0 DEF SafaricomSettles, HandlerState, OneMode, Pending, JobsTruthful, RecordIsTrue
  <1>3. ASSUME NEW s \in Settlers, NEW p \in Payouts, Begin(s, p)
        PROVE  HandlerState' /\ OneMode' /\ JobsTruthful' /\ RecordIsTrue'
    <2>1. UNCHANGED <<loan, balance, txn, pc, mpesa, configured, restarts>>
      BY <1>3 DEF Begin, ReadResult, ReadTimeout, ReadSweep, ReadResolve, Read
    <2>2. HandlerState' /\ RecordIsTrue'
      BY <2>1 DEF HandlerState, RecordIsTrue
    <2>3. PICK kind \in {"settle", "timeout", "resolve"}, paid \in BOOLEAN :
               /\ Read(s, p, kind, paid)
               /\ txn[p].status \in OpenStates /\ pc[p] \notin InFlight
               /\ kind = "timeout" => mpesa[p] # "none"
               /\ kind # "timeout" => IF paid THEN mpesa[p] \in {"paid", "simulated"}
                                      ELSE mpesa[p] \in {"none", "declined", "simulated"}
      <3>1. CASE ReadResult(s, p)
        BY <3>1 DEF ReadResult, HandlerState
      <3>2. CASE ReadTimeout(s, p)
        BY <3>2 DEF ReadTimeout, HandlerState
      <3>3. CASE ReadSweep(s, p)
        BY <3>3 DEF ReadSweep, HandlerState, OneMode, Pending
      <3>4. CASE ReadResolve(s, p)
        BY <3>4 DEF ReadResolve, PortalShows, HandlerState
      <3>5. QED BY <1>3, <3>1, <3>2, <3>3, <3>4 DEF Begin
    <2>4. pc[p] = "done"
      BY <2>3 DEF HandlerState
    <2>5. JobsTruthful'
      BY <2>1, <2>3, <2>4 DEF Read, JobsTruthful
    <2>6. OneMode'
      <3>1. \A q \in Payouts : Pending(q)' => Pending(q)
        BY <2>1, <2>3 DEF Read, Pending
      <3>2. QED BY <2>1, <3>1 DEF OneMode
    <2>7. QED BY <2>2, <2>5, <2>6
  <1>4. ASSUME NEW j \in jobs, Commit(j)
        PROVE  HandlerState' /\ OneMode' /\ JobsTruthful' /\ RecordIsTrue'
    <2>1. /\ j.payout \in Payouts
          /\ \A k \in jobs : k.payout \in Payouts
      BY DEF Job
    <2>2. /\ \A q \in Payouts : q # j.payout => txn'[q] = txn[q]
          /\ txn'[j.payout] = Settled(txn[j.payout], j)
          /\ jobs' \subseteq jobs
          /\ UNCHANGED <<pc, mpesa, configured>>
      BY <1>4, <2>1 DEF Commit
    <2>3. /\ pc[j.payout] = "done"
          /\ txn'[j.payout].status \in {"timed_out", "success", "failed"}
          /\ txn'[j.payout].status = "timed_out" => mpesa[j.payout] # "none"
          /\ txn'[j.payout].status = "success" => mpesa[j.payout] \in {"paid", "simulated"}
          /\ txn'[j.payout].status = "failed" => mpesa[j.payout] \in {"none", "declined", "simulated"}
      BY <2>1, <2>2 DEF Settled, JobsTruthful
    <2>4. HandlerState'
      BY <2>1, <2>2, <2>3 DEF HandlerState
    <2>5. OneMode'
      <3>1. \A q \in Payouts : Pending(q)' => Pending(q)
        BY <2>1, <2>2 DEF Pending
      <3>2. QED BY <2>2, <3>1 DEF OneMode
    <2>6. RecordIsTrue'
      BY <2>1, <2>2, <2>3 DEF RecordIsTrue
    <2>7. JobsTruthful'
      BY <2>1, <2>2, <2>3 DEF JobsTruthful
    <2>8. QED BY <2>4, <2>5, <2>6, <2>7
  <1>5. ASSUME NEW l \in Loans, Repay(l)
        PROVE  HandlerState' /\ OneMode' /\ JobsTruthful' /\ RecordIsTrue'
    BY <1>5 DEF Repay, HandlerState, OneMode, Pending, JobsTruthful, RecordIsTrue
  <1>6. CASE Restart
    BY <1>6 DEF Restart, HandlerState, OneMode, Pending, JobsTruthful, RecordIsTrue
  <1>7. CASE ChangeCreds
    <2>1. \A p \in Payouts : ~Pending(p)'
      BY <1>7 DEF ChangeCreds, Pending, Open
    <2>2. QED BY <1>7, <2>1 DEF ChangeCreds, HandlerState, OneMode, JobsTruthful, RecordIsTrue
  <1>8. CASE UNCHANGED vars
    BY <1>8 DEF vars, HandlerState, OneMode, Pending, JobsTruthful, RecordIsTrue
  <1>9. QED BY <1>1, <1>2, <1>3, <1>4, <1>5, <1>6, <1>7, <1>8 DEF Next

(* RecordIsTrue holds if staff only resolve payouts whose request has       *)
(* ended and credentials change only while no payout is pending.            *)
THEOREM RecordsAreTrue == ASSUME Careful PROVE Spec => [](RecordInv /\ RecordIsTrue)
  <1>1. Init => RecordInv
    BY RecordInit, PayoutAssumption DEF Init, RecordInv, TypeOK, ActiveOwes, Txn
  <1>2. RecordInv /\ [Next]_vars => RecordInv'
    BY Careful, RecordStep, TypeInvStep DEF RecordInv, TypeInv
  <1>3. RecordInv => RecordIsTrue
    BY DEF RecordInv
  <1>4. QED BY <1>1, <1>2, <1>3, PTL DEF Spec

---------------------------------------------------------------------------
(* With one settlement at a time: the loan and its rows agree.             *)

LEMMA SerialStep ==
  ASSUME Serial, Careful, SerialInv, [Next]_vars
  PROVE  OneLive' /\ JobsFresh'
  <1> USE LoanOfType DEF SerialInv, RecordInv, TypeOK, Txn, Live
  <1>0. \A j \in jobs : j.payout \in Payouts /\ pc[j.payout] = "done"
    BY DEF Job, JobsTruthful
  <1>1. ASSUME NEW p \in Payouts, Handle(p) PROVE OneLive' /\ JobsFresh'
    <2>1. CASE Check(p) \/ GiveUp(p) \/ Send(p)
      BY <1>0, <2>1 DEF Check, GiveUp, Send, OneLive, JobsFresh
    <2>2. CASE Reserve(p)
      <3>1. \A q \in Payouts : LoanOf[q] = LoanOf[p] => ~Live(q)
        BY <2>2 DEF Reserve, OneLive
      <3>2. OneLive'
        BY <2>2, <3>1 DEF Reserve, OneLive
      <3>3. JobsFresh'
        BY <1>0, <2>2 DEF Reserve, JobsFresh
      <3>4. QED BY <3>2, <3>3
    <2>3. CASE SaveAccepted(p)
      BY <1>0, <2>3 DEF SaveAccepted, HandlerState, OneLive, JobsFresh
    <2>4. CASE SaveRefused(p)
      <3>1. txn[p].status = "initiated" /\ loan[LoanOf[p]] = "processing"
        BY <2>4 DEF SaveRefused, HandlerState, OneLive
      <3>2. \A q \in Payouts : LoanOf[q] = LoanOf[p] /\ q # p => ~Live(q)
        BY <3>1 DEF OneLive
      <3>3. OneLive'
        BY <2>4, <3>1, <3>2 DEF SaveRefused, OneLive
      <3>4. JobsFresh'
        BY <1>0, <2>4 DEF SaveRefused, JobsFresh
      <3>5. QED BY <3>3, <3>4
    <2>5. CASE SaveUnknown(p)
      BY <1>0, <2>5 DEF SaveUnknown, HandlerState, OneLive, JobsFresh
    <2>6. QED BY <1>1, <2>1, <2>2, <2>3, <2>4, <2>5 DEF Handle
  <1>2. ASSUME NEW p \in Payouts, SafaricomSettles(p) PROVE OneLive' /\ JobsFresh'
    BY <1>2 DEF SafaricomSettles, OneLive, JobsFresh
  <1>3. ASSUME NEW s \in Settlers, NEW p \in Payouts, Begin(s, p) PROVE OneLive' /\ JobsFresh'
    <2>1. PICK kind \in {"settle", "timeout", "resolve"}, paid \in BOOLEAN : Read(s, p, kind, paid)
      BY <1>3 DEF Begin, ReadResult, ReadTimeout, ReadSweep, ReadResolve
    <2>2. txn[p].status \in OpenStates
      BY <1>3 DEF Begin, ReadResult, ReadTimeout, ReadSweep, ReadResolve
    <2>3. jobs = {}
      BY <2>1, Serial DEF Serial, Read, Idle, Job
    <2>4. loan[LoanOf[p]] = "processing"
      BY <2>2 DEF OneLive
    <2>5. QED BY <2>1, <2>2, <2>3, <2>4 DEF Read, OneLive, JobsFresh
  <1>4. ASSUME NEW j \in jobs, Commit(j) PROVE OneLive' /\ JobsFresh'
    <2> DEFINE p == j.payout
    <2>1. /\ p \in Payouts /\ LoanOf[p] \in Loans
          /\ txn[p].status \in OpenStates /\ j.loan = "processing"
          /\ loan[LoanOf[p]] = "processing"
      BY <1>0 DEF JobsFresh, OneLive
    <2>2. \A q \in Payouts : LoanOf[q] = LoanOf[p] /\ q # p => ~Live(q)
      BY <2>1 DEF OneLive
    <2>3. JobsFresh'
      BY <1>4 DEF Commit, JobsFresh
    <2>4. CASE j.kind = "timeout"
      <3>1. txn' = [txn EXCEPT ![p] = [txn[p] EXCEPT !.status = "timed_out"]] /\ loan' = loan
        BY <1>4, <2>1, <2>4 DEF Commit, Settled
      <3>2. OneLive'
        BY <2>1, <2>2, <3>1 DEF OneLive
      <3>3. QED BY <2>3, <3>2
    <2>5. CASE j.kind # "timeout" /\ j.paid
      <3>1. /\ txn' = [txn EXCEPT ![p] = [txn[p] EXCEPT !.status = "success", !.ref = "receipt"]]
            /\ loan' = [loan EXCEPT ![LoanOf[p]] = "active"]
        BY <1>4, <2>1, <2>5 DEF Commit, Settled
      <3>2. OneLive'
        BY <2>1, <2>2, <3>1 DEF OneLive
      <3>3. QED BY <2>3, <3>2
    <2>6. CASE j.kind # "timeout" /\ ~j.paid
      <3>1. /\ txn' = [txn EXCEPT ![p] = [txn[p] EXCEPT !.status = "failed"]]
            /\ loan' = [loan EXCEPT ![LoanOf[p]] = "approved"]
        BY <1>4, <2>1, <2>6 DEF Commit, Settled
      <3>2. OneLive'
        BY <2>1, <2>2, <3>1 DEF OneLive
      <3>3. QED BY <2>3, <3>2
    <2>7. QED BY <2>4, <2>5, <2>6
  <1>5. ASSUME NEW l \in Loans, Repay(l) PROVE OneLive' /\ JobsFresh'
    BY <1>5 DEF Repay, OneLive, JobsFresh
  <1>6. CASE Restart
    BY <1>6 DEF Restart, OneLive, JobsFresh
  <1>7. CASE ChangeCreds
    BY <1>7 DEF ChangeCreds, OneLive, JobsFresh
  <1>8. CASE UNCHANGED vars
    BY <1>8 DEF vars, OneLive, JobsFresh
  <1>9. QED BY <1>1, <1>2, <1>3, <1>4, <1>5, <1>6, <1>7, <1>8 DEF Next

(* Only a live row has, or counts as, money behind it. *)
LEMMA PaidIsLive ==
  ASSUME SerialInv, NEW l \in Loans, NEW p \in PaidOut(l)
  PROVE  p \in Payouts /\ LoanOf[p] = l /\ Live(p)
  BY DEF PaidOut, SerialInv, RecordInv, TypeOK, Txn, HandlerState, RecordIsTrue, Live

(* The inductive invariant of serial settlement. *)
LEMMA SerialHolds == ASSUME Serial, Careful PROVE Spec => []SerialInv
  <1>1. Init => SerialInv
    BY RecordInit, PayoutAssumption
       DEF Init, SerialInv, RecordInv, TypeOK, ActiveOwes, Txn, OneLive, JobsFresh, Live
  <1>2. SerialInv /\ [Next]_vars => SerialInv'
    BY Serial, Careful, SerialStep, RecordStep, TypeInvStep DEF SerialInv, RecordInv, TypeInv
  <1>3. QED BY <1>1, <1>2, PTL DEF Spec

(* MPESA-03, any number of attempts and restarts: with one settlement at a  *)
(* time no loan is paid out twice.                                          *)
THEOREM PaidOnce == ASSUME Serial, Careful PROVE Spec => []NoDoublePayout
  <1>1. SerialInv => NoDoublePayout
    BY PaidIsLive DEF NoDoublePayout, SerialInv, OneLive
  <1>2. QED BY <1>1, SerialHolds, Serial, Careful, PTL

(* MPESA-01: an active or paid loan has its transfer, an approved one none. *)
THEOREM LoanAgrees == ASSUME Serial, Careful PROVE Spec => []LoanMatchesMoney
  <1>1. SerialInv => LoanMatchesMoney
    <2> SUFFICES ASSUME SerialInv, NEW l \in Loans
                 PROVE  /\ loan[l] \in {"active", "paid"} => PaidOut(l) # {}
                        /\ loan[l] = "approved" => PaidOut(l) = {} /\ ~Open(l)
      BY DEF LoanMatchesMoney
    <2>1. ASSUME loan[l] \in {"active", "paid"} PROVE PaidOut(l) # {}
      <3>1. PICK p \in Payouts : LoanOf[p] = l /\ Live(p)
        BY <2>1 DEF SerialInv, OneLive
      <3>2. txn[p].status = "success"
        BY <2>1, <3>1 DEF SerialInv, OneLive, Live
      <3>3. QED BY <3>1, <3>2 DEF PaidOut
    <2>2. ASSUME loan[l] = "approved" PROVE PaidOut(l) = {} /\ ~Open(l)
      <3>1. \A p \in Payouts : LoanOf[p] = l => ~Live(p)
        BY <2>2 DEF SerialInv, OneLive, Live
      <3>2. QED BY <3>1, PaidIsLive DEF Open, Live
    <2>3. QED BY <2>1, <2>2
  <1>2. QED BY <1>1, SerialHolds, Serial, Careful, PTL

(* "A repeat delivery is a no-op": with every settlement that had found the  *)
(* loan in `processing` over, no delivery, sweep or resolution of any thread*)
(* takes the loan out of repayment or raises its balance.                   *)
THEOREM RepeatIsNoOp == Spec => RepeatDeliveryIsNoOp
  <1> DEFINE NoRaise == \A l \in Loans : InRepayment(l) => InRepayment(l)' /\ balance'[l] <= balance[l]
  <1>1. TypeOK /\ [Next]_vars => [NoRaise]_vars
    <2> SUFFICES ASSUME TypeOK, Next, NEW l \in Loans, InRepayment(l)
                 PROVE  InRepayment(l)' /\ balance'[l] <= balance[l]
      BY DEF vars
    <2> USE LoanOfType DEF TypeOK
    <2>1. balance[l] \in Nat /\ loan[l] \in {"active", "paid"}
      BY PayoutAssumption DEF InRepayment
    <2>2. ASSUME NEW j \in jobs, Commit(j) PROVE InRepayment(l)' /\ balance'[l] <= balance[l]
      <3>1. j.payout \in Payouts /\ (LoanOf[j.payout] = l => j.loan # "processing")
        BY DEF Job, InRepayment
      <3>2. loan'[l] = loan[l] /\ balance'[l] = balance[l] /\ jobs' \subseteq jobs
        BY <2>2, <3>1 DEF Commit
      <3>3. QED BY <2>1, <3>2 DEF InRepayment
    <2>3. ASSUME NEW k \in Loans, Repay(k) PROVE InRepayment(l)' /\ balance'[l] <= balance[l]
      <3>1. balance'[l] \in {balance[l], balance[l] - 1} /\ loan'[l] \in {loan[l], "paid"} /\ jobs' = jobs
        BY <2>3 DEF Repay
      <3>2. QED BY <2>1, <3>1 DEF InRepayment
    <2>4. ASSUME NEW p \in Payouts, Handle(p) \/ SafaricomSettles(p)
          PROVE  InRepayment(l)' /\ balance'[l] <= balance[l]
      <3>1. loan'[l] = loan[l] /\ UNCHANGED <<balance, jobs>>
        BY <2>1, <2>4 DEF Handle, Check, Reserve, GiveUp, Send, SaveAccepted, SaveRefused,
                          SaveUnknown, SafaricomSettles
      <3>2. QED BY <2>1, <3>1 DEF InRepayment
    <2>5. ASSUME NEW s \in Settlers, NEW p \in Payouts, NEW kind, NEW paid, Read(s, p, kind, paid)
          PROVE  InRepayment(l)' /\ balance'[l] <= balance[l]
      <3> DEFINE job == [by |-> s, kind |-> kind, payout |-> p, loan |-> loan[LoanOf[p]], paid |-> paid]
      <3>1. jobs' = jobs \cup {job} /\ UNCHANGED <<loan, balance>>
        BY <2>5 DEF Read
      <3>2. job.payout = p /\ job.loan = loan[LoanOf[p]]
        OBVIOUS
      <3>3. QED BY <2>1, <3>1, <3>2 DEF InRepayment
    <2>6. ASSUME NEW s \in Settlers, NEW p \in Payouts, Begin(s, p)
          PROVE  InRepayment(l)' /\ balance'[l] <= balance[l]
      BY <2>5, <2>6 DEF Begin, ReadResult, ReadTimeout, ReadSweep, ReadResolve
    <2>7. CASE Restart \/ ChangeCreds
      <3>1. jobs' \subseteq jobs /\ UNCHANGED <<loan, balance>>
        BY <2>7 DEF Restart, ChangeCreds
      <3>2. QED BY <2>1, <3>1 DEF InRepayment
    <2>8. QED BY <2>2, <2>3, <2>4, <2>6, <2>7 DEF Next
  <1>2. QED BY <1>1, TypeCorrect, PTL DEF RepeatDeliveryIsNoOp, Spec

---------------------------------------------------------------------------
(* Payout implements PayoutPromise: each step is a promised one or changes *)
(* neither the loan's status nor what has been paid for it.                *)

LEMMA SameStatus ==
  ASSUME loan' = loan, \A l \in Loans : PaidOut(l)' = PaidOut(l)
  PROVE  UNCHANGED Promise!promiseVars
  BY DEF Promise!promiseVars

LEMMA OnePaid ==
  ASSUME NEW l \in Loans, NEW S, PaidOut(l)' = S,
         \A k \in Loans : k # l => PaidOut(k)' = PaidOut(k)
  PROVE  [k \in Loans |-> PaidOut(k)]' = [[k \in Loans |-> PaidOut(k)] EXCEPT ![l] = S]
  OBVIOUS

(* What is paid for a loan with an open payout can only be that payout. *)
LEMMA OpenIsOnly ==
  ASSUME SerialInv, NEW p \in Payouts, txn[p].status \in OpenStates
  PROVE  /\ loan[LoanOf[p]] = "processing"
         /\ PaidOut(LoanOf[p]) = IF mpesa[p] = "paid" THEN {p} ELSE {}
  <1>1. loan[LoanOf[p]] = "processing" /\ Live(p)
    BY DEF SerialInv, OneLive, Live
  <1>2. \A q \in PaidOut(LoanOf[p]) : q = p
    BY <1>1, PaidIsLive, LoanOfType DEF SerialInv, OneLive
  <1>3. p \in PaidOut(LoanOf[p]) <=> mpesa[p] = "paid"
    BY DEF PaidOut
  <1>4. QED BY <1>1, <1>2, <1>3

LEMMA PromiseStep ==
  ASSUME Careful, SerialInv, [Next]_vars
  PROVE  [Promise!Next]_Promise!promiseVars
  <1> USE LoanOfType DEF SerialInv, RecordInv, TypeOK, Txn
  <1>1. ASSUME NEW p \in Payouts, Handle(p) PROVE [Promise!Next]_Promise!promiseVars
    <2> DEFINE l == LoanOf[p]
    <2>1. CASE Check(p) \/ GiveUp(p)
      BY <2>1, SameStatus DEF Check, GiveUp, PaidOut
    <2>2. CASE Reserve(p)
      <3>1. \A k \in Loans : PaidOut(k)' = PaidOut(k)
        BY <2>2 DEF Reserve, PaidOut, HandlerState
      <3>2. Promise!Reserve(l)
        BY <2>2, <3>1 DEF Reserve, Promise!Reserve, Promise!Move
      <3>3. QED BY <3>2 DEF Promise!Next
    <2>3. CASE Send(p)
      <3>1. \A k \in Loans : PaidOut(k)' = PaidOut(k)
        BY <2>3 DEF Send, b2c_disburse, guard_production_b2c, simulate_b2c_accept, get_access_token_fails, PaidOut, HandlerState
      <3>2. QED BY <2>3, <3>1, SameStatus DEF Send
    <2>4. CASE SaveAccepted(p) \/ SaveUnknown(p)
      <3>1. \A k \in Loans : PaidOut(k)' = PaidOut(k)
        BY <2>4 DEF SaveAccepted, SaveUnknown, PaidOut, HandlerState
      <3>2. QED BY <2>4, <3>1, SameStatus DEF SaveAccepted, SaveUnknown
    <2>5. CASE SaveRefused(p)
      <3>1. txn[p].status = "initiated" /\ mpesa[p] = "none"
        BY <2>5 DEF SaveRefused, HandlerState
      <3>2. loan[l] = "processing" /\ PaidOut(l) = {}
        BY <3>1, OpenIsOnly
      <3>3. \A k \in Loans : PaidOut(k)' = PaidOut(k)
        BY <2>5, <3>1 DEF SaveRefused, PaidOut
      <3>4. Promise!Release(l)
        BY <2>5, <3>2, <3>3 DEF SaveRefused, Promise!Release, Promise!Move
      <3>5. QED BY <3>4 DEF Promise!Next
    <2>6. QED BY <1>1, <2>1, <2>2, <2>3, <2>4, <2>5 DEF Handle
  <1>2. ASSUME NEW p \in Payouts, SafaricomSettles(p) PROVE [Promise!Next]_Promise!promiseVars
    <2>1. txn[p].status \in OpenStates
      BY <1>2 DEF SafaricomSettles, HandlerState, RecordIsTrue
    <2>2. loan[LoanOf[p]] = "processing" /\ PaidOut(LoanOf[p]) = {}
      BY <1>2, <2>1, OpenIsOnly DEF SafaricomSettles
    <2>3. CASE mpesa'[p] = "paid"
      <3>1. PaidOut(LoanOf[p])' = {p}
        BY <1>2, <2>2, <2>3 DEF SafaricomSettles, PaidOut
      <3>2. \A k \in Loans : k # LoanOf[p] => PaidOut(k)' = PaidOut(k)
        BY <1>2 DEF SafaricomSettles, PaidOut
      <3>3. Promise!Transfer(LoanOf[p])
        <4>1. [k \in Loans |-> PaidOut(k)]'
                = [[k \in Loans |-> PaidOut(k)] EXCEPT ![LoanOf[p]] = {p}]
          BY <3>1, <3>2, OnePaid
        <4>2. QED BY <1>2, <2>2, <4>1 DEF SafaricomSettles, Promise!Transfer
      <3>4. QED BY <3>3 DEF Promise!Next
    <2>4. CASE mpesa'[p] # "paid"
      <3>1. \A k \in Loans : PaidOut(k)' = PaidOut(k)
        BY <1>2, <2>4 DEF SafaricomSettles, PaidOut
      <3>2. QED BY <1>2, <3>1, SameStatus DEF SafaricomSettles
    <2>5. QED BY <2>3, <2>4
  <1>3. ASSUME NEW s \in Settlers, NEW p \in Payouts, Begin(s, p)
        PROVE  [Promise!Next]_Promise!promiseVars
    BY <1>3, SameStatus DEF Begin, ReadResult, ReadTimeout, ReadSweep, ReadResolve, Read, PaidOut
  <1>4. ASSUME NEW j \in jobs, Commit(j) PROVE [Promise!Next]_Promise!promiseVars
    <2> DEFINE p == j.payout
               l == LoanOf[p]
    <2>1. /\ p \in Payouts /\ l \in Loans
          /\ txn[p].status \in OpenStates /\ j.loan = "processing"
      BY DEF Job, JobsFresh
    <2>2. loan[l] = "processing" /\ PaidOut(l) = IF mpesa[p] = "paid" THEN {p} ELSE {}
      BY <2>1, OpenIsOnly
    <2>3. /\ mpesa' = mpesa
          /\ txn' = [txn EXCEPT ![p] = Settled(txn[p], j)]
      BY <1>4 DEF Commit
    <2>4. \A k \in Loans : k # l => PaidOut(k)' = PaidOut(k)
      BY <2>1, <2>3 DEF PaidOut
    <2>5. CASE j.kind = "timeout"
      <3>1. txn'[p].status = "timed_out" /\ loan' = loan
        BY <1>4, <2>1, <2>3, <2>5 DEF Commit, Settled
      <3>2. PaidOut(l)' = PaidOut(l)
        BY <2>1, <2>3, <3>1 DEF PaidOut
      <3>3. QED BY <2>4, <3>1, <3>2, SameStatus
    <2>6. CASE j.kind # "timeout" /\ j.paid
      <3>1. txn'[p].status = "success" /\ loan' = [loan EXCEPT ![l] = "active"]
        BY <1>4, <2>1, <2>3, <2>6 DEF Commit, Settled
      <3>2. PaidOut(l)' = PaidOut(l) \cup {p}
        BY <2>1, <2>3, <3>1 DEF PaidOut
      <3>3. PaidOut(l) \subseteq {p} /\ PaidOut(l)' = {p}
        BY <2>2, <3>2
      <3>4. Promise!Activate(l)
        <4>1. [k \in Loans |-> PaidOut(k)]' = [[k \in Loans |-> PaidOut(k)] EXCEPT ![l] = {p}]
          BY <2>1, <2>4, <3>3, OnePaid
        <4>2. QED BY <2>1, <2>2, <3>1, <3>3, <4>1 DEF Promise!Activate, Promise!Move
      <3>5. QED BY <2>1, <3>4 DEF Promise!Next
    <2>7. CASE j.kind # "timeout" /\ ~j.paid
      <3>1. txn'[p].status = "failed" /\ loan' = [loan EXCEPT ![l] = "approved"]
        BY <1>4, <2>1, <2>3, <2>7 DEF Commit, Settled
      <3>2. mpesa[p] # "paid"
        BY <2>7 DEF JobsTruthful
      <3>3. PaidOut(l) = {} /\ PaidOut(l)' = {}
        BY <2>1, <2>2, <2>3, <3>1, <3>2 DEF PaidOut
      <3>4. Promise!Release(l)
        <4>1. \A k \in Loans : PaidOut(k)' = PaidOut(k)
          BY <2>4, <3>3
        <4>2. QED BY <2>1, <2>2, <3>1, <3>3, <4>1 DEF Promise!Release, Promise!Move
      <3>5. QED BY <2>1, <3>4 DEF Promise!Next
    <2>8. QED BY <2>5, <2>6, <2>7
  <1>5. ASSUME NEW l \in Loans, Repay(l) PROVE [Promise!Next]_Promise!promiseVars
    <2>1. \A k \in Loans : PaidOut(k)' = PaidOut(k)
      BY <1>5 DEF Repay, PaidOut
    <2>2. CASE balance[l] = 1
      <3>1. Promise!Close(l)
        BY <1>5, <2>1, <2>2 DEF Repay, Promise!Close, Promise!Move
      <3>2. QED BY <3>1 DEF Promise!Next
    <2>3. CASE balance[l] # 1
      BY <1>5, <2>1, <2>3, SameStatus DEF Repay
    <2>4. QED BY <2>2, <2>3
  <1>6. CASE Restart
    BY <1>6, SameStatus DEF Restart, PaidOut
  <1>7. CASE ChangeCreds
    BY <1>7, SameStatus DEF ChangeCreds, PaidOut
  <1>8. CASE UNCHANGED vars
    BY <1>8, SameStatus DEF vars, PaidOut
  <1>9. QED BY <1>1, <1>2, <1>3, <1>4, <1>5, <1>6, <1>7, <1>8 DEF Next

(* The payout of disbursement.py, crashes and lost answers included, is the *)
(* promised one: reserved, transferred at most once, released only unpaid.  *)
THEOREM ImplementsPromise == ASSUME Serial, Careful PROVE Spec => PromiseSpec
  <1>1. Init => Promise!Init
    BY DEF Init, Promise!Init, PaidOut
  <1>2. SerialInv /\ [Next]_vars => [Promise!Next]_Promise!promiseVars
    BY Careful, PromiseStep
  <1>3. QED BY <1>1, <1>2, SerialHolds, Serial, Careful, PTL DEF Spec, PromiseSpec, Promise!Spec
===========================================================================
