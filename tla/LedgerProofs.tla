---------------------------- MODULE LedgerProofs ----------------------------
(***************************************************************************)
(* Proofs about Ledger, for any loans, receipts, amounts and threads.      *)
(* Base is inductive by itself.  With Orderly, what a thread writes from is *)
(* what the rows hold (SnapshotsTrue), and payments serialise.  Without any *)
(* condition, however stale what the threads have read: the second look-up, *)
(* the row lock and the unique indexes keep a receipt from being booked     *)
(* twice (JobsApart, ReceiptState), and a paid loan that nobody is about to *)
(* write stays paid.                                                        *)
(***************************************************************************)
EXTENDS Ledger, TLAPS

Base == TypeOK /\ LockedAlone /\ LoanlessParks

(* What a commit of apply_payment does to the rows. *)
LEMMA ApplyFacts ==
  ASSUME Base, NEW j \in jobs, Apply(j)
  PROVE  /\ j.loan \in Loans /\ j.locked
         /\ \E u, a, o \in Nat :
              /\ repaid' = [repaid EXCEPT ![j.receipt] = @ + a]
              /\ collected' = [collected EXCEPT ![j.loan] = @ + a]
              /\ excess' = [excess EXCEPT ![j.receipt] = @ + o]
              /\ a + u <= j.balance
              /\ excess[j.receipt] = 0 \/ j.channel \in Allocations => a + o = Amount[j.receipt]
              /\ \/ /\ a + u = j.balance
                    /\ loan' = [loan EXCEPT ![j.loan] = "paid"]
                    /\ balance' = IF j.balance = 0 THEN balance ELSE [balance EXCEPT ![j.loan] = 0]
                    /\ written' = [written EXCEPT ![j.loan] = @ + u]
                 \/ /\ a < j.balance
                    /\ loan' = loan /\ written' = written
                    /\ balance' = [balance EXCEPT ![j.loan] = j.balance - a]
<1> USE LedgerAssumption DEF LedgerAssumption, Base
<1>1. j \in Job BY DEF TypeOK
<1>2. j.loan \in Loans /\ j.locked BY <1>1 DEF Apply, Ready, LoanlessParks, Job
<1>3. Amount[j.receipt] \in Nat \ {0} /\ excess[j.receipt] \in Nat BY <1>1 DEF Job, TypeOK
<1>4. PICK u \in Nat :
        /\ u <= j.balance
        /\ repaid' = [repaid EXCEPT ![j.receipt] = @ + Applied(j, u)]
        /\ collected' = [collected EXCEPT ![j.loan] = @ + Applied(j, u)]
        /\ excess' = [excess EXCEPT ![j.receipt] = @ + Over(j, u)]
        /\ IF Closes(j, u)
            THEN /\ loan' = [loan EXCEPT ![j.loan] = "paid"]
                 /\ balance' = IF j.balance = 0 THEN balance ELSE [balance EXCEPT ![j.loan] = 0]
                 /\ written' = [written EXCEPT ![j.loan] = @ + u]
            ELSE /\ balance' = [balance EXCEPT ![j.loan] = j.balance - Applied(j, u)]
                 /\ UNCHANGED <<loan, written>>
  <2>1. (IF j.receipt \in Early THEN 0..Unearned ELSE {0}) \subseteq Nat OBVIOUS
  <2> QED BY <2>1 DEF Apply
<1>5. /\ Applied(j, u) \in Nat /\ Over(j, u) \in Nat /\ Applied(j, u) + u <= j.balance
      /\ excess[j.receipt] = 0 \/ j.channel \in Allocations
           => Applied(j, u) + Over(j, u) = Amount[j.receipt]
      /\ Closes(j, u) => Applied(j, u) + u = j.balance
      /\ ~Closes(j, u) => Applied(j, u) < j.balance
  BY <1>1, <1>3, <1>4 DEF Job, Applied, Over, Closes, Payoff
<1> QED BY <1>2, <1>4, <1>5

LEMMA BaseInit == Init => Base
BY LedgerAssumption DEF LedgerAssumption, Init, Base, TypeOK, LockedAlone, LoanlessParks, Status

LEMMA BaseStep == Base /\ [Next]_vars => Base'
<1> SUFFICES ASSUME Base, [Next]_vars PROVE Base' OBVIOUS
<1> USE LedgerAssumption DEF LedgerAssumption
<1>1. ASSUME NEW t \in Threads, NEW c \in Channels, NEW r \in Receipts,
             NEW l \in Loans \cup {NoLoan}, Begin(t, c, r, l)
      PROVE  Base'
  <2> DEFINE new == [by |-> t, channel |-> c, receipt |-> r, loan |-> l, locked |-> FALSE,
                     status |-> IF l = NoLoan THEN "paid" ELSE loan[l],
                     balance |-> IF l = NoLoan THEN 0 ELSE balance[l]]
  <2>1. new \in Job BY DEF Base, TypeOK, Job, Status
  <2>2. jobs' = jobs \cup {new} BY <1>1 DEF Begin
  <2>3. ~new.locked /\ (new.loan = NoLoan => Parks(new)) BY DEF Parks, Collectible
  <2> HIDE DEF new
  <2>4. TypeOK' BY <1>1, <2>1, <2>2 DEF Begin, Base, TypeOK, rows
  <2>5. LockedAlone' BY <2>2, <2>3 DEF Base, LockedAlone
  <2>6. LoanlessParks' BY <2>2, <2>3 DEF Base, LoanlessParks, Parks
  <2> QED BY <2>4, <2>5, <2>6 DEF Base
<1>2. ASSUME NEW j \in jobs, Lock(j) PROVE Base'
  <2> DEFINE new == [j EXCEPT !.locked = TRUE, !.status = SeenStatus(j),
                              !.balance = SeenBalance(j)]
  <2>1. j \in Job /\ j.loan \in Loans BY <1>2 DEF Lock, AtLock, Base, TypeOK, Job
  <2>2. SeenStatus(j) \in Status /\ SeenBalance(j) \in Nat
    BY <2>1 DEF SeenStatus, SeenBalance, Base, TypeOK, Job
  <2>3. new \in Job /\ new.loan = j.loan /\ new.locked BY <2>1, <2>2 DEF Job
  <2>4. jobs' = (jobs \ {j}) \cup {new} BY <1>2 DEF Lock
  <2> HIDE DEF new
  <2>a. missed' \subseteq Receipts BY <1>2, <2>1 DEF Lock, Base, TypeOK, Job
  <2>5. TypeOK' BY <1>2, <2>3, <2>4, <2>a DEF Lock, Base, TypeOK, rows
  <2>6. LockedAlone' BY <1>2, <2>1, <2>3, <2>4 DEF Lock, AtLock, LoanFree, Base, LockedAlone
  <2>7. LoanlessParks' BY <2>1, <2>3, <2>4 DEF Base, LoanlessParks, Parks
  <2> QED BY <2>5, <2>6, <2>7 DEF Base
<1>3. ASSUME NEW j \in jobs, jobs' \subseteq jobs PROVE LockedAlone' /\ LoanlessParks'
  BY <1>3 DEF Base, LockedAlone, LoanlessParks, Parks
<1>4. ASSUME NEW j \in jobs, Drop(j) PROVE Base'
  <2>1. TypeOK' BY <1>4 DEF Drop, Base, TypeOK
  <2> QED BY <1>3, <1>4, <2>1 DEF Drop, Base
<1>5. ASSUME NEW j \in jobs, Fail(j) PROVE Base'
  <2>1. TypeOK' BY <1>5 DEF Fail, Base, TypeOK, rows
  <2> QED BY <1>3, <1>5, <2>1 DEF Fail, Base
<1>6. ASSUME NEW j \in jobs, Park(j) PROVE Base'
  <2>1. TypeOK' BY <1>6 DEF Park, Banked, Base, TypeOK
  <2> QED BY <1>3, <1>6, <2>1 DEF Park, Base
<1>7. ASSUME NEW j \in jobs, Apply(j) PROVE Base'
  <2>1. j \in Job BY DEF Base, TypeOK
  <2>2. /\ loan' \in [Loans -> Status] /\ balance' \in [Loans -> Nat]
        /\ written' \in [Loans -> Nat] /\ collected' \in [Loans -> Nat]
        /\ repaid' \in [Receipts -> Nat] /\ excess' \in [Receipts -> Nat]
    <3>1. PICK u, a, o \in Nat :
            /\ repaid' = [repaid EXCEPT ![j.receipt] = @ + a]
            /\ collected' = [collected EXCEPT ![j.loan] = @ + a]
            /\ excess' = [excess EXCEPT ![j.receipt] = @ + o]
            /\ a + u <= j.balance
            /\ excess[j.receipt] = 0 \/ j.channel \in Allocations => a + o = Amount[j.receipt]
            /\ \/ /\ a + u = j.balance
                  /\ loan' = [loan EXCEPT ![j.loan] = "paid"]
                  /\ balance' = IF j.balance = 0 THEN balance ELSE [balance EXCEPT ![j.loan] = 0]
                  /\ written' = [written EXCEPT ![j.loan] = @ + u]
               \/ /\ a < j.balance
                  /\ loan' = loan /\ written' = written
                  /\ balance' = [balance EXCEPT ![j.loan] = j.balance - a]
      BY <1>7, ApplyFacts
    <3>2. j.balance \in Nat /\ j.balance - a \in Nat BY <2>1, <3>1 DEF Job
    <3>3. /\ repaid' \in [Receipts -> Nat]
          /\ excess' \in [Receipts -> Nat]
          /\ collected' \in [Loans -> Nat]
      <4>1. repaid \in [Receipts -> Nat] /\ excess \in [Receipts -> Nat]
            /\ collected \in [Loans -> Nat]
        BY DEF Base, TypeOK
      <4>2. j.receipt \in Receipts /\ j.loan \in Loans BY <1>7, <2>1, ApplyFacts DEF Job
      <4>3. repaid' \in [Receipts -> Nat] BY <3>1, <4>1, <4>2
      <4>4. excess' \in [Receipts -> Nat] BY <3>1, <4>1, <4>2
      <4>5. collected' \in [Loans -> Nat] BY <3>1, <4>1, <4>2
      <4> QED BY <4>3, <4>4, <4>5
    <3>4. written' \in [Loans -> Nat] BY <3>1 DEF Base, TypeOK
    <3>5. balance' \in [Loans -> Nat] BY <3>1, <3>2 DEF Base, TypeOK
    <3>6. loan' \in [Loans -> Status] BY <3>1 DEF Base, TypeOK, Status
    <3> QED BY <3>3, <3>4, <3>5, <3>6
  <2>3. TypeOK' BY <1>7, <2>2 DEF Apply, Banked, Base, TypeOK
  <2> QED BY <1>3, <1>7, <2>3 DEF Apply, Base
<1>8. ASSUME NEW t \in Threads, NEW k \in Sweeps, BeginSweep(t, k) PROVE Base'
  <2>1. PICK late \in SUBSET Late(k) \ {{}} :
          sweeps' = sweeps \cup {[by |-> t, kind |-> k, late |-> late,
                       balance |-> [l \in Loans |-> IF l \in late THEN balance[l] ELSE 0]]}
    BY <1>8 DEF BeginSweep
  <2> DEFINE new == [by |-> t, kind |-> k, late |-> late,
                     balance |-> [l \in Loans |-> IF l \in late THEN balance[l] ELSE 0]]
  <2>2. late \in SUBSET Loans BY DEF Late
  <2>3. [l \in Loans |-> IF l \in late THEN balance[l] ELSE 0] \in [Loans -> Nat]
    BY DEF Base, TypeOK
  <2>4. new \in Sweep BY <2>2, <2>3 DEF Sweep
  <2>5. sweeps' \subseteq Sweep BY <2>1, <2>4 DEF Base, TypeOK
  <2>6. TypeOK' BY <1>8, <2>5 DEF BeginSweep, Base, TypeOK, rows
  <2> QED BY <1>8, <2>6 DEF BeginSweep, Base, LockedAlone, LoanlessParks, Parks
<1>9. ASSUME NEW s \in sweeps, CommitSweep(s) PROVE Base'
  <2>1. s \in Sweep BY DEF Base, TypeOK
  <2>2. TypeOK' BY <1>9, <2>1 DEF CommitSweep, Base, TypeOK, Sweep, Status
  <2> QED BY <1>9, <2>2 DEF CommitSweep, Base, LockedAlone, LoanlessParks, Parks
<1>10. CASE UNCHANGED vars
  BY <1>10 DEF vars, Base, TypeOK, LockedAlone, LoanlessParks, Parks
<1>11. ASSUME NEW r \in Receipts, Ask(r) \/ stk_push(r) \/ FailPrompt(r) PROVE Base'
  <2>1. TypeOK' BY <1>11 DEF Ask, stk_push, FailPrompt, Base, TypeOK, rows
  <2>2. jobs' = jobs BY <1>11 DEF Ask, stk_push, FailPrompt
  <2> QED BY <2>1, <2>2 DEF Base, LockedAlone, LoanlessParks, Parks
<1> QED BY <1>1, <1>2, <1>4, <1>5, <1>6, <1>7, <1>8, <1>9, <1>10, <1>11 DEF Next

(* The rows and what is under way are well typed: no balance and no amount  *)
(* booked is ever negative, whatever races (repayments.apply_payment).      *)
THEOREM TypeCorrect == Spec => []TypeOK
<1>1. Base => TypeOK BY DEF Base
<1> QED BY <1>1, BaseInit, BaseStep, PTL DEF Spec

---------------------------------------------------------------------------
(* Payments serialise.                                                     *)

LEMMA LedgerInit == Init => LedgerInv
<1> SUFFICES ASSUME Init PROVE LedgerInv OBVIOUS
<1> USE LedgerAssumption DEF LedgerAssumption
<1>1. Base BY BaseInit
<1>2. OneJobEach /\ SnapshotsTrue BY DEF Init, OneJobEach, SnapshotsTrue
<1>3. ChargedOnce /\ PaidIsClear /\ BalanceAgrees
  BY DEF Init, ChargedOnce, PaidIsClear, BalanceAgrees
<1> QED BY <1>1, <1>2, <1>3 DEF LedgerInv, Base

(* Orderly, nothing else that is under way has read what j is about to write. *)
LEMMA Alone ==
  ASSUME Orderly, LedgerInv, NEW j \in jobs, j.loan \in Loans, j.locked \/ j.channel \notin Fresh
  PROVE  /\ sweeps = {} \/ Serial
         /\ Serial => jobs = {j} /\ sweeps = {}
         /\ ~Serial => \A k \in jobs : k.locked \/ k.channel \notin Fresh => k.locked
         /\ sweeps = {}
         /\ j.status = loan[j.loan] /\ j.balance = balance[j.loan]
<1>1. \A k \in jobs : k.by \in Threads /\ k.channel \in Channels
  BY DEF LedgerInv, TypeOK, Job
<1>2. \A s \in sweeps : s.by \in Threads /\ s.kind \in Sweeps
  BY DEF LedgerInv, TypeOK, Sweep
<1>3. Serial => jobs = {j} /\ sweeps = {}
  BY <1>1, <1>2 DEF Serial, LedgerInv, OneJobEach
<1>4. ~Serial => sweeps = {} /\ \A k \in jobs : k.channel \in Fresh
  BY <1>1, <1>2 DEF Orderly
<1>5. j.status = loan[j.loan] /\ j.balance = balance[j.loan]
  BY DEF LedgerInv, SnapshotsTrue
<1> QED BY <1>3, <1>4, <1>5

LEMMA LedgerStep == Orderly /\ LedgerInv /\ [Next]_vars => LedgerInv'
<1> SUFFICES ASSUME Orderly, LedgerInv, [Next]_vars PROVE LedgerInv' OBVIOUS
<1> USE LedgerAssumption DEF LedgerAssumption
<1>b. Base' BY BaseStep DEF LedgerInv, Base
<1>1. ASSUME NEW t \in Threads, NEW c \in Channels, NEW r \in Receipts,
             NEW l \in Loans \cup {NoLoan}, Begin(t, c, r, l)
      PROVE  LedgerInv'
  <2> DEFINE new == [by |-> t, channel |-> c, receipt |-> r, loan |-> l, locked |-> FALSE,
                     status |-> IF l = NoLoan THEN "paid" ELSE loan[l],
                     balance |-> IF l = NoLoan THEN 0 ELSE balance[l]]
  <2>1. jobs' = jobs \cup {new} /\ UNCHANGED <<rows, sweeps>> BY <1>1 DEF Begin
  <2>2. /\ new.by = t
        /\ new.loan \in Loans => new.status = loan[new.loan] /\ new.balance = balance[new.loan]
    OBVIOUS
  <2> HIDE DEF new
  <2>3. OneJobEach' BY <1>1, <2>1, <2>2 DEF Begin, Idle, LedgerInv, OneJobEach
  <2>4. SnapshotsTrue' BY <2>1, <2>2 DEF LedgerInv, SnapshotsTrue, rows, Late
  <2>5. ChargedOnce' /\ PaidIsClear' /\ BalanceAgrees'
    BY <2>1 DEF LedgerInv, ChargedOnce, PaidIsClear, BalanceAgrees, rows
  <2> QED BY <1>b, <2>3, <2>4, <2>5 DEF LedgerInv, Base
<1>2. ASSUME NEW j \in jobs, Lock(j) PROVE LedgerInv'
  <2> DEFINE new == [j EXCEPT !.locked = TRUE, !.status = SeenStatus(j),
                              !.balance = SeenBalance(j)]
  <2>1. j \in Job /\ j.loan \in Loans BY <1>2 DEF Lock, AtLock, LedgerInv, TypeOK, Job
  <2>2. SeenStatus(j) = loan[j.loan] /\ SeenBalance(j) = balance[j.loan]
    BY <2>1 DEF SeenStatus, SeenBalance, LedgerInv, SnapshotsTrue
  <2>3. new.by = j.by /\ new.loan = j.loan /\ new.status = loan[j.loan]
        /\ new.balance = balance[j.loan]
    BY <2>1, <2>2 DEF Job
  <2>4. jobs' = (jobs \ {j}) \cup {new} /\ UNCHANGED <<rows, sweeps>> BY <1>2 DEF Lock
  <2> HIDE DEF new
  <2>5. OneJobEach' BY <2>3, <2>4 DEF LedgerInv, OneJobEach
  <2>6. SnapshotsTrue' BY <2>1, <2>3, <2>4 DEF LedgerInv, SnapshotsTrue, rows, Late
  <2>7. ChargedOnce' /\ PaidIsClear' /\ BalanceAgrees'
    BY <2>4 DEF LedgerInv, ChargedOnce, PaidIsClear, BalanceAgrees, rows
  <2> QED BY <1>b, <2>5, <2>6, <2>7 DEF LedgerInv, Base
<1>3. ASSUME NEW j \in jobs, Drop(j) \/ Fail(j) \/ Park(j) PROVE LedgerInv'
  <2>1. /\ jobs' \subseteq jobs
        /\ UNCHANGED <<loan, balance, charged, written, collected, sweeps>>
    BY <1>3 DEF Drop, Fail, Park, rows
  <2>2. OneJobEach' /\ SnapshotsTrue' BY <2>1 DEF LedgerInv, OneJobEach, SnapshotsTrue, Late
  <2>3. ChargedOnce' /\ PaidIsClear' /\ BalanceAgrees'
    BY <2>1 DEF LedgerInv, ChargedOnce, PaidIsClear, BalanceAgrees
  <2> QED BY <1>b, <2>2, <2>3 DEF LedgerInv, Base
<1>4. ASSUME NEW j \in jobs, Apply(j) PROVE LedgerInv'
  <2>1. Base /\ j \in Job BY DEF LedgerInv, Base, TypeOK
  <2>2. j.loan \in Loans /\ j.locked BY <1>4, <2>1, ApplyFacts
  <2>3. sweeps = {} /\ j.status = loan[j.loan] /\ j.balance = balance[j.loan]
    BY <2>2, Alone
  <2>4. /\ jobs' = jobs \ {j} /\ UNCHANGED <<charged, sweeps>>
        /\ j.status # "paid" /\ balance[j.loan] > 0
    BY <1>4, <2>2, <2>3 DEF Apply, Parks, Collectible, LedgerInv, PaidIsClear, TypeOK, Status
  <2>5. PICK u \in Nat, a \in Nat :
          /\ collected' = [collected EXCEPT ![j.loan] = @ + a]
          /\ \/ /\ a + u = balance[j.loan]
                /\ loan' = [loan EXCEPT ![j.loan] = "paid"]
                /\ balance' = [balance EXCEPT ![j.loan] = 0]
                /\ written' = [written EXCEPT ![j.loan] = @ + u]
             \/ /\ a < balance[j.loan]
                /\ loan' = loan /\ written' = written
                /\ balance' = [balance EXCEPT ![j.loan] = balance[j.loan] - a]
    <3>1. PICK u \in Nat, a \in Nat :
            /\ collected' = [collected EXCEPT ![j.loan] = @ + a]
            /\ \/ /\ a + u = j.balance
                  /\ loan' = [loan EXCEPT ![j.loan] = "paid"]
                  /\ balance' = IF j.balance = 0 THEN balance ELSE [balance EXCEPT ![j.loan] = 0]
                  /\ written' = [written EXCEPT ![j.loan] = @ + u]
               \/ /\ a < j.balance
                  /\ loan' = loan /\ written' = written
                  /\ balance' = [balance EXCEPT ![j.loan] = j.balance - a]
      <4>1. PICK u, a, o \in Nat :
              /\ repaid' = [repaid EXCEPT ![j.receipt] = @ + a]
              /\ collected' = [collected EXCEPT ![j.loan] = @ + a]
              /\ excess' = [excess EXCEPT ![j.receipt] = @ + o]
              /\ a + u <= j.balance
              /\ excess[j.receipt] = 0 \/ j.channel \in Allocations => a + o = Amount[j.receipt]
              /\ \/ /\ a + u = j.balance
                    /\ loan' = [loan EXCEPT ![j.loan] = "paid"]
                    /\ balance' = IF j.balance = 0 THEN balance ELSE [balance EXCEPT ![j.loan] = 0]
                    /\ written' = [written EXCEPT ![j.loan] = @ + u]
                 \/ /\ a < j.balance
                    /\ loan' = loan /\ written' = written
                    /\ balance' = [balance EXCEPT ![j.loan] = j.balance - a]
        BY <1>4, <2>1, ApplyFacts
      <4> QED BY <4>1
    <3>2. j.balance = balance[j.loan] /\ j.balance # 0 BY <2>3, <2>4
    <3> QED BY <3>1, <3>2
  <2>6. OneJobEach' BY <2>3, <2>4 DEF LedgerInv, OneJobEach
  <2>7. SnapshotsTrue'
    <3>1. ASSUME NEW k \in jobs', k.loan \in Loans, k.locked \/ k.channel \notin Fresh
          PROVE  k.loan # j.loan
      <4>1. k \in jobs /\ k # j BY <2>4
      <4>2. ~Serial /\ k.locked BY <2>2, <3>1, <4>1, Alone
      <4> QED BY <2>2, <4>1, <4>2 DEF LedgerInv, LockedAlone
    <3>2. ASSUME NEW l \in Loans, l # j.loan PROVE loan'[l] = loan[l] /\ balance'[l] = balance[l]
      BY <2>5, <3>2 DEF LedgerInv, TypeOK
    <3> QED BY <2>3, <2>4, <3>1, <3>2 DEF LedgerInv, SnapshotsTrue
  <2>8. ChargedOnce' BY <2>4, <2>5 DEF LedgerInv, ChargedOnce, TypeOK
  <2>9. PaidIsClear' BY <2>2, <2>4, <2>5 DEF LedgerInv, PaidIsClear, TypeOK
  <2>10. BalanceAgrees' BY <2>2, <2>4, <2>5 DEF LedgerInv, BalanceAgrees, TypeOK
  <2> QED BY <1>b, <2>6, <2>7, <2>8, <2>9, <2>10 DEF LedgerInv, Base
<1>5. ASSUME NEW t \in Threads, NEW k \in Sweeps, BeginSweep(t, k) PROVE LedgerInv'
  <2>1. PICK late \in SUBSET Late(k) \ {{}} :
          sweeps' = sweeps \cup {[by |-> t, kind |-> k, late |-> late,
                       balance |-> [l \in Loans |-> IF l \in late THEN balance[l] ELSE 0]]}
    BY <1>5 DEF BeginSweep
  <2> DEFINE new == [by |-> t, kind |-> k, late |-> late,
                     balance |-> [l \in Loans |-> IF l \in late THEN balance[l] ELSE 0]]
  <2>2. UNCHANGED <<rows, jobs>> BY <1>5 DEF BeginSweep
  <2>a. /\ sweeps' = sweeps \cup {new} /\ new.by = t
        /\ \A l \in Loans : l \in new.late => l \in Late(new.kind) /\ new.balance[l] = balance[l]
    BY <2>1
  <2> HIDE DEF new
  <2>3. OneJobEach' BY <1>5, <2>a, <2>2 DEF BeginSweep, Idle, LedgerInv, OneJobEach
  <2>4. SnapshotsTrue' BY <2>a, <2>2 DEF LedgerInv, SnapshotsTrue, rows, Late
  <2>5. ChargedOnce' /\ PaidIsClear' /\ BalanceAgrees'
    BY <2>2 DEF LedgerInv, ChargedOnce, PaidIsClear, BalanceAgrees, rows
  <2> QED BY <1>b, <2>3, <2>4, <2>5 DEF LedgerInv, Base
<1>6. ASSUME NEW s \in sweeps, CommitSweep(s) PROVE LedgerInv'
  <2>1. s \in Sweep /\ \A l \in s.late : l \in Loans /\ l \in Late(s.kind) /\ s.balance[l] = balance[l]
    BY DEF LedgerInv, TypeOK, SnapshotsTrue, Sweep
  <2>2. Serial BY <2>1 DEF Orderly, Sweep
  <2>3. jobs = {} /\ sweeps' = {} /\ jobs' = jobs
    BY <1>6, <2>1, <2>2 DEF CommitSweep, LedgerInv, OneJobEach, Serial, TypeOK, Job, Sweep
  <2>4. OneJobEach' /\ SnapshotsTrue' BY <2>3 DEF OneJobEach, SnapshotsTrue
  <2>5. ChargedOnce' /\ PaidIsClear' /\ BalanceAgrees'
    <3>1. \A l \in s.late : loan[l] \in {"active", "overdue"} /\ balance[l] > 0
                              /\ (s.kind = "overdue" => loan[l] = "active" /\ charged[l] = 0)
      BY <2>1 DEF Late, LedgerInv, TypeOK, ChargedOnce, Sweep
    <3>2. \A l \in Loans : IF l \in s.late THEN loan'[l] \in {"overdue", "defaulted"}
                                           ELSE loan'[l] = loan[l]
      BY <1>6 DEF CommitSweep
    <3>3. \A l \in Loans :
            IF l \in s.late /\ s.kind = "overdue" /\ Penalty > 0
              THEN balance'[l] = balance[l] + Penalty /\ charged'[l] = Penalty
              ELSE balance'[l] = balance[l] /\ charged'[l] = charged[l]
      BY <1>6, <2>1 DEF CommitSweep
    <3>4. UNCHANGED <<collected, written>> BY <1>6 DEF CommitSweep
    <3>5. ChargedOnce' BY <3>2, <3>3 DEF LedgerInv, ChargedOnce
    <3>6. PaidIsClear'
      BY <3>1, <3>2, <3>3 DEF LedgerInv, PaidIsClear, TypeOK
    <3>7. BalanceAgrees'
      BY <3>1, <3>3, <3>4 DEF LedgerInv, BalanceAgrees, TypeOK
    <3> QED BY <3>5, <3>6, <3>7
  <2> QED BY <1>b, <2>4, <2>5 DEF LedgerInv, Base
<1>7. CASE UNCHANGED vars
  <2>1. OneJobEach' /\ SnapshotsTrue' BY <1>7 DEF vars, LedgerInv, OneJobEach, SnapshotsTrue, Late
  <2>2. ChargedOnce' /\ PaidIsClear' /\ BalanceAgrees'
    BY <1>7 DEF vars, LedgerInv, ChargedOnce, PaidIsClear, BalanceAgrees
  <2> QED BY <1>b, <2>1, <2>2 DEF LedgerInv, Base
<1>8. ASSUME NEW r \in Receipts, Ask(r) \/ stk_push(r) \/ FailPrompt(r) PROVE LedgerInv'
  <2>1. UNCHANGED <<loan, balance, charged, written, collected, jobs, sweeps>>
    BY <1>8 DEF Ask, stk_push, FailPrompt
  <2>2. OneJobEach' /\ SnapshotsTrue' BY <2>1 DEF LedgerInv, OneJobEach, SnapshotsTrue, Late
  <2>3. ChargedOnce' /\ PaidIsClear' /\ BalanceAgrees'
    BY <2>1 DEF LedgerInv, ChargedOnce, PaidIsClear, BalanceAgrees
  <2> QED BY <1>b, <2>2, <2>3 DEF LedgerInv, Base
<1> QED BY <1>1, <1>2, <1>3, <1>4, <1>5, <1>6, <1>7, <1>8 DEF Next

(* "Two payments for one loan serialise": nothing a payment or a penalty    *)
(* changes is lost, if every channel reads the loan under its lock and no   *)
(* sweep runs, or one thread does everything (apply_payment).               *)
THEOREM PaymentsSerialise == ASSUME Orderly PROVE Spec => []BalanceAgrees
<1>1. LedgerInv => BalanceAgrees BY DEF LedgerInv
<1>2. LedgerInv /\ [Next]_vars => LedgerInv' BY LedgerStep
<1> QED BY <1>1, <1>2, LedgerInit, PTL DEF Spec

(* A loan is marked paid by the payment that clears it and by no other      *)
(* (apply_payment), under the same conditions.                              *)
THEOREM PaidMeansClear == ASSUME Orderly PROVE Spec => []PaidIsClear
<1>1. LedgerInv => PaidIsClear BY DEF LedgerInv
<1>2. LedgerInv /\ [Next]_vars => LedgerInv' BY LedgerStep
<1> QED BY <1>1, <1>2, LedgerInit, PTL DEF Spec

(* What Apply and CommitSweep write, when nobody else is in the way. *)
LEMMA ApplyIsPay ==
  ASSUME Orderly, LedgerInv, NEW j \in jobs, Apply(j)
  PROVE  \E u \in 0..Unearned : Account!Pay(j.receipt, j.loan, u)
<1> USE LedgerAssumption DEF LedgerAssumption
<1>1. Base /\ j \in Job BY DEF LedgerInv, Base, TypeOK
<1>2. j.loan \in Loans /\ j.locked BY <1>1, ApplyFacts
<1>3. j.status = loan[j.loan] /\ j.balance = balance[j.loan] BY <1>2, Alone
<1>4. loan[j.loan] # "paid" /\ j.balance > 0
  BY <1>2, <1>3 DEF Apply, Parks, Collectible, LedgerInv, PaidIsClear, TypeOK, Status
<1>5. PICK u \in (IF j.receipt \in Early THEN 0..Unearned ELSE {0}) :
        /\ u <= j.balance
        /\ IF Closes(j, u)
            THEN /\ loan' = [loan EXCEPT ![j.loan] = "paid"]
                 /\ balance' = IF j.balance = 0 THEN balance ELSE [balance EXCEPT ![j.loan] = 0]
            ELSE /\ balance' = [balance EXCEPT ![j.loan] = j.balance - Applied(j, u)]
                 /\ UNCHANGED loan
  BY DEF Apply
<1>6. u \in 0..Unearned /\ u <= balance[j.loan] BY <1>3, <1>4, <1>5
<1>7. IF Amount[j.receipt] >= balance[j.loan] - u
        THEN loan' = [loan EXCEPT ![j.loan] = "paid"] /\ balance' = [balance EXCEPT ![j.loan] = 0]
        ELSE balance' = [balance EXCEPT ![j.loan] = @ - Amount[j.receipt]] /\ UNCHANGED loan
  BY <1>3, <1>4, <1>5 DEF Closes, Applied, Payoff
<1> QED BY <1>4, <1>6, <1>7 DEF Account!Pay

LEMMA SweepIsTurn ==
  ASSUME Orderly, LedgerInv, NEW s \in sweeps, CommitSweep(s)
  PROVE  Account!TurnOverdue(s.late) \/ Account!TurnDefaulted(s.late)
<1> USE LedgerAssumption DEF LedgerAssumption
<1>1. s \in Sweep /\ \A l \in s.late : l \in Loans /\ l \in Late(s.kind) /\ s.balance[l] = balance[l]
  BY DEF LedgerInv, TypeOK, SnapshotsTrue, Sweep
<1>2. balance \in [Loans -> Nat] BY DEF LedgerInv, TypeOK
<1>3. CASE s.kind = "overdue"
  <2>1. \A l \in s.late : loan[l] = "active" BY <1>1, <1>3 DEF Late
  <2>2. loan' = [l \in Loans |-> IF l \in s.late THEN "overdue" ELSE loan[l]]
    BY <1>3 DEF CommitSweep
  <2>3. balance' = [l \in Loans |-> IF l \in s.late THEN balance[l] + Penalty ELSE balance[l]]
    <3>1. CASE Penalty > 0
      <4>1. balance' = [l \in Loans |-> IF l \in s.late THEN s.balance[l] + Penalty ELSE balance[l]]
        BY <1>3, <3>1 DEF CommitSweep
      <4> QED BY <1>1, <4>1
    <3>2. CASE Penalty = 0 BY <1>2, <1>3, <3>2 DEF CommitSweep
    <3> QED BY <3>1, <3>2
  <2> QED BY <2>1, <2>2, <2>3 DEF Account!TurnOverdue
<1>4. CASE s.kind # "overdue"
  <2>1. \A l \in s.late : loan[l] \in {"active", "overdue"} BY <1>1 DEF Late
  <2>2. loan' = [l \in Loans |-> IF l \in s.late THEN "defaulted" ELSE loan[l]]
    BY <1>4 DEF CommitSweep
  <2>3. UNCHANGED balance BY <1>4 DEF CommitSweep
  <2> QED BY <2>1, <2>2, <2>3 DEF Account!TurnDefaulted
<1> QED BY <1>3, <1>4

LEMMA AccountStep ==
  Orderly /\ LedgerInv /\ [Next]_vars => [Account!Next]_<<loan, balance>>
<1> SUFFICES ASSUME Orderly, LedgerInv, [Next]_vars PROVE [Account!Next]_<<loan, balance>> OBVIOUS
<1>1. ASSUME NEW j \in jobs, Apply(j) PROVE Account!Next
  <2>1. j.receipt \in Receipts /\ j.loan \in Loans
    BY <1>1, ApplyFacts DEF LedgerInv, Base, TypeOK, Job
  <2> QED BY <1>1, <2>1, ApplyIsPay DEF Account!Next
<1>2. ASSUME NEW s \in sweeps, CommitSweep(s) PROVE Account!Next
  BY <1>2, SweepIsTurn DEF Account!Next, LedgerInv, TypeOK, Sweep
<1>3. ASSUME NEW j \in jobs, Lock(j) \/ Drop(j) \/ Fail(j) \/ Park(j) PROVE UNCHANGED <<loan, balance>>
  BY <1>3 DEF Lock, Drop, Fail, Park, rows
<1>4. ASSUME NEW t \in Threads, NEW c \in Channels, NEW r \in Receipts,
             NEW l \in Loans \cup {NoLoan}, Begin(t, c, r, l)
      PROVE  UNCHANGED <<loan, balance>>
  BY <1>4 DEF Begin, rows
<1>5. ASSUME NEW t \in Threads, NEW k \in Sweeps, BeginSweep(t, k)
      PROVE  UNCHANGED <<loan, balance>>
  BY <1>5 DEF BeginSweep, rows
<1>6. CASE UNCHANGED vars BY <1>6 DEF vars
<1>7. ASSUME NEW r \in Receipts, Ask(r) \/ stk_push(r) \/ FailPrompt(r)
      PROVE  UNCHANGED <<loan, balance>>
  BY <1>7 DEF Ask, stk_push, FailPrompt
<1> QED BY <1>1, <1>2, <1>3, <1>4, <1>5, <1>6, <1>7 DEF Next

LEMMA FinalStep ==
  ASSUME Base, Next, NEW l \in Loans, Cleared(l)
  PROVE  Cleared(l)'
<1> USE LedgerAssumption DEF LedgerAssumption
<1>1. ASSUME UNCHANGED <<loan, balance>>, jobs' \subseteq jobs, sweeps' \subseteq sweeps
      PROVE  Cleared(l)'
  BY <1>1 DEF Cleared, Parks
<1>2. ASSUME NEW t \in Threads, NEW c \in Channels, NEW r \in Receipts,
             NEW k \in Loans \cup {NoLoan}, Begin(t, c, r, k)
      PROVE  Cleared(l)'
  <2> DEFINE new == [by |-> t, channel |-> c, receipt |-> r, loan |-> k, locked |-> FALSE,
                     status |-> IF k = NoLoan THEN "paid" ELSE loan[k],
                     balance |-> IF k = NoLoan THEN 0 ELSE balance[k]]
  <2>1. jobs' = jobs \cup {new} /\ UNCHANGED <<rows, sweeps>> BY <1>2 DEF Begin
  <2>2. new.loan = l => Parks(new) BY DEF Parks, Collectible, Cleared
  <2> HIDE DEF new
  <2> QED BY <2>1, <2>2 DEF Cleared, Parks, rows
<1>3. ASSUME NEW j \in jobs, Lock(j) PROVE Cleared(l)'
  <2> DEFINE new == [j EXCEPT !.locked = TRUE, !.status = SeenStatus(j),
                              !.balance = SeenBalance(j)]
  <2>1. j \in Job BY DEF Base, TypeOK
  <2>2. jobs' = (jobs \ {j}) \cup {new} /\ UNCHANGED <<rows, sweeps>> BY <1>3 DEF Lock
  <2>3. new.loan = l => new.status \notin Collectible
    BY <2>1 DEF SeenStatus, Collectible, Cleared, Parks, Job
  <2> HIDE DEF new
  <2> QED BY <2>2, <2>3 DEF Cleared, Parks, rows
<1>4. ASSUME NEW j \in jobs, Drop(j) \/ Fail(j) \/ Park(j) PROVE Cleared(l)'
  <2>1. UNCHANGED <<loan, balance, sweeps>> /\ jobs' \subseteq jobs
    BY <1>4 DEF Drop, Fail, Park, rows
  <2> QED BY <1>1, <2>1
<1>5. ASSUME NEW j \in jobs, Apply(j) PROVE Cleared(l)'
  <2>1. j \in Job /\ j.loan \in Loans /\ j.locked BY <1>5, ApplyFacts DEF Base, TypeOK
  <2>2. j.loan # l BY <1>5, <2>1 DEF Apply, Cleared
  <2>3. loan'[l] = loan[l] /\ balance'[l] = balance[l]
    BY <1>5, <2>2, ApplyFacts DEF Base, TypeOK
  <2>4. jobs' = jobs \ {j} /\ sweeps' = sweeps BY <1>5 DEF Apply
  <2> QED BY <2>3, <2>4 DEF Cleared, Parks
<1>6. ASSUME NEW t \in Threads, NEW k \in Sweeps, BeginSweep(t, k) PROVE Cleared(l)'
  <2>1. PICK late \in SUBSET Late(k) \ {{}} :
          sweeps' = sweeps \cup {[by |-> t, kind |-> k, late |-> late,
                       balance |-> [m \in Loans |-> IF m \in late THEN balance[m] ELSE 0]]}
    BY <1>6 DEF BeginSweep
  <2> DEFINE new == [by |-> t, kind |-> k, late |-> late,
                     balance |-> [m \in Loans |-> IF m \in late THEN balance[m] ELSE 0]]
  <2>2. l \notin new.late BY DEF Late, Cleared
  <2>3. sweeps' = sweeps \cup {new} /\ UNCHANGED <<loan, balance, jobs>>
    BY <1>6, <2>1 DEF BeginSweep, rows
  <2> HIDE DEF new
  <2> QED BY <2>2, <2>3 DEF Cleared, Parks
<1>7. ASSUME NEW s \in sweeps, CommitSweep(s) PROVE Cleared(l)'
  <2>1. l \notin s.late BY DEF Cleared
  <2>2. loan'[l] = loan[l] /\ balance'[l] = balance[l] BY <1>7, <2>1 DEF CommitSweep, Base, TypeOK
  <2>3. jobs' = jobs /\ sweeps' \subseteq sweeps BY <1>7 DEF CommitSweep
  <2> QED BY <2>2, <2>3 DEF Cleared, Parks
<1>8. ASSUME NEW r \in Receipts, Ask(r) \/ stk_push(r) \/ FailPrompt(r) PROVE Cleared(l)'
  <2>1. UNCHANGED <<loan, balance, jobs, sweeps>> BY <1>8 DEF Ask, stk_push, FailPrompt
  <2> QED BY <1>1, <2>1
<1> QED BY <1>2, <1>3, <1>4, <1>5, <1>6, <1>7, <1>8 DEF Next

(* A loan that is paid, with nobody about to write over it, stays paid and  *)
(* owes nothing (VALID_TRANSITIONS), whatever comes later through any       *)
(* channel, thread or sweep.                                                *)
THEOREM PaidStaysPaid == Spec => PaidIsFinal
<1> DEFINE Final == \A l \in Loans : Cleared(l) => Cleared(l)'
<1>1. Base /\ [Next]_vars => [Final]_vars BY FinalStep
<1> QED BY <1>1, BaseInit, BaseStep, PTL DEF Spec, PaidIsFinal

(* The ledger implements LoanAccount: interleaved, it does to a loan what   *)
(* one payment and one penalty after the other would do.                    *)
THEOREM ImplementsAccount == ASSUME Orderly PROVE Spec => AccountSpec
<1>1. Init => Account!Init BY DEF Init, Account!Init
<1>2. LedgerInv /\ [Next]_vars => LedgerInv' BY LedgerStep
<1>3. LedgerInv /\ [Next]_vars => [Account!Next]_<<loan, balance>> BY AccountStep
<1> QED BY <1>1, <1>2, <1>3, LedgerInit, PTL DEF Spec, AccountSpec, Account!Spec

---------------------------------------------------------------------------
(* No receipt is booked twice.                                             *)

LEMMA BookInit == Init => BookInv
<1> SUFFICES ASSUME Init PROVE BookInv OBVIOUS
<1> USE LedgerAssumption DEF LedgerAssumption
<1>1. Base BY BaseInit
<1>2. JobsPlaced /\ JobsApart BY DEF Init, JobsPlaced, JobsApart
<1>3. ReceiptState BY DEF Init, ReceiptState
<1> QED BY <1>1, <1>2, <1>3 DEF BookInv, Base

(* A job that is about to book its receipt has found nothing booked of it,  *)
(* and whoever else has it in hand will not book it again.                  *)
LEMMA BooksAlone ==
  ASSUME BookInv, NEW j \in jobs, Ready(j), ~Refuted(j), j.receipt \notin missed
  PROVE  /\ repaid[j.receipt] = 0 /\ excess[j.receipt] = 0
         /\ j.channel \notin Allocations => suspense[j.receipt] = "none"
         /\ \A k \in jobs \ {j} : k.receipt = j.receipt =>
              /\ k.channel \notin Staff /\ j.channel \notin Staff
              /\ k.channel \notin Allocations
              /\ k.channel = "stk" /\ k.locked => j.channel = "c2b" \/ confirmed[j.receipt]
              /\ k.channel = "c2b" => j.channel \in {"c2b", "stk"} \/ Recorded(j.receipt)
<1> USE LedgerAssumption DEF LedgerAssumption
<1>1. j \in Job /\ j.receipt \in Receipts /\ repaid[j.receipt] \in Nat /\ excess[j.receipt] \in Nat
      /\ j.channel \in {"c2b", "stk"} \cup Staff \cup Allocations
  BY DEF BookInv, TypeOK, Job, Staff, Allocations
<1>2. ASSUME NEW k \in jobs \ {j}, k.receipt = j.receipt
      PROVE  k.channel \notin Staff /\ j.channel \notin Staff
  BY <1>2 DEF BookInv, JobsApart
<1>3. CASE j.channel \in Allocations
  <2>1. suspense[j.receipt] = "open" BY <1>3 DEF BookInv, JobsPlaced
  <2>2. Booked(j.receipt) BY <2>1 DEF Booked, Used
  <2>3. repaid[j.receipt] = 0 /\ excess[j.receipt] = 0
    BY <1>1, <2>1 DEF BookInv, ReceiptState
  <2>4. ASSUME NEW k \in jobs \ {j}, k.receipt = j.receipt
        PROVE  /\ k.channel \notin Allocations
               /\ k.channel = "stk" /\ k.locked => confirmed[j.receipt]
               /\ k.channel = "c2b" => Recorded(j.receipt)
    BY <1>3, <2>2, <2>4 DEF BookInv, JobsPlaced, JobsApart
  <2> QED BY <1>2, <1>3, <2>3, <2>4
<1>4. CASE j.channel \notin Allocations
  <2>1. ~Booked(j.receipt)
    <3>1. CASE j.channel = "c2b"
      BY <3>1 DEF BookInv, JobsApart, Refuted, Indexed, Recorded
    <3>2. CASE j.channel = "stk"
      <4>1. j.loan \in Loans BY <1>1, <3>2 DEF BookInv, JobsPlaced
      <4>2. j.locked BY <4>1 DEF Ready
      <4>3. ~confirmed[j.receipt] BY <3>2 DEF Refuted, Indexed
      <4> QED BY <3>2, <4>2, <4>3 DEF BookInv, JobsApart
    <3>3. CASE j.channel \in Staff BY <3>3 DEF BookInv, JobsApart
    <3> QED BY <1>1, <1>4, <3>1, <3>2, <3>3
  <2>2. repaid[j.receipt] = 0 /\ excess[j.receipt] = 0 /\ suspense[j.receipt] = "none"
    BY <1>1, <2>1 DEF Booked, Used
  <2>3. ASSUME NEW k \in jobs \ {j}, k.receipt = j.receipt, k.channel = "stk", k.locked,
               j.channel = "stk"
        PROVE  FALSE
    <3>1. j.loan = Target[j.receipt] /\ j.loan \in Loans /\ k.loan = j.loan
      BY <1>1, <2>3 DEF BookInv, JobsPlaced
    <3>2. j.locked BY <3>1 DEF Ready
    <3> QED BY <2>3, <3>1, <3>2 DEF BookInv, LockedAlone
  <2>4. ASSUME NEW k \in jobs \ {j}, k.receipt = j.receipt, k.channel \in Allocations
        PROVE  FALSE
    BY <2>2, <2>4 DEF BookInv, JobsPlaced
  <2> QED BY <1>1, <1>2, <1>4, <2>2, <2>3, <2>4
<1> QED BY <1>3, <1>4

LEMMA BookStep == BookInv /\ [Next]_vars => BookInv'
<1> SUFFICES ASSUME BookInv, [Next]_vars PROVE BookInv' OBVIOUS
<1> USE LedgerAssumption DEF LedgerAssumption
<1>b. Base' BY BaseStep DEF BookInv, Base
<1>1. ASSUME NEW t \in Threads, NEW c \in Channels, NEW r \in Receipts,
             NEW l \in Loans \cup {NoLoan}, Begin(t, c, r, l)
      PROVE  BookInv'
  <2> DEFINE new == [by |-> t, channel |-> c, receipt |-> r, loan |-> l, locked |-> FALSE,
                     status |-> IF l = NoLoan THEN "paid" ELSE loan[l],
                     balance |-> IF l = NoLoan THEN 0 ELSE balance[l]]
  <2>1. jobs' = jobs \cup {new} /\ UNCHANGED <<rows, sweeps>> BY <1>1 DEF Begin
  <2>2. new.channel = c /\ new.receipt = r /\ new.loan = l /\ ~new.locked OBVIOUS
  <2>3. /\ c = "stk" => r \in Prompted /\ l = Target[r]
        /\ c \in Allocations => suspense[r] = "open"
        /\ c \in Allocations => \A j \in jobs : j.channel \in Allocations => j.receipt # r
        /\ c \in Staff \cup {"c2b"} => ~Used(r)
    BY <1>1 DEF Begin, Admits, Allocations, Staff, BookInv, ReceiptState
  <2>4. /\ missed \subseteq missed'
        /\ r \notin missed' => ~MissesNothing(c, r) /\ ~MissesStaff(c, r)
    BY <1>1 DEF Begin
  <2>5. ReceiptState' BY <2>1, <2>4 DEF BookInv, ReceiptState, rows
  <2> HIDE DEF new
  <2>6. JobsPlaced' BY <2>1, <2>2, <2>3 DEF BookInv, JobsPlaced, rows
  <2>7. JobsApart'
    <3> SUFFICES ASSUME NEW j \in jobs', j.receipt \notin missed'
                 PROVE  /\ j.channel \in Staff =>
                             /\ ~Booked(j.receipt)'
                             /\ \A k \in jobs' : k.receipt = j.receipt => k = j
                        /\ j.channel = "c2b" => ~Booked(j.receipt)' \/ Recorded(j.receipt)'
                        /\ j.channel = "stk" /\ j.locked => ~Booked(j.receipt)' \/ confirmed'[j.receipt]
      BY DEF JobsApart
    <3>1. Booked(j.receipt)' = Booked(j.receipt) /\ Recorded(j.receipt)' = Recorded(j.receipt)
          /\ confirmed' = confirmed
      BY <2>1 DEF rows, Booked, Recorded, Used
    <3>2. CASE j = new
      <4>1. c \in Staff => \A k \in jobs : k.receipt # r
        BY <2>2, <2>4, <3>2 DEF MissesStaff
      <4>2. excess[r] \in Nat BY DEF BookInv, TypeOK
      <4>3. c \in Staff => ~Booked(r)
        BY <2>2, <2>3, <2>4, <3>2, <4>2
           DEF MissesNothing, Booked, Indexed, Staff, Allocations
      <4>4. c = "c2b" => ~Booked(r) \/ Recorded(r)
        BY <2>2, <2>3, <2>4, <3>2, <4>2
           DEF MissesNothing, Booked, Indexed, Allocations, Recorded
      <4> QED BY <2>1, <2>2, <3>1, <3>2, <4>1, <4>3, <4>4
    <3>3. CASE j \in jobs
      <4>1. j.receipt \notin missed BY <2>4
      <4>2. j.channel \in Staff => new.receipt # j.receipt
        BY <2>2, <2>4, <3>3 DEF MissesStaff
      <4> QED BY <2>1, <3>1, <3>3, <4>1, <4>2 DEF BookInv, JobsApart
    <3> QED BY <2>1, <3>2, <3>3
  <2> QED BY <1>b, <2>5, <2>6, <2>7 DEF BookInv, Base
<1>2. ASSUME NEW j \in jobs, Lock(j) PROVE BookInv'
  <2> DEFINE new == [j EXCEPT !.locked = TRUE, !.status = SeenStatus(j),
                              !.balance = SeenBalance(j)]
  <2>1. j \in Job /\ excess[j.receipt] \in Nat
    BY DEF BookInv, TypeOK, Job
  <2>2. new.channel = j.channel /\ new.receipt = j.receipt /\ new.loan = j.loan
    BY <2>1 DEF Job
  <2>3. jobs' = (jobs \ {j}) \cup {new} /\ UNCHANGED <<rows, sweeps>> BY <1>2 DEF Lock
  <2>4. /\ missed \subseteq missed'
        /\ j.receipt \notin missed' => ~MissesNothing(j.channel, j.receipt)
    BY <1>2 DEF Lock
  <2>5. j.channel = "stk" /\ j.receipt \notin missed' => ~Booked(j.receipt) \/ confirmed[j.receipt]
    BY <1>2, <2>1, <2>4
       DEF Lock, Repeated, MissesNothing, Booked, Indexed, Allocations
  <2> HIDE DEF new
  <2>6. ReceiptState' BY <2>3, <2>4 DEF BookInv, ReceiptState, rows
  <2>7. JobsPlaced' BY <2>2, <2>3 DEF BookInv, JobsPlaced, rows
  <2>8. JobsApart'
    BY <2>2, <2>3, <2>4, <2>5 DEF BookInv, JobsApart, Booked, Recorded, Used, rows
  <2> QED BY <1>b, <2>6, <2>7, <2>8 DEF BookInv, Base
<1>3. ASSUME NEW j \in jobs, Drop(j) \/ Fail(j) PROVE BookInv'
  <2>1. j.receipt \in Receipts /\ (j.channel = "stk" => j.receipt \in Prompted)
    BY DEF BookInv, TypeOK, Job, JobsPlaced
  <2>2. /\ jobs' \subseteq jobs
        /\ UNCHANGED <<repaid, excess, suspense, confirmed, missed>>
        /\ \A r \in Receipts : \/ prompt'[r] = prompt[r]
                               \/ prompt'[r] = "success" /\ r \in Prompted
    BY <1>3, <2>1 DEF Drop, Fail, rows, BookInv, TypeOK
  <2>3. \A k \in jobs : k.receipt \in Receipts BY DEF BookInv, TypeOK, Job
  <2>4. ReceiptState' BY <2>2 DEF BookInv, ReceiptState
  <2>5. JobsPlaced' BY <2>2 DEF BookInv, JobsPlaced
  <2>6. JobsApart' BY <2>2, <2>3 DEF BookInv, JobsApart, Booked, Recorded, Used
  <2> QED BY <1>b, <2>4, <2>5, <2>6 DEF BookInv, Base
<1>4. ASSUME NEW j \in jobs, Park(j) \/ Apply(j)
      PROVE  /\ j \in Job /\ j.receipt \in Receipts /\ Ready(j) /\ ~Refuted(j)
             /\ jobs' = jobs \ {j} /\ missed' = missed
             /\ j.channel = "c2b" => confirmed'[j.receipt]
             /\ j.channel = "stk" => prompt'[j.receipt] = "success"
             /\ \A r \in Receipts : /\ confirmed[r] => confirmed'[r]
                                    /\ prompt[r] = "success" => prompt'[r] = "success"
                                    /\ prompt'[r] # "none" => r \in Prompted
  <2>1. j \in Job /\ j.receipt \in Receipts /\ (j.channel = "stk" => j.receipt \in Prompted)
    BY DEF BookInv, TypeOK, Job, JobsPlaced
  <2>2. Ready(j) /\ ~Refuted(j) /\ jobs' = jobs \ {j} /\ missed' = missed /\ Banked(j)
    BY <1>4 DEF Park, Apply
  <2> QED BY <2>1, <2>2 DEF Banked, BookInv, TypeOK, ReceiptState
<1>5. ASSUME NEW j \in jobs, Park(j) \/ Apply(j),
             \A r \in Receipts \ {j.receipt} :
               /\ repaid'[r] = repaid[r] /\ excess'[r] = excess[r] /\ suspense'[r] = suspense[r],
             suspense'[j.receipt] # suspense[j.receipt] => j.receipt \in missed
               \/ \A k \in jobs \ {j} : k.channel \in Allocations => k.receipt # j.receipt,
             suspense[j.receipt] = "open" /\ suspense'[j.receipt] # "open"
               => j.channel \in Allocations
      PROVE  JobsPlaced' /\ JobsApart'
  <2>1. /\ j \in Job /\ j.receipt \in Receipts /\ jobs' = jobs \ {j} /\ missed' = missed
        /\ Ready(j) /\ ~Refuted(j)
    BY <1>4, <1>5
  <2>2. \A k \in jobs : k.receipt \in Receipts BY DEF BookInv, TypeOK, Job
  <2>3. JobsPlaced'
    <3>1. ASSUME NEW k \in jobs', k.channel \in Allocations PROVE suspense'[k.receipt] = "open"
      <4>1. suspense[k.receipt] = "open" /\ k \in jobs /\ k # j
        BY <2>1, <3>1 DEF BookInv, JobsPlaced
      <4>2. CASE k.receipt # j.receipt BY <1>5, <2>2, <4>1, <4>2
      <4>3. CASE k.receipt = j.receipt
        <5>1. j.channel \notin Allocations BY <3>1, <4>1, <4>3 DEF BookInv, JobsPlaced
        <5> QED BY <1>5, <4>1, <4>3, <5>1
      <4> QED BY <4>2, <4>3
    <3> QED BY <2>1, <3>1 DEF BookInv, JobsPlaced
  <2>4. JobsApart'
    <3> SUFFICES ASSUME NEW k \in jobs', k.receipt \notin missed'
                 PROVE  /\ k.channel \in Staff =>
                             /\ ~Booked(k.receipt)'
                             /\ \A m \in jobs' : m.receipt = k.receipt => m = k
                        /\ k.channel = "c2b" => ~Booked(k.receipt)' \/ Recorded(k.receipt)'
                        /\ k.channel = "stk" /\ k.locked => ~Booked(k.receipt)' \/ confirmed'[k.receipt]
      BY DEF JobsApart
    <3>1. k \in jobs \ {j} /\ k.receipt \in Receipts /\ k.receipt \notin missed
      BY <2>1, <2>2
    <3>2. Recorded(k.receipt) => Recorded(k.receipt)'
      BY <1>4, <1>5, <3>1 DEF Recorded
    <3>3. CASE k.receipt # j.receipt
      <4>1. Booked(k.receipt)' = Booked(k.receipt) BY <1>5, <3>1, <3>3 DEF Booked, Used
      <4>2. confirmed[k.receipt] => confirmed'[k.receipt] BY <1>4, <1>5, <3>1
      <4> QED BY <2>1, <3>1, <3>2, <4>1, <4>2 DEF BookInv, JobsApart
    <3>4. CASE k.receipt = j.receipt
      <4>1. /\ k.channel \notin Staff
            /\ k.channel = "stk" /\ k.locked => j.channel = "c2b" \/ confirmed[j.receipt]
            /\ k.channel = "c2b" => j.channel \in {"c2b", "stk"} \/ Recorded(j.receipt)
        BY <2>1, <3>1, <3>4, BooksAlone
      <4> QED BY <1>4, <1>5, <2>1, <3>2, <3>4, <4>1 DEF Recorded
    <3> QED BY <3>3, <3>4
  <2> QED BY <2>3, <2>4
<1>6. ASSUME NEW j \in jobs, Park(j) PROVE BookInv'
  <2>1. j.receipt \in Receipts /\ suspense[j.receipt] = "none" /\ missed' = missed
    BY <1>4, <1>6 DEF Park, Refuted, BookInv, TypeOK
  <2>2. /\ UNCHANGED <<repaid, excess>>
        /\ \A r \in Receipts : suspense'[r] = IF r = j.receipt THEN "open" ELSE suspense[r]
    BY <1>6 DEF Park, BookInv, TypeOK
  <2>3. j.receipt \notin missed => repaid[j.receipt] = 0 /\ excess[j.receipt] = 0
    BY <1>4, <1>6, BooksAlone
  <2>4. ReceiptState' BY <1>4, <1>6, <2>1, <2>2, <2>3 DEF BookInv, ReceiptState
  <2>5. \A k \in jobs : k.channel \in Allocations => k.receipt # j.receipt
    BY <2>1 DEF BookInv, JobsPlaced
  <2>6. JobsPlaced' /\ JobsApart' BY <1>5, <1>6, <2>1, <2>2, <2>5
  <2> QED BY <1>b, <2>4, <2>6 DEF BookInv, Base
<1>7. ASSUME NEW j \in jobs, Apply(j) PROVE BookInv'
  <2>1. Base BY DEF BookInv, Base
  <2>2. j.receipt \in Receipts /\ missed' = missed BY <1>4, <1>7
  <2>3. PICK a \in Nat, o \in Nat :
          /\ repaid' = [repaid EXCEPT ![j.receipt] = @ + a]
          /\ excess' = [excess EXCEPT ![j.receipt] = @ + o]
          /\ excess[j.receipt] = 0 \/ j.channel \in Allocations => a + o = Amount[j.receipt]
    BY <1>7, <2>1, ApplyFacts
  <2>4. suspense' = [suspense EXCEPT ![j.receipt] =
                       IF j.channel \in Allocations THEN "allocated" ELSE @]
    BY <1>7 DEF Apply
  <2>5. /\ \A r \in Receipts \ {j.receipt} : /\ repaid'[r] = repaid[r] /\ excess'[r] = excess[r]
                                             /\ suspense'[r] = suspense[r]
        /\ repaid'[j.receipt] = repaid[j.receipt] + a /\ excess'[j.receipt] = excess[j.receipt] + o
        /\ suspense'[j.receipt] = IF j.channel \in Allocations THEN "allocated"
                                                             ELSE suspense[j.receipt]
    BY <2>2, <2>3, <2>4 DEF BookInv, TypeOK
  <2>6. j.receipt \notin missed =>
          /\ repaid[j.receipt] = 0 /\ excess[j.receipt] = 0
          /\ j.channel \notin Allocations => suspense[j.receipt] = "none"
    BY <1>4, <1>7, BooksAlone
  <2>7. ReceiptState'
    <3>1. j.receipt \notin missed => /\ repaid'[j.receipt] = a /\ excess'[j.receipt] = o
                                     /\ a + o = Amount[j.receipt]
                                     /\ suspense'[j.receipt] \in {"none", "allocated"}
      BY <2>3, <2>5, <2>6
    <3> QED BY <1>4, <1>7, <2>2, <2>5, <3>1 DEF BookInv, ReceiptState
  <2>8. j.channel \in Allocations => \A k \in jobs \ {j} :
          k.channel \in Allocations => k.receipt # j.receipt
    BY DEF BookInv, JobsPlaced
  <2>9. JobsPlaced' /\ JobsApart' BY <1>5, <1>7, <2>5, <2>8
  <2> QED BY <1>b, <2>7, <2>9 DEF BookInv, Base
<1> DEFINE Quiet == /\ UNCHANGED <<repaid, excess, suspense, confirmed, jobs, missed>>
                    /\ \A q \in Receipts : \/ prompt'[q] = prompt[q]
                                           \/ prompt[q] # "success" /\ q \in Prompted
<1>8. Quiet => BookInv'
  <2> HAVE Quiet
  <2>1. \A k \in jobs : k.receipt \in Receipts BY DEF BookInv, TypeOK, Job
  <2>2. ReceiptState' /\ JobsPlaced' BY DEF BookInv, ReceiptState, JobsPlaced
  <2>3. JobsApart' BY <2>1 DEF BookInv, JobsApart, Booked, Recorded, Used
  <2> QED BY <1>b, <2>2, <2>3 DEF BookInv, Base
<1>9. ASSUME NEW t \in Threads, NEW k \in Sweeps, BeginSweep(t, k) PROVE BookInv'
  <2>1. UNCHANGED <<repaid, excess, suspense, confirmed, jobs, missed>> /\ prompt' = prompt
    BY <1>9 DEF BeginSweep, rows
  <2> QED BY <1>8, <2>1
<1>10. ASSUME NEW s \in sweeps, CommitSweep(s) PROVE BookInv'
  <2>1. UNCHANGED <<repaid, excess, suspense, confirmed, jobs, missed>> /\ prompt' = prompt
    BY <1>10 DEF CommitSweep
  <2> QED BY <1>8, <2>1
<1>11. CASE UNCHANGED vars
  <2>1. UNCHANGED <<repaid, excess, suspense, confirmed, jobs, missed>> /\ prompt' = prompt
    BY <1>11 DEF vars
  <2> QED BY <1>8, <2>1
<1>12. ASSUME NEW r \in Receipts, Ask(r) \/ stk_push(r) \/ FailPrompt(r) PROVE BookInv'
  <2>1. \A q \in Receipts : \/ prompt'[q] = prompt[q]
                            \/ prompt[q] # "success" /\ q \in Prompted
    BY <1>12 DEF Ask, stk_push, FailPrompt, BookInv, TypeOK, ReceiptState
  <2>2. UNCHANGED <<repaid, excess, suspense, confirmed, jobs, missed>>
    BY <1>12 DEF Ask, stk_push, FailPrompt
  <2> QED BY <1>8, <2>1, <2>2
<1> QED BY <1>1, <1>2, <1>3, <1>6, <1>7, <1>9, <1>10, <1>11, <1>12 DEF Next

(* "The same reference can never be credited twice" nor lost between        *)
(* repayments and suspense, in any channel, thread and order, unless a      *)
(* look-up could not see the other booking: a payoff of nothing, or staff   *)
(* typing in what is being booked (apply_payment, record_suspense).         *)
THEOREM BookedAtMostOnce == Spec => []BookedOnce
<1>1. BookInv => BookedOnce
  BY LedgerAssumption DEF LedgerAssumption, BookInv, ReceiptState, BookedOnce, TypeOK
<1>2. BookInv /\ [Next]_vars => BookInv' BY BookStep
<1> QED BY <1>1, <1>2, BookInit, PTL DEF Spec
=============================================================================
