---------------------------- MODULE LendingProofs ----------------------------
(***************************************************************************)
(* Proofs about Lending, for any clients, loans, users, edit requests and  *)
(* threads.  CycleInv is inductive by itself: an application holds the     *)
(* client's row lock from the count of the loans to the commit.  Who       *)
(* granted a loan (LendingInv) and what is final once it is decided hold   *)
(* whatever races; that the edit lock follows the loans (LockInv) takes    *)
(* Serial: payout results and repayments one at a time.                    *)
(***************************************************************************)
EXTENDS Lending, FiniteSetTheorems, TLAPS

(* The fields of a job, by its kind. *)
LEMMA JobShape ==
  ASSUME TypeOK, NEW j \in jobs
  PROVE  /\ j.kind \in {"apply", "decide", "settle", "release", "edit", "review"}
         /\ j.kind = "apply" => j.by \in Officers /\ j.client \in Clients /\ j.cycle \in Nat
         /\ j.kind \in {"decide", "edit", "review"} => j.by \in Staff
         /\ j.kind \in {"settle", "release"} => j.by \in Cashiers
         /\ j.kind = "decide" => j.loan \in Loans /\ j.user \in Users
         /\ j.kind = "settle" => j.loan \in Loans /\ j.locked \in BOOLEAN
         /\ j.kind = "release" => j.loan \in Loans /\ j.locked \in BOOLEAN /\ j.last \in BOOLEAN
         /\ j.kind = "edit" => j.client \in Clients /\ j.frozen \in BOOLEAN /\ j.draft \in BOOLEAN
         /\ j.kind = "review" => j.edit \in Edits
<1>1. j \in Job BY DEF TypeOK
<1> QED BY <1>1 DEF Job

(* Where transition_loan takes a loan. *)
LEMMA TransitionCases ==
  ASSUME NEW l, NEW status, Transition(l, status)
  PROVE  \/ loan[l].status \in {"pending", "underwriting"} /\ status \in {"underwriting", "rejected"}
         \/ loan[l].status \in {"active", "overdue"} /\ status \in {"overdue", "defaulted"}
BY DEF Transition, ValidTransitions, Elsewhere

---------------------------------------------------------------------------
(* Cycles: no assumption on the threads.                                   *)

(* A step that takes no application and leaves the loans with their *)
(* borrowers keeps the cycles as they are.                          *)
LEMMA CycleFrame ==
  ASSUME CycleInv, TypeOK', JobsApart', LoanState',
         \A l \in Loans : loan'[l].client = loan[l].client /\ loan'[l].cycle = loan[l].cycle,
         \A c \in Clients : surveys[c] \subseteq surveys'[c],
         \A j \in jobs' : j.kind = "apply" => j \in jobs
  PROVE  CycleInv'
<1> USE LendingAssumption DEF LendingAssumption
<1>1. \A c : Applied(c)' = Applied(c) BY DEF Applied
<1>2. \A c : NextCycle(c)' = NextCycle(c) BY <1>1 DEF NextCycle
<1>3. \A l \in Loans : loan[l].client # Nobody => loan[l].client \in Clients
  BY DEF CycleInv, TypeOK, Loan
<1>4. CycleState'
  <2>1. \A j \in jobs : j.kind = "apply" => j.client \in Clients BY JobShape DEF CycleInv
  <2> QED BY <1>2, <2>1 DEF CycleInv, CycleState
<1>5. CyclesDistinct'
  <2>1. \A l \in Loans : loan[l].cycle >= 2 => loan[l].client \in Clients
    BY <1>3 DEF CycleInv, LoanState
  <2> QED BY <2>1 DEF CycleInv, CyclesDistinct
<1> QED BY <1>4, <1>5 DEF CycleInv

(* A job is added of an idle thread; applications exclude each other. *)
LEMMA JobsAdd ==
  ASSUME JobsApart, NEW j, Idle(j.by), jobs' = jobs \cup {j},
         j.kind = "apply" => ClientFree(j.client)
  PROVE  JobsApart'
BY DEF JobsApart, Idle, ClientFree

LEMMA CycleInit == Init => CycleInv
<1> SUFFICES ASSUME Init PROVE CycleInv OBVIOUS
<1> USE LendingAssumption DEF LendingAssumption
<1>1. TypeOK
  <2>1. client \in [Clients -> Client] BY DEF Init, Client
  <2>2. loan \in [Loans -> Loan] BY DEF Init, Loan, Status
  <2>3. edit \in [Edits -> Edit] BY DEF Init, Edit
  <2> QED BY <2>1, <2>2, <2>3 DEF Init, TypeOK
<1>2. JobsApart /\ LoanState BY DEF Init, JobsApart, LoanState
<1>3. CycleState /\ CyclesDistinct BY DEF Init, CycleState, CyclesDistinct
<1> QED BY <1>1, <1>2, <1>3 DEF CycleInv

(* What a step writes into a loan that has a borrower. *)
LEMMA LoanTypes ==
  ASSUME TypeOK, NEW l \in Loans
  PROVE  /\ loan[l] \in Loan
         /\ loan[l].client \in Clients \cup {Nobody}
         /\ \A status \in Status : [loan EXCEPT ![l].status = status] \in [Loans -> Loan]
BY DEF TypeOK, Loan

(* A row of a loan is replaced by one of the same borrower and cycle. *)
LEMMA RowWritten ==
  ASSUME TypeOK, NEW l \in Loans, NEW row \in Loan, row.status # "none",
         row.client = loan[l].client, row.cycle = loan[l].cycle,
         loan' = [loan EXCEPT ![l] = row]
  PROVE  /\ loan' \in [Loans -> Loan]
         /\ \A k \in Loans : /\ loan'[k].client = loan[k].client /\ loan'[k].cycle = loan[k].cycle
                             /\ loan'[k].status # loan[k].status =>
                                  k = l /\ loan'[k].status # "none"
<1>1. loan \in [Loans -> Loan] BY DEF TypeOK
<1>2. loan' \in [Loans -> Loan] BY <1>1
<1>3. loan'[l] = row /\ \A k \in Loans \ {l} : loan'[k] = loan[k] BY <1>1
<1> QED BY <1>2, <1>3

(* The same for the row of a client. *)
LEMMA ClientWritten ==
  ASSUME TypeOK, NEW c \in Clients, NEW row \in Client, client' = [client EXCEPT ![c] = row]
  PROVE  client' \in [Clients -> Client]
BY DEF TypeOK

(* An application: the only step that gives a loan its borrower and cycle. *)
LEMMA ApplyCycle ==
  ASSUME CycleInv, NEW j \in jobs, NEW l \in Loans, Apply(j, l)
  PROVE  CycleInv'
<1> USE LendingAssumption DEF LendingAssumption
<1>1. /\ j.by \in Officers /\ j.client \in Clients /\ j.cycle \in Nat
      /\ j.cycle = NextCycle(j.client)
      /\ j.cycle >= 2 => j.cycle \in surveys[j.client]
      /\ loan[l].client = Nobody /\ loan[l].cycle = 0
  BY JobShape DEF Apply, CycleInv, CycleState, LoanState
<1>2. /\ loan'[l].client = j.client /\ loan'[l].cycle = j.cycle /\ loan'[l].status = "pending"
      /\ \A k \in Loans : k # l => loan'[k] = loan[k]
      /\ loan' \in [Loans -> Loan]
      /\ jobs' = jobs \ {j} /\ UNCHANGED <<client, surveys, edit, granted>>
  BY <1>1, LoanTypes DEF Apply, End, CycleInv, TypeOK, Loan, Status, Undecided
<1>3. TypeOK' BY <1>2 DEF CycleInv, TypeOK
<1>4. JobsApart' BY <1>2 DEF CycleInv, JobsApart
<1>5. LoanState'
  <2>1. \A i \in jobs' : i.kind \in {"decide", "settle", "release"} => i.loan \in Loans /\ i \in jobs
    BY <1>2, JobShape DEF CycleInv
  <2> QED BY <1>1, <1>2, <2>1 DEF CycleInv, LoanState
<1>6. /\ Applied(j.client)' = Applied(j.client) \cup {l}
      /\ l \notin Applied(j.client)
      /\ \A c \in Clients : c # j.client => Applied(c)' = Applied(c)
  BY <1>1, <1>2 DEF Applied
<1>7. \A c : IsFiniteSet(Applied(c)) BY FS_Subset DEF Applied
<1>8. /\ NextCycle(j.client)' = NextCycle(j.client) + 1
      /\ \A c \in Clients : c # j.client => NextCycle(c)' = NextCycle(c)
      /\ \A c \in Clients : NextCycle(c) \in Nat /\ NextCycle(c) >= 1
  <2>1. Cardinality(Applied(j.client) \cup {l}) = Cardinality(Applied(j.client)) + 1
    BY <1>6, <1>7, FS_AddElement
  <2>2. \A c : Cardinality(Applied(c)) \in Nat BY <1>7, FS_CardinalityType
  <2> QED BY <1>6, <2>1, <2>2 DEF NextCycle
<1>9. CycleState'
  <2>1. \A k \in Loans : loan[k] \in Loan BY DEF CycleInv, TypeOK
  <2>2. \A k \in Loans : loan'[k].client # Nobody =>
          loan'[k].cycle >= 1 /\ loan'[k].cycle < NextCycle(loan[k].client)'
    <3>1. ASSUME NEW k \in Loans, loan'[k].client # Nobody, k # l
          PROVE  loan'[k].cycle >= 1 /\ loan'[k].cycle < NextCycle(loan[k].client)'
      <4>1. /\ loan'[k] = loan[k] /\ loan[k].client \in Clients /\ loan[k].cycle \in Nat
            /\ loan[k].cycle >= 1 /\ loan[k].cycle < NextCycle(loan[k].client)
        BY <1>2, <2>1, <3>1 DEF Loan, CycleInv, CycleState
      <4>2. CASE loan[k].client = j.client BY <4>1, <4>2, <1>1, <1>8
      <4>3. CASE loan[k].client # j.client BY <4>1, <4>3, <1>8
      <4> QED BY <4>2, <4>3
    <3>2. loan'[l].cycle >= 1 /\ loan'[l].cycle < NextCycle(loan[l].client)'
      BY <1>1, <1>2, <1>8
    <3> QED BY <3>1, <3>2
  <2>3. ASSUME NEW i \in jobs', i.kind = "apply"
        PROVE  /\ i.cycle = NextCycle(i.client)'
               /\ i.cycle >= 2 => i.cycle \in surveys'[i.client]
    <3>1. i \in jobs /\ i # j BY <1>2, <2>3
    <3>2. i.client \in Clients /\ i.client # j.client
      BY <3>1, <2>3, JobShape DEF CycleInv, JobsApart, Apply
    <3> QED BY <3>1, <3>2, <2>3, <1>2, <1>8 DEF CycleInv, CycleState
  <2> QED BY <2>2, <2>3 DEF CycleState
<1>10. CyclesDistinct'
  <2>1. \A k \in Loans : loan[k] \in Loan BY DEF CycleInv, TypeOK
  <2>2. \A k \in Loans : loan[k].client = j.client => loan[k].cycle # j.cycle
    BY <1>1, <1>8, <2>1 DEF CycleInv, CycleState, Loan
  <2>3. \A k \in Loans : loan'[k].cycle >= 2 => loan'[k].cycle \in surveys'[loan'[k].client]
    BY <1>1, <1>2 DEF CycleInv, CyclesDistinct
  <2>4. ASSUME NEW k \in Loans, NEW m \in Loans, k # m, loan'[k].client # Nobody,
               loan'[k].client = loan'[m].client
        PROVE  loan'[k].cycle # loan'[m].cycle
    <3>1. CASE k = l BY <2>4, <3>1, <2>2, <1>2
    <3>2. CASE m = l BY <2>4, <3>2, <2>2, <1>2
    <3>3. CASE k # l /\ m # l BY <2>4, <3>3, <1>2 DEF CycleInv, CyclesDistinct
    <3> QED BY <3>1, <3>2, <3>3
  <2> QED BY <2>3, <2>4 DEF CyclesDistinct
<1> QED BY <1>3, <1>4, <1>5, <1>9, <1>10 DEF CycleInv

(* The status of one loan is written, and nothing that counts for cycles. *)
LEMMA StatusWritten ==
  ASSUME TypeOK, LoanState, NEW l \in Loans, NEW status \in Status, status # "none",
         loan[l].status # "none", loan' = [loan EXCEPT ![l].status = status], jobs' \subseteq jobs
  PROVE  /\ loan' \in [Loans -> Loan] /\ LoanState'
         /\ \A k \in Loans : loan'[k].client = loan[k].client /\ loan'[k].cycle = loan[k].cycle
<1>1. loan' \in [Loans -> Loan] BY DEF TypeOK, Loan
<1>2. \A k \in Loans : /\ loan'[k].client = loan[k].client /\ loan'[k].cycle = loan[k].cycle
                       /\ loan'[k].status # loan[k].status => k = l /\ loan'[k].status = status
  BY DEF TypeOK, Loan
<1>3. \A j \in jobs' : j.kind \in {"decide", "settle", "release"} => j.loan \in Loans
  BY JobShape
<1> QED BY <1>1, <1>2, <1>3 DEF LoanState

(* The handlers of staff that only change clients, requests and surveys, or *)
(* that begin a job and write nothing yet.                                  *)
LEMMA CycleQuiet ==
  ASSUME CycleInv, UNCHANGED <<loan, granted>>,
         client' \in [Clients -> Client], edit' \in [Edits -> Edit],
         surveys' \in [Clients -> SUBSET Nat], \A c \in Clients : surveys[c] \subseteq surveys'[c],
         \/ jobs' \subseteq jobs
         \/ \E j \in Job : /\ Idle(j.by) /\ jobs' = jobs \cup {j} /\ j.kind # "apply"
                           /\ j.kind \in {"decide", "settle", "release"} =>
                                loan[j.loan].status # "none"
  PROVE  CycleInv'
<1>1. TypeOK' BY DEF CycleInv, TypeOK
<1>2. JobsApart'
  <2>1. CASE jobs' \subseteq jobs BY <2>1 DEF CycleInv, JobsApart
  <2>2. CASE ~(jobs' \subseteq jobs) BY <2>2, JobsAdd DEF CycleInv
  <2> QED BY <2>1, <2>2
<1>3. LoanState' BY DEF CycleInv, LoanState
<1>4. \A j \in jobs' : j.kind = "apply" => j \in jobs OBVIOUS
<1> QED BY <1>1, <1>2, <1>3, <1>4, CycleFrame DEF CycleInv

(* However a client comes, its profile is one of the known ones. *)
LEMMA Joins ==
  ASSUME NEW c \in Clients, Onboard(c)
  PROVE  \E profile \in Profiles : Create(c, profile)
BY DEF Onboard, create_client, create_borrower, convert_to_onboarding, initial_profile_state, Profiles

LEMMA CycleBegins == ASSUME CycleInv, NEW s \in Staff, StaffBegins(s) PROVE CycleInv'
<1> USE LendingAssumption DEF LendingAssumption
<1>1. TypeOK /\ Idle(s) BY DEF CycleInv, StaffBegins
<1>2. \A c \in Clients : client[c] \in Client BY <1>1 DEF TypeOK
<1>3. ASSUME NEW c \in Clients, NEW profile \in Profiles, Create(c, profile) \/ DecideClient(c, profile)
      PROVE  CycleInv'
  <2>1. client' \in [Clients -> Client]
    BY <1>1, <1>3 DEF Create, DecideClient, TypeOK, Client, Profiles
  <2> QED BY <1>1, <1>3, <2>1, CycleQuiet DEF Create, DecideClient, TypeOK
<1>4. ASSUME NEW c \in Clients, BeginEdit(s, c) PROVE CycleInv'
  <2> DEFINE new == [by |-> s, kind |-> "edit", client |-> c,
                     frozen |-> Frozen(c), draft |-> client[c].profile = "draft"]
  <2>1. Frozen(c) \in BOOLEAN BY <1>2 DEF Frozen, HasActive, Client
  <2>2. new \in Job /\ new.kind = "edit" /\ new.by = s BY <2>1 DEF Job
  <2>3. jobs' = jobs \cup {new} BY <1>4 DEF BeginEdit, Begin
  <2> HIDE DEF new
  <2> QED BY <1>1, <1>4, <2>2, <2>3, CycleQuiet DEF BeginEdit, TypeOK
<1>5. ASSUME NEW c \in Clients, Survey(c) PROVE CycleInv'
  <2>1. Applied(c) \subseteq Loans BY DEF Applied
  <2>2. NextCycle(c) \in Nat BY <2>1, FS_Subset, FS_CardinalityType DEF NextCycle
  <2>3. surveys' \in [Clients -> SUBSET Nat] /\ \A d \in Clients : surveys[d] \subseteq surveys'[d]
    BY <1>1, <1>5, <2>2 DEF Survey, TypeOK
  <2> QED BY <1>1, <1>5, <2>3, CycleQuiet DEF Survey, TypeOK
<1>6. ASSUME NEW c \in Clients, NEW r \in Edits, RequestEdit(r, c) PROVE CycleInv'
  <2>1. edit' \in [Edits -> Edit] BY <1>1, <1>6 DEF RequestEdit, TypeOK, Edit
  <2> QED BY <1>1, <1>6, <2>1, CycleQuiet DEF RequestEdit, TypeOK
<1>7. ASSUME NEW r \in Edits, BeginReview(s, r) PROVE CycleInv'
  <2> DEFINE new == [by |-> s, kind |-> "review", edit |-> r]
  <2>1. new \in Job /\ new.kind = "review" /\ new.by = s BY DEF Job
  <2>2. jobs' = jobs \cup {new} BY <1>7 DEF BeginReview, Begin
  <2> HIDE DEF new
  <2> QED BY <1>1, <1>7, <2>1, <2>2, CycleQuiet DEF BeginReview, TypeOK
<1>8. ASSUME NEW l \in Loans, NEW u \in Users, BeginDecide(s, u, l) PROVE CycleInv'
  <2> DEFINE new == [by |-> s, kind |-> "decide", loan |-> l, user |-> u]
  <2>1. new \in Job /\ new.kind = "decide" /\ new.by = s /\ new.loan = l BY DEF Job
  <2>2. jobs' = jobs \cup {new} BY <1>8 DEF BeginDecide, Begin
  <2>3. loan[l].status # "none" BY <1>8 DEF BeginDecide, Undecided
  <2> HIDE DEF new
  <2> QED BY <1>1, <1>8, <2>1, <2>2, <2>3, CycleQuiet DEF BeginDecide, TypeOK
<1>9. ASSUME NEW l \in Loans, NEW status \in Status, Transition(l, status) PROVE CycleInv'
  <2>1. status # "none" /\ loan[l].status # "none" BY <1>9, TransitionCases
  <2>2. /\ loan' \in [Loans -> Loan] /\ LoanState'
        /\ \A k \in Loans : loan'[k].client = loan[k].client /\ loan'[k].cycle = loan[k].cycle
    BY <1>1, <1>9, <2>1, StatusWritten DEF Transition, CycleInv
  <2>3. TypeOK' /\ JobsApart' BY <1>9, <2>2 DEF Transition, CycleInv, TypeOK, JobsApart
  <2> QED BY <1>9, <2>2, <2>3, CycleFrame DEF Transition
<1>10. ASSUME NEW l \in Loans, Disburse(l) PROVE CycleInv'
  <2>1. loan' = [loan EXCEPT ![l].status = "processing"] /\ loan[l].status # "none"
    BY <1>10 DEF Disburse
  <2>2. UNCHANGED <<client, surveys, edit, jobs, granted>> BY <1>10 DEF Disburse
  <2>3. /\ loan' \in [Loans -> Loan] /\ LoanState'
        /\ \A k \in Loans : loan'[k].client = loan[k].client /\ loan'[k].cycle = loan[k].cycle
    BY <1>1, <2>1, <2>2, StatusWritten DEF CycleInv, Status, Granted
  <2>4. TypeOK' /\ JobsApart' BY <2>2, <2>3 DEF CycleInv, TypeOK, JobsApart
  <2> QED BY <2>2, <2>3, <2>4, CycleFrame
<1> QED BY <1>3, <1>4, <1>5, <1>6, <1>7, <1>8, <1>9, <1>10, Joins DEF StaffBegins

LEMMA CycleCashes == ASSUME CycleInv, NEW s \in Cashiers, CashierBegins(s) PROVE CycleInv'
<1> USE LendingAssumption DEF LendingAssumption
<1>1. TypeOK /\ \A c \in Clients : client[c] \in Client BY DEF CycleInv, TypeOK
<1>2. ASSUME NEW l \in Loans, BeginSettle(s, l) PROVE CycleInv'
  <2> DEFINE new == [by |-> s, kind |-> "settle", loan |-> l,
                     locked |-> client[loan[l].client].locked]
  <2>1. loan[l].client \in Clients
    BY <1>1, <1>2 DEF BeginSettle, CycleInv, LoanState, TypeOK, Loan
  <2>2. new \in Job /\ new.kind = "settle" /\ new.by = s /\ new.loan = l
    BY <1>1, <2>1 DEF Job, Client
  <2>3. jobs' = jobs \cup {new} /\ Idle(s) /\ loan[l].status # "none"
    BY <1>2 DEF BeginSettle, Begin
  <2> HIDE DEF new
  <2> QED BY <1>1, <1>2, <2>2, <2>3, CycleQuiet DEF BeginSettle, TypeOK
<1>3. ASSUME NEW l \in Loans, BeginRelease(s, l) PROVE CycleInv'
  <2> DEFINE new == [by |-> s, kind |-> "release", loan |-> l,
                     locked |-> client[loan[l].client].locked, last |-> ~OthersRun(l)]
  <2>1. loan[l].status # "none" BY <1>3 DEF BeginRelease, Owing, Running
  <2>2. loan[l].client \in Clients BY <1>1, <2>1 DEF CycleInv, LoanState, TypeOK, Loan
  <2>3. new \in Job /\ new.kind = "release" /\ new.by = s /\ new.loan = l
    BY <1>1, <2>2 DEF Job, Client
  <2>4. jobs' = jobs \cup {new} /\ Idle(s) BY <1>3 DEF BeginRelease, Begin
  <2> HIDE DEF new
  <2> QED BY <1>1, <1>3, <2>1, <2>3, <2>4, CycleQuiet DEF BeginRelease, TypeOK
<1> QED BY <1>2, <1>3 DEF CashierBegins

LEMMA CycleCommits == ASSUME CycleInv, NEW j \in jobs, Commit(j) PROVE CycleInv'
<1> USE LendingAssumption DEF LendingAssumption
<1>1. TypeOK /\ j \in Job BY DEF CycleInv, TypeOK
<1>2. ASSUME NEW identity \in BOOLEAN, NEW alias \in BOOLEAN, SaveEdit(j, identity, alias)
      PROVE  CycleInv'
  <2>1. j.client \in Clients BY <1>1, <1>2, JobShape DEF SaveEdit
  <2>2. client[j.client] \in Client BY <1>1, <2>1 DEF TypeOK
  <2>3. PICK i \in Edits \cup {"direct", Nobody}, p \in Profiles \cup {"none"} :
          client' = [client EXCEPT ![j.client].identity = i, ![j.client].profile = p]
    <3>1. client[j.client].identity \in Edits \cup {"direct", Nobody}
          /\ client[j.client].profile \in Profiles \cup {"none"} BY <2>2 DEF Client
    <3> QED BY <1>2, <3>1 DEF SaveEdit, Profiles
  <2>4. client' \in [Clients -> Client] BY <1>1, <2>1, <2>3 DEF TypeOK, Client
  <2> QED BY <1>1, <1>2, <2>4, CycleQuiet DEF SaveEdit, End, TypeOK
<1>3. CASE ApproveEdit(j)
  <2>1. j.edit \in Edits BY <1>1, <1>3, JobShape DEF ApproveEdit
  <2>2. client' \in [Clients -> Client]
    <3> DEFINE c == edit[j.edit].client
               row == [client[c] EXCEPT !.identity = j.edit]
    <3>1. client' = [client EXCEPT ![c] = row] BY <1>3 DEF ApproveEdit
    <3>2. CASE c \in Clients
      <4>1. client[c] \in Client BY <1>1, <3>2 DEF TypeOK
      <4>2. row \in Client BY <2>1, <4>1 DEF Client
      <4> HIDE DEF c, row
      <4> QED BY <1>1, <3>1, <3>2, <4>2, ClientWritten
    <3>3. CASE c \notin Clients
      <4> HIDE DEF c, row
      <4> QED BY <1>1, <3>1, <3>3 DEF TypeOK
    <3> QED BY <3>2, <3>3
  <2>3. edit' \in [Edits -> Edit] BY <1>1, <1>3, <2>1 DEF ApproveEdit, TypeOK, Edit
  <2> QED BY <1>1, <1>3, <2>2, <2>3, CycleQuiet DEF ApproveEdit, End, TypeOK
<1>4. CASE RejectEdit(j)
  <2>1. edit' \in [Edits -> Edit] BY <1>1, <1>4 DEF RejectEdit, TypeOK, Edit
  <2> QED BY <1>1, <1>4, <2>1, CycleQuiet DEF RejectEdit, End, TypeOK
<1>5. ASSUME NEW l \in Loans, Apply(j, l) PROVE CycleInv' BY <1>5, ApplyCycle
(* The others write the status of their loan and some of its other fields. *)
<1>6. ASSUME j.kind \in {"decide", "settle", "release"}, UNCHANGED <<surveys, edit>>,
             client' \in [Clients -> Client], jobs' = jobs \ {j},
             loan' \in [Loans -> Loan], granted' \in [Loans -> SUBSET Users],
             \A l \in Loans : /\ loan'[l].client = loan[l].client /\ loan'[l].cycle = loan[l].cycle
                              /\ loan'[l].status # loan[l].status =>
                                   l = j.loan /\ loan'[l].status # "none"
      PROVE  CycleInv'
  <2>1. j.loan \in Loans /\ loan[j.loan].status # "none"
    BY <1>6, JobShape DEF CycleInv, LoanState
  <2>2. TypeOK' /\ JobsApart' BY <1>6 DEF CycleInv, TypeOK, JobsApart
  <2>3. LoanState'
    <3>1. \A i \in jobs' : i.kind \in {"decide", "settle", "release"} => i.loan \in Loans
      BY <1>1, <1>6, JobShape
    <3> QED BY <1>6, <2>1, <3>1 DEF CycleInv, LoanState
  <2> QED BY <1>6, <2>2, <2>3, CycleFrame
<1>7. CASE Approve(j)
  <2> DEFINE row == [loan[j.loan] EXCEPT !.status = "approved"]
  <2>1. j.loan \in Loans /\ j.user \in Users /\ "approved" \in Status
    BY <1>1, <1>7, JobShape DEF Approve, Status, Granted
  <2>2. row \in Loan /\ row.client = loan[j.loan].client /\ row.cycle = loan[j.loan].cycle
        /\ row.status # "none"
    <3>1. loan[j.loan] \in Loan /\ loan[j.loan].status # "none"
      BY <1>1, <1>7, <2>1 DEF Approve, TypeOK, CycleInv, LoanState
    <3> QED BY <2>1, <3>1 DEF Loan
  <2>3. loan' = [loan EXCEPT ![j.loan] = row] BY <1>1, <1>7, <2>1 DEF Approve, TypeOK
  <2> HIDE DEF row
  <2>4. /\ loan' \in [Loans -> Loan]
        /\ \A l \in Loans : /\ loan'[l].client = loan[l].client /\ loan'[l].cycle = loan[l].cycle
                            /\ loan'[l].status # loan[l].status =>
                                 l = j.loan /\ loan'[l].status # "none"
    BY <1>1, <2>1, <2>2, <2>3, RowWritten
  <2>5. client' \in [Clients -> Client] BY <1>1, <1>7 DEF Approve, TypeOK
  <2>6. j.kind = "decide" /\ jobs' = jobs \ {j} /\ UNCHANGED <<surveys, edit>>
    BY <1>7 DEF Approve, End
  <2>7. granted' \in [Loans -> SUBSET Users] BY <1>1, <1>7, <2>1 DEF Approve, TypeOK
  <2> QED BY <1>6, <2>4, <2>5, <2>6, <2>7
<1>8. CASE Reject(j)
  <2> DEFINE row == [loan[j.loan] EXCEPT !.status = "rejected"]
  <2>1. j.loan \in Loans /\ j.user \in Users /\ "rejected" \in Status
    BY <1>1, <1>8, JobShape DEF Reject, Status
  <2>2. row \in Loan /\ row.client = loan[j.loan].client /\ row.cycle = loan[j.loan].cycle
        /\ row.status # "none"
    <3>1. loan[j.loan] \in Loan /\ loan[j.loan].status # "none"
      BY <1>1, <1>8, <2>1 DEF Reject, TypeOK, CycleInv, LoanState
    <3> QED BY <2>1, <3>1 DEF Loan
  <2>3. loan' = [loan EXCEPT ![j.loan] = row] BY <1>1, <1>8, <2>1 DEF Reject, TypeOK
  <2> HIDE DEF row
  <2>4. /\ loan' \in [Loans -> Loan]
        /\ \A l \in Loans : /\ loan'[l].client = loan[l].client /\ loan'[l].cycle = loan[l].cycle
                            /\ loan'[l].status # loan[l].status =>
                                 l = j.loan /\ loan'[l].status # "none"
    BY <1>1, <2>1, <2>2, <2>3, RowWritten
  <2>5. client' \in [Clients -> Client] BY <1>1, <1>8 DEF Reject, TypeOK
  <2>6. j.kind = "decide" /\ jobs' = jobs \ {j} /\ UNCHANGED <<surveys, edit>>
        /\ granted' \in [Loans -> SUBSET Users]
    BY <1>1, <1>8 DEF Reject, End, TypeOK
  <2> QED BY <1>6, <2>4, <2>5, <2>6
<1>9. CASE Escalate(j)
  BY <1>1, <1>9, CycleQuiet DEF Escalate, End, TypeOK
<1>10. CASE Activate(j)
  <2> DEFINE row == [loan[j.loan] EXCEPT !.status = "active", !.lock = "open"]
  <2>1. j.loan \in Loans /\ "active" \in Status
    BY <1>1, <1>10, JobShape DEF Activate, Status, Granted, Owing, Running
  <2>2. row \in Loan /\ row.client = loan[j.loan].client /\ row.cycle = loan[j.loan].cycle
        /\ row.status # "none"
    <3>1. loan[j.loan] \in Loan /\ loan[j.loan].status # "none"
      BY <1>1, <1>10, <2>1 DEF Activate, TypeOK, CycleInv, LoanState
    <3> QED BY <2>1, <3>1 DEF Loan
  <2>3. loan' = [loan EXCEPT ![j.loan] = row] BY <1>1, <1>10, <2>1 DEF Activate, TypeOK
  <2> HIDE DEF row
  <2>4. /\ loan' \in [Loans -> Loan]
        /\ \A l \in Loans : /\ loan'[l].client = loan[l].client /\ loan'[l].cycle = loan[l].cycle
                            /\ loan'[l].status # loan[l].status =>
                                 l = j.loan /\ loan'[l].status # "none"
    BY <1>1, <2>1, <2>2, <2>3, RowWritten
  <2>5. client' \in [Clients -> Client]
    <3>1. loan[j.loan].client \in Clients
      BY <1>1, <1>10, <2>1 DEF Activate, CycleInv, LoanState, TypeOK, Loan
    <3> DEFINE c == loan[j.loan].client
               held == [client[c] EXCEPT !.locked = IF j.locked THEN @ ELSE TRUE]
    <3>2. client[c] \in Client BY <1>1, <3>1 DEF TypeOK
    <3>3. held \in Client BY <3>2 DEF Client
    <3>4. client' = [client EXCEPT ![c] = held] BY <1>10 DEF Activate
    <3> HIDE DEF c, held
    <3> QED BY <1>1, <3>1, <3>3, <3>4, ClientWritten DEF c
  <2>6. j.kind = "settle" /\ jobs' = jobs \ {j} /\ UNCHANGED <<surveys, edit>>
        /\ granted' \in [Loans -> SUBSET Users]
    BY <1>1, <1>10 DEF Activate, End, TypeOK
  <2> QED BY <1>6, <2>4, <2>5, <2>6
<1>11. CASE Release(j)
  <2> DEFINE row == [loan[j.loan] EXCEPT !.status = "paid", !.lock = "closed"]
  <2>1. j.loan \in Loans /\ "paid" \in Status
    BY <1>1, <1>11, JobShape DEF Release, Status, Granted
  <2>2. row \in Loan /\ row.client = loan[j.loan].client /\ row.cycle = loan[j.loan].cycle
        /\ row.status # "none"
    <3>1. loan[j.loan] \in Loan /\ loan[j.loan].status # "none"
      BY <1>1, <1>11, <2>1 DEF Release, TypeOK, CycleInv, LoanState
    <3> QED BY <2>1, <3>1 DEF Loan
  <2>3. loan' = [loan EXCEPT ![j.loan] = row] BY <1>1, <1>11, <2>1 DEF Release, TypeOK
  <2> HIDE DEF row
  <2>4. /\ loan' \in [Loans -> Loan]
        /\ \A l \in Loans : /\ loan'[l].client = loan[l].client /\ loan'[l].cycle = loan[l].cycle
                            /\ loan'[l].status # loan[l].status =>
                                 l = j.loan /\ loan'[l].status # "none"
    BY <1>1, <2>1, <2>2, <2>3, RowWritten
  <2>5. client' \in [Clients -> Client]
    <3>1. loan[j.loan].client \in Clients
      BY <1>1, <1>11, <2>1 DEF Release, CycleInv, LoanState, TypeOK, Loan
    <3> DEFINE c == loan[j.loan].client
               freed == [client[c] EXCEPT !.locked = IF j.last /\ j.locked THEN FALSE ELSE @]
    <3>2. client[c] \in Client BY <1>1, <3>1 DEF TypeOK
    <3>3. freed \in Client BY <3>2 DEF Client
    <3>4. client' = [client EXCEPT ![c] = freed] BY <1>11 DEF Release
    <3> HIDE DEF c, freed
    <3> QED BY <1>1, <3>1, <3>3, <3>4, ClientWritten DEF c
  <2>6. j.kind = "release" /\ jobs' = jobs \ {j} /\ UNCHANGED <<surveys, edit>>
        /\ granted' \in [Loans -> SUBSET Users]
    BY <1>1, <1>11 DEF Release, End, TypeOK
  <2> QED BY <1>6, <2>4, <2>5, <2>6
<1>12. CASE FailPayout(j)
  <2> DEFINE row == [loan[j.loan] EXCEPT !.status = "approved"]
  <2>1. j.loan \in Loans /\ "approved" \in Status
    BY <1>1, <1>12, JobShape DEF FailPayout, Status, Granted
  <2>2. row \in Loan /\ row.client = loan[j.loan].client /\ row.cycle = loan[j.loan].cycle
        /\ row.status # "none"
    <3>1. loan[j.loan] \in Loan BY <1>1, <2>1 DEF TypeOK
    <3> QED BY <2>1, <3>1 DEF Loan
  <2>3. loan' = [loan EXCEPT ![j.loan] = row] BY <1>1, <1>12, <2>1 DEF FailPayout, TypeOK
  <2> HIDE DEF row
  <2>4. /\ loan' \in [Loans -> Loan]
        /\ \A l \in Loans : /\ loan'[l].client = loan[l].client /\ loan'[l].cycle = loan[l].cycle
                            /\ loan'[l].status # loan[l].status =>
                                 l = j.loan /\ loan'[l].status # "none"
    BY <1>1, <2>1, <2>2, <2>3, RowWritten
  <2>5. /\ client' \in [Clients -> Client] /\ granted' \in [Loans -> SUBSET Users]
        /\ j.kind = "settle" /\ jobs' = jobs \ {j} /\ UNCHANGED <<surveys, edit>>
    BY <1>1, <1>12 DEF FailPayout, End, TypeOK
  <2> QED BY <1>6, <2>4, <2>5
<1> QED BY <1>2, <1>3, <1>4, <1>5, <1>7, <1>8, <1>9, <1>10, <1>11, <1>12 DEF Commit

LEMMA CycleStep == CycleInv /\ [Next]_vars => CycleInv'
<1> SUFFICES ASSUME CycleInv, [Next]_vars PROVE CycleInv' OBVIOUS
<1> USE LendingAssumption DEF LendingAssumption
<1>1. TypeOK BY DEF CycleInv
<1>2. ASSUME NEW o \in Officers, NEW c \in Clients, BeginApply(o, c) PROVE CycleInv'
  <2> DEFINE new == [by |-> o, kind |-> "apply", client |-> c, cycle |-> NextCycle(c)]
  <2>1. NextCycle(c) \in Nat
    <3>1. Applied(c) \subseteq Loans BY DEF Applied
    <3> QED BY <3>1, FS_Subset, FS_CardinalityType DEF NextCycle
  <2>2. /\ new \in Job /\ new.kind = "apply" /\ new.by = o /\ new.client = c
        /\ new.cycle = NextCycle(c)
    BY <2>1 DEF Job
  <2>3. jobs' = jobs \cup {new} /\ Idle(o) /\ ClientFree(c) BY <1>2 DEF BeginApply, Begin
  <2> HIDE DEF new
  <2>4. TypeOK' BY <1>1, <1>2, <2>2, <2>3 DEF BeginApply, TypeOK
  <2>5. JobsApart' BY <2>2, <2>3, JobsAdd DEF CycleInv
  <2>6. LoanState' BY <1>2, <2>2, <2>3 DEF BeginApply, CycleInv, LoanState
  <2>7. CycleState'
    BY <1>2, <2>2, <2>3 DEF BeginApply, CycleInv, CycleState, NextCycle, Applied
  <2>8. CyclesDistinct' BY <1>2 DEF BeginApply, CycleInv, CyclesDistinct
  <2> QED BY <2>4, <2>5, <2>6, <2>7, <2>8 DEF CycleInv
<1>3. ASSUME NEW s \in Staff, StaffBegins(s) PROVE CycleInv' BY <1>3, CycleBegins
<1>4. ASSUME NEW j \in jobs, Commit(j) PROVE CycleInv' BY <1>4, CycleCommits
<1>6. ASSUME NEW s \in Cashiers, CashierBegins(s) PROVE CycleInv' BY <1>6, CycleCashes
<1>5. CASE UNCHANGED vars
  <2>1. TypeOK' /\ JobsApart' /\ LoanState'
    BY <1>5 DEF vars, CycleInv, TypeOK, JobsApart, LoanState
  <2> QED BY <1>5, <2>1, CycleFrame DEF vars
<1> QED BY <1>2, <1>3, <1>4, <1>5, <1>6 DEF Next

(* The rows and the jobs are well typed, whatever races. *)
THEOREM TypeCorrect == Spec => []TypeOK
<1>1. CycleInv => TypeOK BY DEF CycleInv
<1> QED BY <1>1, CycleInit, CycleStep, PTL DEF Spec

(* No two loans of a client have one cycle, and none after the first goes   *)
(* without its survey, however many officers apply (lending.apply_for_loan). *)
THEOREM CyclesNeverShared == Spec => []CyclesDistinct
<1>1. CycleInv => CyclesDistinct BY DEF CycleInv
<1> QED BY <1>1, CycleInit, CycleStep, PTL DEF Spec

---------------------------------------------------------------------------
(* What one step does to a loan, to the jobs, to an identity and to a      *)
(* request: no assumption on the threads.                                  *)

(* The status stays, or a transition, a payout or an approver who had read *)
(* the loan moves it.                                                      *)
PlainMove(l) ==
  \/ loan'[l].status = loan[l].status
  \/ loan[l].status = "none" /\ loan'[l].status = "pending"
  \/ loan[l].status \in Undecided /\ loan'[l].status \in {"underwriting", "rejected"}
  \/ loan[l].status \in Running /\ loan'[l].status \in {"overdue", "defaulted"}
  \/ loan[l].status = "approved" /\ loan'[l].status = "processing"
  \/ \E j \in jobs : /\ j.kind = "decide" /\ j.loan = l /\ LoanFree(l)
                     /\ \/ loan'[l].status = "rejected"
                        \/ /\ loan'[l].status = "approved" /\ Covers(j.user, l)
                           /\ j.user \in granted'[l]

(* Or a cashier does. *)
LoanMove(l) ==
  \/ PlainMove(l)
  \/ \E j \in jobs : /\ j.kind \in {"settle", "release"} /\ j.loan = l
                     /\ loan'[l].status \in Granted

(* What a handler found when it read its rows, writing nothing yet. *)
Begun(j) ==
  /\ UNCHANGED <<client, loan>>
  /\ j.kind = "decide" => loan[j.loan].status \in Undecided /\ MayDecide(j.user)
  /\ j.kind = "settle" => loan[j.loan].status = "processing"
  /\ j.kind = "release" => loan[j.loan].status \in Owing /\ j.last = ~OthersRun(j.loan)
  /\ j.kind \in {"settle", "release"} => j.locked = client[loan[j.loan].client].locked
  /\ j.kind = "edit" => j.frozen = Frozen(j.client)
  /\ j.kind = "review" => edit[j.edit].status = "pending"

(* An edit that found the borrower free, or a reviewed request, changes an *)
(* identity.                                                               *)
IdentityMove(c) ==
  \/ client'[c].identity = client[c].identity
  \/ \E j \in jobs : /\ j.kind = "edit" /\ j.client = c /\ ~j.frozen
                     /\ client'[c].identity = "direct"
  \/ \E j \in jobs : /\ j.kind = "review" /\ edit[j.edit].client = c
                     /\ edit'[j.edit].status = "approved" /\ client'[c].identity = j.edit

EditMove(r) ==
  \/ edit'[r] = edit[r]
  \/ edit[r].status = "none"
  \/ \E j \in jobs : /\ j.kind = "review" /\ j.edit = r
                     /\ edit'[r].status \in {"approved", "rejected"}

(* The locks are left alone, as is who borrowed what. *)
LocksLie ==
  /\ \A c \in Clients : client'[c].locked = client[c].locked
  /\ \A l \in Loans : /\ PlainMove(l) /\ loan'[l].lock = loan[l].lock
                      /\ loan'[l].client = loan[l].client \/ loan[l].status = "none"

Moves ==
  /\ \A l \in Loans : LoanMove(l) /\ granted[l] \subseteq granted'[l]
  /\ \A j \in jobs' : j \in jobs \/ Begun(j)
  /\ \A c \in Clients : IdentityMove(c)
  /\ \A r \in Edits : EditMove(r)
  /\ LocksLie \/ \E j \in jobs : Activate(j) \/ FailPayout(j) \/ Release(j)

LEMMA BeginMoves ==
  ASSUME TypeOK,
         \/ \E o \in Officers, c \in Clients : BeginApply(o, c)
         \/ \E s \in Staff : StaffBegins(s)
         \/ \E s \in Cashiers : CashierBegins(s)
  PROVE  Moves
<1> USE DEF Moves, LoanMove, PlainMove, LocksLie, IdentityMove, EditMove
<1>1. ASSUME NEW j, UNCHANGED <<client, loan, edit, granted>>, jobs' = jobs \cup {j}, Begun(j)
      PROVE  Moves
  BY <1>1
<1>2. ASSUME NEW o \in Officers, NEW c \in Clients, BeginApply(o, c) PROVE Moves
  BY <1>1, <1>2 DEF BeginApply, Begin, Begun
<1>3. ASSUME NEW s \in Cashiers, NEW l \in Loans, BeginSettle(s, l) PROVE Moves
  BY <1>1, <1>3 DEF BeginSettle, Begin, Begun
<1>4. ASSUME NEW s \in Cashiers, NEW l \in Loans, BeginRelease(s, l) PROVE Moves
  BY <1>1, <1>4 DEF BeginRelease, Begin, Begun
<1>5. ASSUME NEW s \in Staff, NEW c \in Clients, BeginEdit(s, c) PROVE Moves
  BY <1>1, <1>5 DEF BeginEdit, Begin, Begun
<1>6. ASSUME NEW s \in Staff, NEW r \in Edits, BeginReview(s, r) PROVE Moves
  BY <1>1, <1>6 DEF BeginReview, Begin, Begun
<1>7. ASSUME NEW s \in Staff, NEW u \in Users, NEW l \in Loans, BeginDecide(s, u, l) PROVE Moves
  BY <1>1, <1>7 DEF BeginDecide, Begin, Begun
<1>8. ASSUME NEW c \in Clients, NEW profile, Create(c, profile) \/ DecideClient(c, profile)
      PROVE  Moves
  BY <1>8 DEF Create, DecideClient, TypeOK, Client
<1>9. ASSUME NEW c \in Clients, Survey(c) PROVE Moves BY <1>9 DEF Survey
<1>10. ASSUME NEW c \in Clients, NEW r \in Edits, RequestEdit(r, c) PROVE Moves
  BY <1>10 DEF RequestEdit, TypeOK
<1>11. ASSUME NEW l \in Loans, NEW status \in Status, Transition(l, status) PROVE Moves
  <2>1. \/ loan[l].status \in Undecided /\ status \in {"underwriting", "rejected"}
        \/ loan[l].status \in Running /\ status \in {"overdue", "defaulted"}
    BY <1>11, TransitionCases DEF Undecided, Running
  <2>2. /\ loan'[l].status = status /\ \A k \in Loans : k # l => loan'[k] = loan[k]
        /\ loan'[l].lock = loan[l].lock /\ loan'[l].client = loan[l].client
        /\ UNCHANGED <<client, edit, jobs, granted>>
    BY <1>11 DEF Transition, TypeOK, Loan
  <2> QED BY <2>1, <2>2
<1>12. ASSUME NEW l \in Loans, Disburse(l) PROVE Moves
  BY <1>12 DEF Disburse, TypeOK, Loan
<1> QED BY <1>2, <1>3, <1>4, <1>5, <1>6, <1>7, <1>8, <1>9, <1>10, <1>11, <1>12, Joins
        DEF StaffBegins, CashierBegins

LEMMA CommitMoves == ASSUME TypeOK, NEW j \in jobs, Commit(j) PROVE Moves
<1> USE DEF Moves, IdentityMove, EditMove
(* A commit that writes neither clients nor requests. *)
<1>1. ASSUME NEW l \in Loans, LoanMove(l), \A k \in Loans : k # l => loan'[k].status = loan[k].status,
             \A k \in Loans : granted[k] \subseteq granted'[k], jobs' = jobs \ {j},
             \A c \in Clients : client'[c].identity = client[c].identity, edit' = edit,
             LocksLie \/ Activate(j) \/ FailPayout(j) \/ Release(j)
      PROVE  Moves
  BY <1>1 DEF LoanMove, PlainMove
<1>2. ASSUME NEW identity \in BOOLEAN, NEW alias \in BOOLEAN, SaveEdit(j, identity, alias)
      PROVE  Moves
  <2>1. j.client \in Clients /\ j.frozen \in BOOLEAN BY <1>2, JobShape DEF SaveEdit
  <2>2. \A c \in Clients : client'[c].identity =
          IF c = j.client /\ identity THEN "direct" ELSE client[c].identity
    BY <1>2, <2>1 DEF SaveEdit, TypeOK, Client
  <2>3. \A c \in Clients : IdentityMove(c)
    BY <1>2, <2>1, <2>2 DEF SaveEdit
  <2>4. LocksLie BY <1>2, <2>1 DEF SaveEdit, TypeOK, Client, LocksLie, PlainMove
  <2> QED BY <1>2, <2>3, <2>4 DEF SaveEdit, End, LoanMove, PlainMove
<1>3. CASE ApproveEdit(j)
  <2>1. j.edit \in Edits BY <1>3, JobShape DEF ApproveEdit
  <2>2. /\ \A c \in Clients : client'[c].identity =
             IF c = edit[j.edit].client THEN j.edit ELSE client[c].identity
        /\ edit'[j.edit].status = "approved"
        /\ \A r \in Edits : r # j.edit => edit'[r] = edit[r]
    BY <1>3, <2>1 DEF ApproveEdit, TypeOK, Client, Edit
  <2>3. j.kind = "review" /\ jobs' = jobs \ {j} /\ UNCHANGED <<loan, granted>>
    BY <1>3 DEF ApproveEdit, End
  <2>4. LocksLie BY <1>3, <2>3 DEF ApproveEdit, TypeOK, Client, LocksLie, PlainMove
  <2> QED BY <2>1, <2>2, <2>3, <2>4 DEF LoanMove, PlainMove
<1>4. CASE RejectEdit(j)
  <2>1. j.edit \in Edits BY <1>4, JobShape DEF RejectEdit
  <2>2. /\ edit'[j.edit].status = "rejected"
        /\ \A r \in Edits : r # j.edit => edit'[r] = edit[r]
    BY <1>4, <2>1 DEF RejectEdit, TypeOK, Edit
  <2>3. j.kind = "review" /\ jobs' = jobs \ {j} /\ UNCHANGED <<client, loan, granted>>
    BY <1>4 DEF RejectEdit, End
  <2> QED BY <2>1, <2>2, <2>3 DEF LoanMove, PlainMove, LocksLie
<1>5. ASSUME NEW l \in Loans, Apply(j, l) PROVE Moves
  <2>1. /\ loan[l].status = "none" /\ loan'[l].status = "pending"
        /\ \A k \in Loans : k # l => loan'[k] = loan[k]
        /\ jobs' = jobs \ {j} /\ UNCHANGED <<client, edit, granted>>
        /\ loan'[l].lock = loan[l].lock
    BY <1>5 DEF Apply, End, TypeOK, Loan
  <2>2. LocksLie /\ LoanMove(l) BY <2>1 DEF LocksLie, LoanMove, PlainMove
  <2> QED BY <1>1, <2>1, <2>2
<1>6. CASE Approve(j)
  <2>1. j.loan \in Loans /\ j.user \in Users BY <1>6, JobShape DEF Approve
  <2>2. /\ loan'[j.loan].status = "approved"
        /\ loan'[j.loan].lock = loan[j.loan].lock /\ loan'[j.loan].client = loan[j.loan].client
        /\ \A k \in Loans : k # j.loan => loan'[k] = loan[k]
    BY <1>6, <2>1 DEF Approve, TypeOK, Loan
  <2>3. /\ j.user \in granted'[j.loan] /\ \A k \in Loans : granted[k] \subseteq granted'[k]
    BY <1>6, <2>1 DEF Approve, TypeOK
  <2>4. j.kind = "decide" /\ Covers(j.user, j.loan) /\ LoanFree(j.loan)
        /\ jobs' = jobs \ {j} /\ UNCHANGED <<client, edit>>
    BY <1>6 DEF Approve, End
  <2>5. LoanMove(j.loan) /\ LocksLie BY <2>2, <2>3, <2>4 DEF LoanMove, PlainMove, LocksLie
  <2> QED BY <1>1, <2>1, <2>2, <2>3, <2>4, <2>5
<1>7. CASE Reject(j)
  <2>1. j.loan \in Loans BY <1>7, JobShape DEF Reject
  <2>2. /\ loan'[j.loan].status = "rejected" /\ j.kind = "decide" /\ LoanFree(j.loan)
        /\ loan'[j.loan].lock = loan[j.loan].lock /\ loan'[j.loan].client = loan[j.loan].client
        /\ \A k \in Loans : k # j.loan => loan'[k] = loan[k]
        /\ jobs' = jobs \ {j} /\ UNCHANGED <<client, edit, granted>>
    BY <1>7, <2>1 DEF Reject, End, TypeOK, Loan
  <2>3. LoanMove(j.loan) /\ LocksLie BY <2>2 DEF LoanMove, PlainMove, LocksLie
  <2> QED BY <1>1, <2>1, <2>2, <2>3
<1>8. CASE Escalate(j) BY <1>8 DEF Escalate, End, LoanMove, PlainMove, LocksLie
<1>9. CASE Activate(j)
  <2>1. j.loan \in Loans BY <1>9, JobShape DEF Activate
  <2>2. /\ loan'[j.loan].status = "active" /\ j.kind = "settle"
        /\ \A k \in Loans : k # j.loan => loan'[k] = loan[k]
        /\ jobs' = jobs \ {j} /\ UNCHANGED <<edit, granted>>
    BY <1>9, <2>1 DEF Activate, End, TypeOK, Loan
  <2>3. \A c \in Clients : client'[c].identity = client[c].identity
    BY <1>9 DEF Activate, TypeOK, Client
  <2>4. LoanMove(j.loan) BY <2>2 DEF LoanMove, PlainMove, Granted, Owing, Running
  <2> QED BY <1>1, <1>9, <2>1, <2>2, <2>3, <2>4
<1>10. CASE FailPayout(j)
  <2>1. j.loan \in Loans BY <1>10, JobShape DEF FailPayout
  <2>2. /\ loan'[j.loan].status = "approved" /\ j.kind = "settle"
        /\ \A k \in Loans : k # j.loan => loan'[k] = loan[k]
        /\ jobs' = jobs \ {j} /\ UNCHANGED <<client, edit, granted>>
    BY <1>10, <2>1 DEF FailPayout, End, TypeOK, Loan
  <2>3. LoanMove(j.loan) BY <2>2 DEF LoanMove, Granted
  <2> QED BY <1>1, <1>10, <2>1, <2>2, <2>3
<1>11. CASE Release(j)
  <2>1. j.loan \in Loans BY <1>11, JobShape DEF Release
  <2>2. /\ loan'[j.loan].status = "paid" /\ j.kind = "release"
        /\ \A k \in Loans : k # j.loan => loan'[k] = loan[k]
        /\ jobs' = jobs \ {j} /\ UNCHANGED <<edit, granted>>
    BY <1>11, <2>1 DEF Release, End, TypeOK, Loan
  <2>3. \A c \in Clients : client'[c].identity = client[c].identity
    BY <1>11 DEF Release, TypeOK, Client
  <2>4. LoanMove(j.loan) BY <2>2 DEF LoanMove, Granted
  <2> QED BY <1>1, <1>11, <2>1, <2>2, <2>3, <2>4
<1> QED BY <1>2, <1>3, <1>4, <1>5, <1>6, <1>7, <1>8, <1>9, <1>10, <1>11 DEF Commit

LEMMA StepMoves == ASSUME TypeOK, [Next]_vars PROVE Moves
<1>1. CASE UNCHANGED vars BY <1>1 DEF vars, Moves, LoanMove, PlainMove, LocksLie, IdentityMove, EditMove
<1>2. CASE \E j \in jobs : Commit(j) BY <1>2, CommitMoves
<1> QED BY <1>1, <1>2, BeginMoves DEF Next
---------------------------------------------------------------------------
(* What holds whatever races.                                              *)

LEMMA LendingInit == Init => LendingInv
<1> SUFFICES ASSUME Init PROVE LendingInv OBVIOUS
<1>1. RightState /\ ApprovedByRight /\ ReviewState
  BY DEF Init, RightState, ApprovedByRight, ReviewState, Granted, Owing, Running
<1> QED BY <1>1, CycleInit DEF LendingInv

LEMMA LendingStep == LendingInv /\ [Next]_vars => LendingInv'
<1> SUFFICES ASSUME LendingInv, [Next]_vars PROVE LendingInv' OBVIOUS
<1>1. TypeOK /\ Moves /\ CycleInv' BY CycleStep, StepMoves DEF LendingInv, CycleInv
<1>2. RightState'
  <2> SUFFICES ASSUME NEW j \in jobs'
               PROVE  /\ j.kind = "decide" => MayDecide(j.user)
                      /\ j.kind \in {"settle", "release"} =>
                           \E u \in granted'[j.loan] : MayDecide(u) /\ Covers(u, j.loan)
    BY DEF RightState, MayDecide, Covers
  <2>1. j.kind \in {"settle", "release"} => j.loan \in Loans
    <3>1. j \in Job BY <1>1 DEF CycleInv, TypeOK
    <3> QED BY <3>1 DEF Job
  <2>2. CASE j \in jobs BY <1>1, <2>1, <2>2 DEF Moves, LendingInv, RightState
  <2>3. CASE Begun(j)
    <3>1. j.kind \in {"settle", "release"} => loan[j.loan].status \in Granted
      BY <2>3 DEF Begun, Granted
    <3> QED BY <1>1, <2>1, <2>3, <3>1 DEF Moves, Begun, LendingInv, ApprovedByRight
  <2> QED BY <1>1, <2>2, <2>3 DEF Moves
<1>3. ApprovedByRight'
  <2> SUFFICES ASSUME NEW l \in Loans, loan'[l].status \in Granted
               PROVE  \E u \in granted'[l] : MayDecide(u) /\ Covers(u, l)
    BY DEF ApprovedByRight, MayDecide, Covers
  <2>1. granted[l] \subseteq granted'[l] /\ LoanMove(l) BY <1>1 DEF Moves
  <2>2. CASE loan[l].status \in Granted BY <2>1, <2>2 DEF LendingInv, ApprovedByRight
  <2>3. CASE loan[l].status \notin Granted
    <3>1. \E j \in jobs : /\ j.loan = l
                          /\ \/ j.kind = "decide" /\ Covers(j.user, l) /\ j.user \in granted'[l]
                             \/ j.kind \in {"settle", "release"}
      BY <2>1, <2>3 DEF LoanMove, PlainMove, Granted, Owing, Running, Undecided
    <3> QED BY <2>1, <3>1 DEF LendingInv, RightState
  <2> QED BY <2>2, <2>3
<1>4. ReviewState'
  <2> SUFFICES ASSUME NEW j \in jobs', j.kind = "review" PROVE edit'[j.edit].status # "none"
    BY DEF ReviewState
  <2>1. j.edit \in Edits
    <3>1. j \in Job BY <1>1 DEF CycleInv, TypeOK
    <3> QED BY <3>1 DEF Job
  <2>2. edit[j.edit].status # "none" BY <1>1 DEF Moves, Begun, LendingInv, ReviewState
  <2> QED BY <1>1, <2>1, <2>2 DEF Moves, EditMove
<1> QED BY <1>1, <1>2, <1>3, <1>4 DEF LendingInv

(* Whoever decides at the same time, and whatever happens to a loan: every  *)
(* loan that gets money was granted by somebody who may decide loans and    *)
(* whose limit covers it (approvals.decide_loan, lending.transition_loan).  *)
THEOREM GrantedByRight == Spec => []ApprovedByRight
<1>1. LendingInv => ApprovedByRight BY DEF LendingInv
<1> QED BY <1>1, LendingInit, LendingStep, PTL DEF Spec

LEMMA KeepsIdentity ==
  ASSUME LendingInv, [Next]_vars, NEW c \in Clients, Closed(c)
  PROVE  /\ HasActive(c)' => Closed(c)'
         /\ client'[c].identity # client[c].identity =>
              \E j \in jobs : /\ j.kind = "review" /\ edit[j.edit].client = c
                              /\ edit'[j.edit].status = "approved"
                              /\ client'[c].identity = j.edit
<1>1. Moves BY StepMoves DEF LendingInv, CycleInv
<1>2. \A j \in jobs' : j.kind = "edit" /\ j.client = c => j.frozen
  <2>1. \A j \in jobs : j.kind = "edit" /\ j.client = c => j.frozen BY DEF Closed
  <2>2. Frozen(c) BY DEF Closed, Frozen
  <2> QED BY <1>1, <2>1, <2>2 DEF Moves, Begun
<1> QED BY <1>1, <1>2 DEF Moves, IdentityMove, Closed

(* A borrower with a running loan keeps the identity it has, apart from     *)
(* reviewed requests, once the direct edits that had found it free are done *)
(* (clients.update_client and its lock).                                    *)
THEOREM IdentityKept == Spec => IdentityFrozen
<1> DEFINE Kept(c) == Closed(c) =>
      /\ HasActive(c)' => Closed(c)'
      /\ client'[c].identity # client[c].identity =>
           \E j \in jobs : /\ j.kind = "review" /\ edit[j.edit].client = c
                           /\ edit'[j.edit].status = "approved"
                           /\ client'[c].identity = j.edit
           Final == \A c \in Clients : Kept(c)
<1>1. LendingInv /\ [Next]_vars => [Final]_vars BY KeepsIdentity
<1>2. Spec => [][Final]_vars BY <1>1, LendingInit, LendingStep, PTL DEF Spec
<1> QED BY <1>2 DEF IdentityFrozen

LEMMA KeepsReview ==
  ASSUME LendingInv, [Next]_vars, NEW r \in Edits, Reviewed(r)
  PROVE  /\ Reviewed(r)' /\ edit'[r] = edit[r]
         /\ \A c \in Clients : client'[c].identity = r => client[c].identity = r
<1> USE LendingAssumption DEF LendingAssumption
<1>1. Moves BY StepMoves DEF LendingInv, CycleInv
<1>2. \A j \in jobs' : j.kind = "review" => j.edit # r BY <1>1 DEF Moves, Begun, Reviewed
<1>3. edit'[r] = edit[r] BY <1>1 DEF Moves, EditMove, Reviewed
<1>4. ASSUME NEW c \in Clients, client'[c].identity = r PROVE client[c].identity = r
  <2>1. IdentityMove(c) BY <1>1 DEF Moves
  <2> QED BY <1>4, <2>1 DEF IdentityMove, Reviewed
<1> QED BY <1>2, <1>3, <1>4 DEF Reviewed

(* A change that was rejected is never applied, and one that was approved   *)
(* is not applied again, once the reviewers who had found it pending are    *)
(* done (client_edits.approve_edit_request, reject_edit_request).           *)
THEOREM ReviewsStand == Spec => ReviewedForGood
<1> DEFINE Kept(r) == Reviewed(r) =>
      /\ Reviewed(r)' /\ edit'[r] = edit[r]
      /\ \A c \in Clients : client'[c].identity = r => client[c].identity = r
           Final == \A r \in Edits : Kept(r)
<1>1. LendingInv /\ [Next]_vars => [Final]_vars BY KeepsReview
<1>2. Spec => [][Final]_vars BY <1>1, LendingInit, LendingStep, PTL DEF Spec
<1> QED BY <1>2 DEF ReviewedForGood

LEMMA KeepsDecision ==
  ASSUME LendingInv, [Next]_vars, NEW l \in Loans, Decided(l)
  PROVE  Decided(l)' /\ (loan'[l].status = "rejected" <=> loan[l].status = "rejected")
<1>1. Moves BY StepMoves DEF LendingInv, CycleInv
<1>2. LoanMove(l) BY <1>1 DEF Moves
<1>3. \A j \in jobs' : j.loan = l /\ j.kind \in {"decide", "settle", "release"} =>
        j.kind # "decide" /\ loan[l].status # "rejected"
  BY <1>1 DEF Moves, Begun, Decided, Granted, Owing, Running, Undecided
<1>4. CASE loan[l].status \in Granted
  <2>1. loan'[l].status \in Granted
    BY <1>2, <1>4 DEF LoanMove, PlainMove, Decided, Granted, Owing, Running, Undecided
  <2> QED BY <1>3, <1>4, <2>1 DEF Decided, Granted, Owing, Running
<1>5. CASE loan[l].status = "rejected"
  <2>1. loan'[l].status = "rejected"
    BY <1>2, <1>5 DEF LoanMove, PlainMove, Decided, Running, Undecided
  <2> QED BY <1>3, <1>5, <2>1 DEF Decided
<1> QED BY <1>4, <1>5 DEF Decided

(* A rejected loan is never revived, and a granted one is never rejected or *)
(* undecided again, once the approvers who had found it undecided are done  *)
(* (approvals.decide_loan, lending.transition_loan).                        *)
THEOREM DecisionsStand == Spec => DecidedForGood
<1> DEFINE Kept(l) == Decided(l) =>
      Decided(l)' /\ (loan'[l].status = "rejected" <=> loan[l].status = "rejected")
           Final == \A l \in Loans : Kept(l)
<1>1. LendingInv /\ [Next]_vars => [Final]_vars BY KeepsDecision
<1>2. Spec => [][Final]_vars BY <1>1, LendingInit, LendingStep, PTL DEF Spec
<1> QED BY <1>2 DEF DecidedForGood
---------------------------------------------------------------------------
(* The edit lock, with one cashier.                                        *)

LEMMA LockInit == Init => LockInv
<1> SUFFICES ASSUME Init PROVE LockInv OBVIOUS
<1>1. LockState /\ LockFollowsLoans
  BY DEF Init, LockState, LockFollowsLoans, HasActive, Applied, Owing, Running
<1> QED BY <1>1, LendingInit DEF LockInv

(* LockFollowsLoans after a step, in three parts. *)
LEMMA LocksNext ==
  ASSUME \A l \in Loans : /\ loan'[l].status \in Owing => loan'[l].lock = "open"
                          /\ loan'[l].status \in {"none", "paid"} => loan'[l].lock # "open",
         \A c \in Clients : HasActive(c)' => client'[c].locked,
         \A c \in Clients : client'[c].locked => \E l \in Applied(c)' : loan'[l].lock = "open"
  PROVE  LockFollowsLoans'
<1>1. (\A l \in Loans : /\ loan[l].status \in Owing => loan[l].lock = "open"
                        /\ loan[l].status \in {"none", "paid"} => loan[l].lock # "open")' OBVIOUS
<1>2. (\A c \in Clients : HasActive(c) => client[c].locked)' OBVIOUS
<1>3. (\A c \in Clients : client[c].locked => \E l \in Applied(c) : loan[l].lock = "open")'
  BY DEF Applied
<1> QED BY <1>1, <1>2, <1>3, Zenon DEF LockFollowsLoans

(* A step that leaves the locks alone keeps what is known about them. *)
LEMMA LockKept ==
  ASSUME LockInv, Moves, LocksLie, TypeOK'
  PROVE  LockState' /\ LockFollowsLoans'
<1>1. /\ TypeOK /\ LoanState
      /\ \A l \in Loans : loan[l].status = "none" <=> loan[l].client = Nobody
  BY DEF LockInv, LendingInv, CycleInv, LoanState
<1>2. ASSUME NEW l \in Loans
      PROVE  /\ loan'[l].status \in Running => loan[l].status \in Running
             /\ loan'[l].status \in Owing => loan[l].status \in Owing
             /\ loan'[l].status \in {"none", "paid"} => loan[l].status \in {"none", "paid"}
             /\ loan[l].status \in Owing /\ ~LoanFree(l) => loan'[l].status \in Owing
             /\ loan[l].status # "none" => loan'[l].client = loan[l].client
             /\ loan'[l].status \in Running => loan'[l].client = loan[l].client
  BY DEF LocksLie, PlainMove, Running, Owing, Undecided
<1>3. LockFollowsLoans'
  <2>1. \A l \in Loans : /\ loan'[l].status \in Owing => loan'[l].lock = "open"
                         /\ loan'[l].status \in {"none", "paid"} => loan'[l].lock # "open"
    BY <1>2 DEF LocksLie, LockInv, LockFollowsLoans
  <2>2. ASSUME NEW c \in Clients, HasActive(c)' PROVE client'[c].locked
    <3>1. HasActive(c) BY <1>2, <2>2 DEF HasActive, Applied
    <3> QED BY <3>1 DEF LocksLie, LockInv, LockFollowsLoans
  <2>3. ASSUME NEW c \in Clients, client'[c].locked
        PROVE  \E l \in Applied(c)' : loan'[l].lock = "open"
    <3>1. PICK l \in Loans : loan[l].client = c /\ loan[l].lock = "open"
      BY <2>3 DEF LocksLie, LockInv, LockFollowsLoans, Applied
    <3>2. loan[l].status # "none" BY <3>1 DEF LockInv, LockFollowsLoans
    <3> QED BY <1>2, <3>1, <3>2 DEF Applied, LocksLie
  <2> QED BY <2>1, <2>2, <2>3, LocksNext
<1>4. LockState'
  <2> SUFFICES ASSUME NEW j \in jobs', j.kind \in {"settle", "release"}
               PROVE  /\ j.locked = client'[loan'[j.loan].client].locked
                      /\ j.kind = "release" =>
                           /\ loan'[j.loan].status \in Owing
                           /\ IF j.last THEN ~OthersRun(j.loan)'
                              ELSE \E k \in Applied(loan[j.loan].client)' \ {j.loan} :
                                     loan'[k].lock = "open"
    BY DEF LockState
  <2>1. j.loan \in Loans /\ (j.kind = "release" => j.last \in BOOLEAN)
    <3>1. j \in Job BY DEF TypeOK
    <3> QED BY <3>1 DEF Job
  <2>2. CASE j \in jobs
    <3>1. loan[j.loan].status # "none" BY <1>1, <2>2 DEF LoanState
    <3>2. /\ loan[j.loan].client \in Clients /\ loan'[j.loan].client = loan[j.loan].client
          /\ j.locked = client[loan[j.loan].client].locked
      BY <1>1, <1>2, <2>1, <2>2, <3>1 DEF TypeOK, Loan, LockInv, LockState
    <3>3. j.locked = client'[loan'[j.loan].client].locked BY <3>2 DEF LocksLie
    <3>4. ASSUME j.kind = "release"
          PROVE  /\ loan'[j.loan].status \in Owing
                 /\ IF j.last THEN ~OthersRun(j.loan)'
                    ELSE \E k \in Applied(loan[j.loan].client)' \ {j.loan} : loan'[k].lock = "open"
      <4>1. ~LoanFree(j.loan) BY <2>2, <3>4 DEF LoanFree
      <4>2. loan'[j.loan].status \in Owing
        BY <1>2, <2>1, <2>2, <3>4, <4>1 DEF LockInv, LockState
      <4>3. CASE j.last
        <5>1. ~OthersRun(j.loan) BY <2>2, <3>4, <4>3 DEF LockInv, LockState
        <5>2. ~OthersRun(j.loan)' BY <1>2, <2>1, <3>2, <5>1 DEF OthersRun, Applied
        <5> QED BY <4>2, <4>3, <5>2
      <4>4. CASE ~j.last
        <5>1. PICK k \in Loans : k # j.loan /\ loan[k].client = loan[j.loan].client
                                /\ loan[k].lock = "open"
          BY <2>2, <3>4, <4>4 DEF LockInv, LockState, Applied
        <5>2. loan[k].status # "none" BY <5>1 DEF LockInv, LockFollowsLoans
        <5>3. k \in Applied(loan[j.loan].client)' /\ loan'[k].lock = "open"
          BY <1>2, <3>2, <5>1, <5>2 DEF Applied, LocksLie
        <5> QED BY <4>2, <4>4, <5>1, <5>3
      <4> QED BY <2>1, <3>4, <4>3, <4>4
    <3> QED BY <3>3, <3>4
  <2>3. CASE Begun(j)
    <3>1. client' = client /\ loan' = loan BY <2>3 DEF Begun
    <3>2. OthersRun(j.loan) => \E k \in Applied(loan[j.loan].client) \ {j.loan} : loan[k].lock = "open"
      BY DEF OthersRun, Applied, LockInv, LockFollowsLoans, Owing
    <3> QED BY <2>1, <2>3, <3>1, <3>2 DEF Begun, OthersRun, Applied
  <2> QED BY <2>2, <2>3 DEF Moves
<1> QED BY <1>3, <1>4

(* The one cashier has no other job, and none is begun meanwhile. *)
LEMMA LockAlone ==
  ASSUME Serial, LockInv, NEW j \in jobs, j.kind \in {"settle", "release"}, jobs' = jobs \ {j}
  PROVE  LockState'
<1>1. \A k \in jobs : k.kind \in {"settle", "release"} => k = j
  <2>1. \A k \in jobs : k.kind \in {"settle", "release"} => k.by \in Cashiers
    BY JobShape DEF LockInv, LendingInv, CycleInv
  <2> QED BY <2>1 DEF Serial, LockInv, LendingInv, CycleInv, JobsApart
<1> QED BY <1>1 DEF LockState

(* The loan's borrower, whom the cashier's job writes. *)
LEMMA LockRows ==
  ASSUME LockInv, NEW j \in jobs, j.kind \in {"settle", "release"}
  PROVE  /\ j.loan \in Loans /\ loan[j.loan].client \in Clients
         /\ j.locked = client[loan[j.loan].client].locked /\ j.locked \in BOOLEAN
<1>1. TypeOK /\ LoanState BY DEF LockInv, LendingInv, CycleInv
<1>2. j.loan \in Loans /\ loan[j.loan].status # "none" /\ j.locked \in BOOLEAN
  BY <1>1, JobShape DEF LoanState
<1> QED BY <1>1, <1>2 DEF LoanState, TypeOK, Loan, LockInv, LockState

LEMMA LockCommits ==
  ASSUME Serial, LockInv, NEW j \in jobs, Activate(j) \/ FailPayout(j) \/ Release(j)
  PROVE  LockState' /\ LockFollowsLoans'
<1>1. /\ j.kind \in {"settle", "release"} /\ jobs' = jobs \ {j}
  BY DEF Activate, FailPayout, Release, End
<1>2. LockState' BY <1>1, LockAlone
<1>3. TypeOK BY DEF LockInv, LendingInv, CycleInv
<1>4. PICK c \in Clients : /\ c = loan[j.loan].client /\ j.loan \in Loans
                          /\ j.locked = client[c].locked /\ j.locked \in BOOLEAN
  BY <1>1, LockRows
<1>5. /\ \A d \in Clients : HasActive(d) => client[d].locked
      /\ \A d \in Clients : client[d].locked => \E l \in Applied(d) : loan[l].lock = "open"
      /\ \A l \in Loans : /\ loan[l].status \in Owing => loan[l].lock = "open"
                          /\ loan[l].status \in {"none", "paid"} => loan[l].lock # "open"
  BY DEF LockInv, LockFollowsLoans
<1>6. CASE Activate(j)
  <2>1. /\ loan'[j.loan].status = "active" /\ loan'[j.loan].lock = "open" /\ loan'[j.loan].client = c
        /\ \A l \in Loans : l # j.loan => loan'[l] = loan[l]
    BY <1>3, <1>4, <1>6 DEF Activate, TypeOK, Loan
  <2>2. client'[c].locked = TRUE /\ \A d \in Clients : d # c => client'[d].locked = client[d].locked
    BY <1>3, <1>4, <1>6 DEF Activate, TypeOK, Client
  <2>3. \A d \in Clients : d # c => Applied(d)' = Applied(d) /\ j.loan \notin Applied(d)
    BY <1>4, <2>1 DEF Applied
  <2>4. j.loan \in Applied(c)' BY <1>4, <2>1 DEF Applied
  <2>5. \A d \in Clients : d # c => (HasActive(d)' <=> HasActive(d))
    BY <2>1, <2>3 DEF HasActive, Applied
  <2>6. \A d \in Clients : client'[d].locked => \E l \in Applied(d)' : loan'[l].lock = "open"
    BY <1>5, <2>1, <2>2, <2>3, <2>4 DEF Applied
  <2>7. \A d \in Clients : HasActive(d)' => client'[d].locked BY <1>5, <2>2, <2>5
  <2>8. \A l \in Loans : /\ loan'[l].status \in Owing => loan'[l].lock = "open"
                         /\ loan'[l].status \in {"none", "paid"} => loan'[l].lock # "open"
    BY <1>5, <2>1
  <2> QED BY <1>2, <2>6, <2>7, <2>8, LocksNext
<1>7. CASE FailPayout(j)
  <2>1. /\ loan'[j.loan].status = "approved" /\ client' = client
        /\ \A l \in Loans : /\ l # j.loan => loan'[l] = loan[l]
                            /\ loan'[l].lock = loan[l].lock /\ loan'[l].client = loan[l].client
    BY <1>3, <1>4, <1>7 DEF FailPayout, TypeOK, Loan
  <2>2. \A d : Applied(d)' = Applied(d) BY <2>1 DEF Applied
  <2>3. \A d : HasActive(d)' => HasActive(d) BY <2>1, <2>2 DEF HasActive, Applied, Running
  <2>4. \A l \in Loans : /\ loan'[l].status \in Owing => loan'[l].lock = "open"
                         /\ loan'[l].status \in {"none", "paid"} => loan'[l].lock # "open"
    BY <1>5, <2>1 DEF Owing, Running
  <2>5. \A d \in Clients : client'[d].locked => \E l \in Applied(d)' : loan'[l].lock = "open"
    BY <1>5, <2>1, <2>2 DEF Applied
  <2>6. \A d \in Clients : HasActive(d)' => client'[d].locked BY <1>5, <2>1, <2>3
  <2> QED BY <1>2, <2>4, <2>5, <2>6, LocksNext
<1>8. CASE Release(j)
  <2>1. /\ loan'[j.loan].status = "paid" /\ loan'[j.loan].lock = "closed" /\ loan'[j.loan].client = c
        /\ \A l \in Loans : l # j.loan => loan'[l] = loan[l]
    BY <1>3, <1>4, <1>8 DEF Release, TypeOK, Loan
  <2>2. /\ client'[c].locked = IF j.last /\ j.locked THEN FALSE ELSE client[c].locked
        /\ \A d \in Clients : d # c => client'[d].locked = client[d].locked
    BY <1>3, <1>4, <1>8 DEF Release, TypeOK, Client
  <2>3. \A d : Applied(d)' = Applied(d) BY <1>4, <2>1 DEF Applied
  <2>4. \A d \in Clients : d # c => j.loan \notin Applied(d) BY <1>4 DEF Applied
  <2>5. \A d \in Clients : HasActive(d)' => HasActive(d) BY <2>1, <2>3 DEF HasActive, Applied, Running
  <2>6. /\ j.kind = "release" /\ j.last \in BOOLEAN
        /\ j.last => ~OthersRun(j.loan)
        /\ ~j.last => \E k \in Applied(c) \ {j.loan} : loan[k].lock = "open"
    BY <1>3, <1>4, <1>8, JobShape DEF Release, LockInv, LockState
  <2>7. HasActive(c)' => client'[c].locked
    <3>1. CASE j.last
      <4>1. ~HasActive(c)' BY <1>4, <2>1, <2>3, <2>6, <3>1 DEF HasActive, OthersRun, Applied, Running
      <4> QED BY <4>1
    <3>2. CASE ~j.last
      <4>1. client'[c].locked = client[c].locked BY <2>2, <3>2
      <4> QED BY <1>4, <1>5, <2>5, <4>1
    <3> QED BY <2>6, <3>1, <3>2
  <2>8. client'[c].locked => \E l \in Applied(c)' : loan'[l].lock = "open"
    <3>1. CASE j.last BY <1>4, <2>2, <3>1
    <3>2. CASE ~j.last BY <2>1, <2>3, <2>6, <3>2 DEF Applied
    <3> QED BY <2>6, <3>1, <3>2
  <2>9. \A d \in Clients : d # c =>
          /\ HasActive(d)' => client'[d].locked
          /\ client'[d].locked => \E l \in Applied(d)' : loan'[l].lock = "open"
    BY <1>5, <2>1, <2>2, <2>3, <2>4, <2>5 DEF Applied
  <2>10. \A l \in Loans : /\ loan'[l].status \in Owing => loan'[l].lock = "open"
                          /\ loan'[l].status \in {"none", "paid"} => loan'[l].lock # "open"
    BY <1>5, <2>1 DEF Owing, Running
  <2>11. \A d \in Clients : HasActive(d)' => client'[d].locked BY <2>7, <2>9
  <2>12. \A d \in Clients : client'[d].locked => \E l \in Applied(d)' : loan'[l].lock = "open"
    BY <2>8, <2>9
  <2> QED BY <1>2, <2>10, <2>11, <2>12, LocksNext
<1> QED BY <1>6, <1>7, <1>8

LEMMA LockStep == ASSUME Serial, LockInv, [Next]_vars PROVE LockInv'
<1>1. LendingInv' BY LendingStep DEF LockInv
<1>2. Moves BY StepMoves DEF LockInv, LendingInv, CycleInv
<1>3. LockState' /\ LockFollowsLoans'
  <2>1. CASE LocksLie BY <1>1, <1>2, <2>1, LockKept DEF LendingInv, CycleInv
  <2>2. CASE \E j \in jobs : Activate(j) \/ FailPayout(j) \/ Release(j) BY <2>2, LockCommits
  <2> QED BY <1>2, <2>1, <2>2 DEF Moves
<1> QED BY <1>1, <1>3 DEF LockInv

(* Payout results and repayments one at a time: a borrower with a running   *)
(* loan is locked, and whoever is locked has a loan whose own lock is open  *)
(* (disbursement's activation, repayments._release_active_lock).            *)
THEOREM LocksFollow == ASSUME Serial PROVE Spec => []LockFollowsLoans
<1>1. LockInv /\ [Next]_vars => LockInv' BY LockStep
<1>2. LockInv => LockFollowsLoans BY DEF LockInv
<1> QED BY <1>1, <1>2, LockInit, PTL DEF Spec
=============================================================================
