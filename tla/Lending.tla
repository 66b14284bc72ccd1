------------------------------- MODULE Lending -------------------------------
(***************************************************************************)
(* Clients and the lives of their loans: onboarding, applications, the     *)
(* approver ladder, payout and repayment as far as they move the loan's    *)
(* status, and the edit lock that keeps a borrower's identity from being   *)
(* changed while money is owed (routers/lending, approvals, clients and    *)
(* client_edits).                                                          *)
(*                                                                         *)
(* An application holds the row lock of its client.  Nearly every other    *)
(* handler reads without one and commits later: it is a job between its    *)
(* reads and its commit, and another may commit in between.  What is paid  *)
(* out and what is owed are the business of Payout and Ledger.             *)
(***************************************************************************)
EXTENDS Naturals, FiniteSets

CONSTANTS
  Clients,        \* rows of borrowers
  Loans,          \* rows of loans
  Principal,      \* the amount each of them is for
  Edits,          \* ClientEditRequest rows
  Users,          \* the users who may be asked to decide a loan
  RoleOf,         \* their roles
  Enabled,        \* the roles this DCP lets approve loans
  Limit,          \* loan_approval thresholds of the roles that have one
  Officers,       \* the threads that take applications
  Staff,          \* the threads that decide, edit and review
  Cashiers,       \* the threads that settle payouts and clear loans
  Nobody          \* no user, no client, the identity a client came with

ASSUME LendingAssumption ==
  /\ IsFiniteSet(Loans)
  /\ Principal \in [Loans -> Nat]
  /\ RoleOf \in [Users -> STRING]
  /\ \A r \in DOMAIN Limit : Limit[r] \in Nat
  /\ Nobody \notin Users \cup Clients \cup Edits
  /\ "direct" \notin Edits \cup {Nobody}
  /\ Officers \cap Staff = {} /\ Officers \cap Cashiers = {} /\ Staff \cap Cashiers = {}

VARIABLES
  client,         \* profile_status, edit_locked, and where the identity is from
  loan,           \* status, borrower, cycle, active lock
  surveys,        \* the cycles a client has answered the impact survey for
  edit,           \* the edit requests: status and client
  jobs,           \* handlers that have read their rows and not committed
  granted         \* (history) who has approved each loan

vars == <<client, loan, surveys, edit, jobs, granted>>

---------------------------------------------------------------------------
Profiles == {"draft", "pending_approval", "approved", "rejected"}
Running  == {"active", "overdue"}            \* ACTIVE_LOAN_STATUSES, as far as they occur
Owing    == Running \cup {"defaulted"}       \* COLLECTIBLE_STATUSES

(* Seeded fault: an approved loan may be decided again. *)
UndecidedFault == {"pending", "underwriting", "approved"}

Undecided == {"pending", "underwriting"}
Granted  == {"approved", "processing", "paid"} \cup Owing
Status   == {"none", "rejected"} \cup Undecided \cup Granted

Client == [profile : Profiles \cup {"none"}, locked : BOOLEAN,
           identity : Edits \cup {"direct", Nobody}]
Loan   == [status : Status, client : Clients \cup {Nobody}, cycle : Nat,
           lock : {"none", "open", "closed"}]
Edit   == [status : {"none", "pending", "approved", "rejected"}, client : Clients \cup {Nobody}]
Job    == [by : Officers, kind : {"apply"}, client : Clients, cycle : Nat]
          \cup [by : Staff, kind : {"decide"}, loan : Loans, user : Users]
          \cup [by : Cashiers, kind : {"settle"}, loan : Loans, locked : BOOLEAN]
          \cup [by : Cashiers, kind : {"release"}, loan : Loans, locked : BOOLEAN, last : BOOLEAN]
          \cup [by : Staff, kind : {"edit"}, client : Clients, frozen : BOOLEAN, draft : BOOLEAN]
          \cup [by : Staff, kind : {"review"}, edit : Edits]

Idle(t) == \A j \in jobs : j.by # t

Known(c)      == client[c].profile # "none"
Applied(c)    == {l \in Loans : loan[l].client = c}
NextCycle(c)  == Cardinality(Applied(c)) + 1

(* Seeded fault: applications do not lock their client. *)
ClientFreeFault(c) == c \in Clients

(* An application locks its client, a repayment or a transition its loan. *)
ClientFree(c) == \A j \in jobs : j.kind = "apply" => j.client # c
LoanFree(l)   == \A j \in jobs : j.kind = "release" => j.loan # l

(* Seeded fault: an overdue loan does not keep the lock. *)
OthersRunFault(l) == \E k \in Applied(loan[l].client) \ {l} : loan[k].status = "active"

(* has_active_loan, and the query of _release_active_lock. *)
HasActive(c) == \E l \in Applied(c) : loan[l].status \in Running
OthersRun(l) == \E k \in Applied(loan[l].client) \ {l} : loan[k].status \in Running

Init ==
  /\ client = [c \in Clients |-> [profile |-> "none", locked |-> FALSE, identity |-> Nobody]]
  /\ loan = [l \in Loans |-> [status |-> "none", client |-> Nobody, cycle |-> 0, lock |-> "none"]]
  /\ surveys = [c \in Clients |-> {}]
  /\ edit = [r \in Edits |-> [status |-> "none", client |-> Nobody]]
  /\ jobs = {}
  /\ granted = [l \in Loans |-> {}]

Begin(j)  == Idle(j.by) /\ jobs' = jobs \cup {j}
End(j)    == jobs' = jobs \ {j}

---------------------------------------------------------------------------
(* Clients *)

(* An officer's client waits for approval, one of somebody who could approve *)
(* it does not.                                                              *)
initial_profile_state == {"pending_approval", "approved"}

Create(c, profile) ==
  /\ ~Known(c)
  /\ client' = [client EXCEPT ![c].profile = profile]
  /\ UNCHANGED <<loan, surveys, edit, jobs, granted>>

(* POST /clients, its legacy alias POST /borrowers, and a converted lead. *)
create_client(c)         == \E profile \in initial_profile_state : Create(c, profile)
create_borrower(c)       == \E profile \in initial_profile_state : Create(c, profile)
convert_to_onboarding(c) == Create(c, "draft")

Onboard(c) == create_client(c) \/ create_borrower(c) \/ convert_to_onboarding(c)

(* decide_client: whatever the profile is. *)
DecideClient(c, profile) ==
  /\ Known(c) /\ ClientFree(c) /\ profile \in {"approved", "rejected"}
  /\ client' = [client EXCEPT ![c].profile = profile]
  /\ UNCHANGED <<loan, surveys, edit, jobs, granted>>

(* Seeded fault: only an overdue loan freezes the client. *)
FrozenFault(c) == \E l \in Applied(c) : loan[l].status = "overdue"

Frozen(c) == client[c].locked \/ HasActive(c)

(* update_client and its legacy alias. *)
BeginEdit(s, c) ==
  /\ Known(c)
  /\ Begin([by |-> s, kind |-> "edit", client |-> c,
            frozen |-> Frozen(c), draft |-> client[c].profile = "draft"])
  /\ UNCHANGED <<client, loan, surveys, edit, granted>>

(* Nobody may change the identity of a frozen client; saving a draft queues *)
(* it for approval, except through the alias.                               *)
SaveEdit(j, identity, alias) ==
  /\ j.kind = "edit" /\ ClientFree(j.client)
  /\ identity => ~j.frozen
  /\ client' = [client EXCEPT
                  ![j.client].identity = IF identity THEN "direct" ELSE @,
                  ![j.client].profile = IF j.draft /\ ~alias THEN "pending_approval" ELSE @]
  /\ End(j) /\ UNCHANGED <<loan, surveys, edit, granted>>

RequestEdit(r, c) ==
  /\ Known(c) /\ edit[r].status = "none"
  /\ edit' = [edit EXCEPT ![r] = [status |-> "pending", client |-> c]]
  /\ UNCHANGED <<client, loan, surveys, jobs, granted>>

(* Seeded fault: the status of the request is not looked at. *)
BeginReviewFault(s, r) ==
  /\ edit[r].status # "none"
  /\ Begin([by |-> s, kind |-> "review", edit |-> r])
  /\ UNCHANGED <<client, loan, surveys, edit, granted>>

BeginReview(s, r) ==
  /\ edit[r].status = "pending"
  /\ Begin([by |-> s, kind |-> "review", edit |-> r])
  /\ UNCHANGED <<client, loan, surveys, edit, granted>>

ApproveEdit(j) ==
  /\ j.kind = "review" /\ ClientFree(edit[j.edit].client)
  /\ client' = [client EXCEPT ![edit[j.edit].client].identity = j.edit]
  /\ edit' = [edit EXCEPT ![j.edit].status = "approved"]
  /\ End(j) /\ UNCHANGED <<loan, surveys, granted>>

RejectEdit(j) ==
  /\ j.kind = "review"
  /\ edit' = [edit EXCEPT ![j.edit].status = "rejected"]
  /\ End(j) /\ UNCHANGED <<client, loan, surveys, granted>>

(* submit_survey: for the cycle of the next loan, as long as (bound) there  *)
(* is a loan left to apply for.                                             *)
Survey(c) ==
  /\ Known(c) /\ \E l \in Loans : loan[l].status = "none"
  /\ surveys' = [surveys EXCEPT ![c] = @ \cup {NextCycle(c)}]
  /\ UNCHANGED <<client, loan, edit, jobs, granted>>

---------------------------------------------------------------------------
(* Applications and decisions *)

BeginApply(o, c) ==
  /\ client[c].profile = "approved" /\ ClientFree(c)
  /\ NextCycle(c) >= 2 => NextCycle(c) \in surveys[c]
  /\ Begin([by |-> o, kind |-> "apply", client |-> c, cycle |-> NextCycle(c)])
  /\ UNCHANGED <<client, loan, surveys, edit, granted>>

Apply(j, l) ==
  /\ j.kind = "apply" /\ loan[l].status = "none"
  /\ loan' = [loan EXCEPT ![l].status = "pending", ![l].client = j.client, ![l].cycle = j.cycle]
  /\ End(j) /\ UNCHANGED <<client, surveys, edit, granted>>

(* The approver gate of this DCP, and the limit of a role that has one. *)
MayDecide(u) == RoleOf[u] \in Enabled \cup {"super_admin"}
Covers(u, l) == RoleOf[u] \in DOMAIN Limit => Principal[l] <= Limit[RoleOf[u]]

BeginDecide(s, u, l) ==
  /\ loan[l].status \in Undecided /\ MayDecide(u)
  /\ Begin([by |-> s, kind |-> "decide", loan |-> l, user |-> u])
  /\ UNCHANGED <<client, loan, surveys, edit, granted>>

Approve(j) ==
  /\ j.kind = "decide" /\ LoanFree(j.loan)
  /\ Covers(j.user, j.loan)
  /\ loan' = [loan EXCEPT ![j.loan].status = "approved"]
  /\ granted' = [granted EXCEPT ![j.loan] = @ \cup {j.user}]
  /\ End(j) /\ UNCHANGED <<client, surveys, edit>>

Reject(j) ==
  /\ j.kind = "decide" /\ LoanFree(j.loan)
  /\ loan' = [loan EXCEPT ![j.loan].status = "rejected"]
  /\ End(j) /\ UNCHANGED <<client, surveys, edit, granted>>

(* Asked for, or because the amount is above the limit of the user.  The    *)
(* level it goes to is shown to those who look for work, and gates nothing. *)
Escalate(j) ==
  /\ j.kind = "decide" /\ LoanFree(j.loan)
  /\ End(j) /\ UNCHANGED <<client, loan, surveys, edit, granted>>

---------------------------------------------------------------------------
(* The life of a loan *)

ValidTransitions ==
  [pending      |-> {"underwriting", "rejected"},
   underwriting |-> {"approved", "rejected"},
   approved     |-> {"active"},
   active       |-> {"paid", "overdue", "defaulted"},
   overdue      |-> {"paid", "defaulted", "active"}]

(* Seeded fault: transition_loan approves loans. *)
ElsewhereFault == {"active", "paid"}

(* The targets transition_loan refuses or, like "paid", handles elsewhere. *)
Elsewhere == {"approved", "active", "paid"}

(* transition_loan, under the loan's lock; the sweeps of the scheduler take *)
(* loans to overdue and defaulted in the same way (see Ledger).             *)
Transition(l, status) ==
  /\ loan[l].status \in DOMAIN ValidTransitions /\ LoanFree(l)
  /\ status \in ValidTransitions[loan[l].status] \ Elsewhere
  /\ loan' = [loan EXCEPT ![l].status = status]
  /\ UNCHANGED <<client, surveys, edit, jobs, granted>>

(* A payout begins, by a conditional update of the loan (see Payout). *)
Disburse(l) ==
  /\ loan[l].status = "approved" /\ LoanFree(l)
  /\ loan' = [loan EXCEPT ![l].status = "processing"]
  /\ UNCHANGED <<client, surveys, edit, jobs, granted>>

(* Its result has come: the loan runs and its borrower is locked, or it may *)
(* be paid out again.                                                       *)
BeginSettle(s, l) ==
  /\ loan[l].status = "processing"
  /\ Begin([by |-> s, kind |-> "settle", loan |-> l, locked |-> client[loan[l].client].locked])
  /\ UNCHANGED <<client, loan, surveys, edit, granted>>

Activate(j) ==
  /\ j.kind = "settle" /\ LoanFree(j.loan)
  /\ LET c == loan[j.loan].client IN
     /\ ClientFree(c)
     /\ client' = [client EXCEPT ![c].locked = IF j.locked THEN @ ELSE TRUE]
  /\ loan' = [loan EXCEPT ![j.loan].status = "active", ![j.loan].lock = "open"]
  /\ End(j) /\ UNCHANGED <<surveys, edit, granted>>

FailPayout(j) ==
  /\ j.kind = "settle" /\ LoanFree(j.loan)
  /\ loan' = [loan EXCEPT ![j.loan].status = "approved"]
  /\ End(j) /\ UNCHANGED <<client, surveys, edit, granted>>

(* A payment clears the loan, or it owes nothing and staff mark it paid:    *)
(* _release_active_lock.  `last` says that no other loan keeps the lock.    *)
BeginRelease(s, l) ==
  /\ loan[l].status \in Owing /\ LoanFree(l)
  /\ Begin([by |-> s, kind |-> "release", loan |-> l, locked |-> client[loan[l].client].locked,
            last |-> ~OthersRun(l)])
  /\ UNCHANGED <<client, loan, surveys, edit, granted>>

Release(j) ==
  /\ j.kind = "release"
  /\ LET c == loan[j.loan].client IN
     /\ ClientFree(c)
     /\ client' = [client EXCEPT ![c].locked = IF j.last /\ j.locked THEN FALSE ELSE @]
  /\ loan' = [loan EXCEPT ![j.loan].status = "paid", ![j.loan].lock = "closed"]
  /\ End(j) /\ UNCHANGED <<surveys, edit, granted>>

---------------------------------------------------------------------------
(* What one thread of the staff and a cashier begin, or do at once. *)
StaffBegins(s) ==
  /\ Idle(s)
  /\ \/ \E c \in Clients : Onboard(c)
     \/ \E c \in Clients, profile \in Profiles : DecideClient(c, profile)
     \/ \E c \in Clients : BeginEdit(s, c) \/ Survey(c) \/ \E r \in Edits : RequestEdit(r, c)
     \/ \E r \in Edits : BeginReview(s, r)
     \/ \E l \in Loans : \/ \E u \in Users : BeginDecide(s, u, l)
                         \/ \E status \in Status : Transition(l, status)
                         \/ Disburse(l)

CashierBegins(s) == \E l \in Loans : BeginSettle(s, l) \/ BeginRelease(s, l)

Commit(j) ==
  \/ \E identity, alias \in BOOLEAN : SaveEdit(j, identity, alias)
  \/ ApproveEdit(j) \/ RejectEdit(j)
  \/ \E l \in Loans : Apply(j, l)
  \/ Approve(j) \/ Reject(j) \/ Escalate(j)
  \/ Activate(j) \/ FailPayout(j) \/ Release(j)

Next ==
  \/ \E o \in Officers, c \in Clients : BeginApply(o, c)
  \/ \E s \in Staff : StaffBegins(s)
  \/ \E s \in Cashiers : CashierBegins(s)
  \/ \E j \in jobs : Commit(j)

Spec == Init /\ [][Next]_vars

---------------------------------------------------------------------------
(* The types of the rows and of the jobs. *)
TypeOK ==
  /\ client \in [Clients -> Client]
  /\ loan \in [Loans -> Loan]
  /\ surveys \in [Clients -> SUBSET Nat]
  /\ edit \in [Edits -> Edit]
  /\ jobs \subseteq Job
  /\ granted \in [Loans -> SUBSET Users]

(* "Concurrent applications for the same client cannot both read the same  *)
(* loan-cycle number", and no loan after the first goes without the impact *)
(* survey of its own cycle.                                                *)
CyclesDistinct ==
  /\ \A k, l \in Loans : k # l /\ loan[k].client # Nobody /\ loan[k].client = loan[l].client
                           => loan[k].cycle # loan[l].cycle
  /\ \A l \in Loans : loan[l].cycle >= 2 => loan[l].cycle \in surveys[loan[l].client]

(* Every loan that gets money has been approved by somebody whose role this *)
(* DCP lets approve loans and whose limit covers it, whatever else happened *)
(* to the loan and whoever decided at the same time.                        *)
ApprovedByRight ==
  \A l \in Loans : loan[l].status \in Granted =>
    \E u \in granted[l] : MayDecide(u) /\ Covers(u, l)

(* A client with a running loan is locked, and does not stay locked when    *)
(* all loans are repaid; a loan's own lock is open as long as something is  *)
(* owed on it, and closed when it is paid.                                  *)
LockFollowsLoans ==
  /\ \A l \in Loans : /\ loan[l].status \in Owing => loan[l].lock = "open"
                      /\ loan[l].status \in {"none", "paid"} => loan[l].lock # "open"
  /\ \A c \in Clients :
       /\ HasActive(c) => client[c].locked
       /\ client[c].locked => \E l \in Applied(c) : loan[l].lock = "open"

(* "A loan that goes overdue/defaulted stays locked (the obligation is      *)
(* still live)."                                                            *)
OwingStaysLocked ==
  \A l \in Loans : loan[l].status \in Owing => client[loan[l].client].locked

(* A client with a running loan whom no direct edit has found without one.  *)
Closed(c) ==
  HasActive(c) /\ \A j \in jobs : j.kind = "edit" /\ j.client = c => j.frozen

(* "Frozen for EVERYONE": from there on the borrower's identity changes     *)
(* only by a request about this borrower that a reviewer approves, and no   *)
(* edit gets past the lock, until no loan runs.                             *)
IdentityFrozen ==
  [][\A c \in Clients : Closed(c) =>
       /\ HasActive(c)' => Closed(c)'
       /\ client'[c].identity # client[c].identity =>
            \E j \in jobs : /\ j.kind = "review" /\ edit[j.edit].client = c
                            /\ edit'[j.edit].status = "approved"
                            /\ client'[c].identity = j.edit]_vars

(* A request that was decided, with every reviewer who had found it pending *)
(* gone (two who overlap may yet disagree: README 6).                       *)
Reviewed(r) ==
  /\ edit[r].status \in {"approved", "rejected"}
  /\ \A j \in jobs : j.kind = "review" => j.edit # r

(* What was decided about a change stays decided: a request that was        *)
(* rejected is never applied, one that was approved is not applied again.   *)
ReviewedForGood ==
  [][\A r \in Edits : Reviewed(r) =>
       /\ Reviewed(r)' /\ edit'[r] = edit[r]
       /\ \A c \in Clients : client'[c].identity = r => client[c].identity = r]_vars

(* A loan that was granted or rejected, with every approver who had found   *)
(* it undecided gone, and with no payout or repayment of it on its way if   *)
(* it was rejected (those that overlap may yet write over it: README 6).    *)
Decided(l) ==
  /\ loan[l].status \in Granted \cup {"rejected"}
  /\ \A j \in jobs : j.kind \in {"decide", "settle", "release"} /\ j.loan = l =>
                      j.kind # "decide" /\ loan[l].status # "rejected"

(* What was decided about a loan stays decided: a rejected loan is never    *)
(* revived, and one that was granted is never rejected or undecided again.  *)
DecidedForGood ==
  [][\A l \in Loans : Decided(l) =>
       Decided(l)' /\ (loan'[l].status = "rejected" <=> loan[l].status = "rejected")]_vars

---------------------------------------------------------------------------
(* The inductive invariants of LendingProofs. *)

(* Payout results and repayments are settled one at a time. *)
Serial == \A s, t \in Cashiers : s = t

JobsApart ==
  /\ \A j, k \in jobs : j.by = k.by => j = k
  /\ \A j, k \in jobs : j.kind = "apply" /\ k.kind = "apply" /\ j.client = k.client => j = k

LoanState ==
  /\ \A l \in Loans : loan[l].status = "none" <=> loan[l].client = Nobody
  /\ \A l \in Loans : loan[l].client = Nobody => loan[l].cycle = 0
  /\ \A j \in jobs : j.kind \in {"decide", "settle", "release"} => loan[j.loan].status # "none"

(* Nobody else applies for a client between the count and the commit. *)
CycleState ==
  /\ \A l \in Loans : loan[l].client # Nobody =>
       loan[l].cycle >= 1 /\ loan[l].cycle < NextCycle(loan[l].client)
  /\ \A j \in jobs : j.kind = "apply" =>
       /\ j.cycle = NextCycle(j.client)
       /\ j.cycle >= 2 => j.cycle \in surveys[j.client]

CycleInv == TypeOK /\ JobsApart /\ LoanState /\ CycleState /\ CyclesDistinct

(* Whoever is deciding may; what is being paid out was granted, and so was  *)
(* what is being repaid, which a release keeps under its lock.              *)
RightState ==
  \A j \in jobs :
    /\ j.kind = "decide" => MayDecide(j.user)
    /\ j.kind \in {"settle", "release"} =>
         \E u \in granted[j.loan] : MayDecide(u) /\ Covers(u, j.loan)

ReviewState ==
  \A j \in jobs : j.kind = "review" => edit[j.edit].status # "none"

LendingInv == CycleInv /\ RightState /\ ApprovedByRight /\ ReviewState

(* With one cashier: what it has read of the borrower's lock is what the    *)
(* row holds, and another loan that kept the lock still keeps it.           *)
LockState ==
  \A j \in jobs :
    /\ j.kind \in {"settle", "release"} => j.locked = client[loan[j.loan].client].locked
    /\ j.kind = "release" =>
         /\ loan[j.loan].status \in Owing
         /\ IF j.last THEN ~OthersRun(j.loan)
            ELSE \E k \in Applied(loan[j.loan].client) \ {j.loan} : loan[k].lock = "open"

LockInv == LendingInv /\ LockState /\ LockFollowsLoans
=============================================================================
