------------------------------ MODULE Filing ------------------------------
(***************************************************************************)
(* The filing of one reporting month with the CBK (services/cbk_gdi.py):   *)
(* five datasets in their sequence, each with a row in                     *)
(* cbk_submission_logs, by the daily job of services/scheduler.py in the   *)
(* days the regulator allows, or by staff through routers/cbk.py.          *)
(*                                                                         *)
(* The rows of a dataset are what the tables hold when it is extracted;    *)
(* between two datasets lies a call to the CBK, and business goes on.      *)
(***************************************************************************)
EXTENDS Naturals, Sequences, FiniteSets

CONSTANTS Tenants,      \* the DCPs with the reporting module
          Staff,        \* who files by hand
          Job,          \* the daily job
          Window,       \* the days it acts on: weekdays from the 5th to the 10th
          LastDay,      \* bound: the days go 0..LastDay
          Books,        \* bound: what the DCPs' tables hold at the start
          MaxEvents,    \* bound: filings by hand, failures and changes of the tables
          ByHand,       \* bound: the DCPs that file by hand
          Nil,          \* bound: and the datasets they file as nil
          Nobody

DATASET_SEQUENCE == <<"customer", "loan", "repayment", "overdue", "complaint">>
Datasets == {DATASET_SEQUENCE[i] : i \in DOMAIN DATASET_SEQUENCE}
Runners == Staff \cup {Job}

\* One client, one loan, one repayment, one complaint of each DCP, dated up
\* to the end of the month, in it, or after it.
Book == [client : {"none", "by_end", "after"}, disbursed : {"none", "by_end", "after"},
         due : {"by_end", "after"}, status : {"active", "overdue", "defaulted", "paid"},
         repaid : {"none", "month", "other"}, complained : {"none", "month", "other"}]

\* A loan has a client, is disbursed after that and due after that; what is
\* overdue was due.
Orderly(b) ==
  /\ b.disbursed = "none" => b.status = "active" /\ b.repaid = "none"
  /\ b.disbursed # "none" => b.client # "none"
  /\ b.disbursed = "by_end" => b.client = "by_end"
  /\ b.disbursed = "after" => b.due = "after"
  /\ b.disbursed # "by_end" => b.status \in {"active", "paid"}

ASSUME FilingAssumption ==
  /\ Job \notin Staff /\ Nobody \notin Tenants
  /\ LastDay \in Nat /\ Window \subseteq 0..LastDay /\ MaxEvents \in Nat
  /\ ByHand \subseteq Tenants /\ Nil \subseteq Datasets /\ Books \subseteq [Tenants -> {b \in Book : Orderly(b)}]

VARIABLES
  day, fired,   \* the day, and whether the job's hour has passed on it
  book,         \* of each DCP: its tables
  log,          \* of each DCP and who files: the month's cbk_submission_logs
  work,         \* what each runner is at
  down,         \* the DCPs that a run broke off for; all, once the server was down
  events        \* how many of those there were

vars == <<day, fired, book, log, work, down, events>>

\* `run` numbers the runs of a runner, `taken` is history: whether the CBK has the rows.
Row == [run : Nat, dataset : Datasets, rows : BOOLEAN,
        status : {"pending", "submitted", "error"}, taken : BOOLEAN]

\* `at` is the place in the sequence, `row` the log's row, `todo` the DCPs left.
Idle == [step |-> "idle", tenant |-> Nobody, run |-> 0, at |-> 0, row |-> 0, todo |-> {}]

Init ==
  /\ day = 0 /\ fired = FALSE
  /\ book \in Books
  /\ log = [t \in Tenants |-> [r \in Runners |-> <<>>]]
  /\ work = [r \in Runners |-> Idle]
  /\ down = {} /\ events = 0

Event == events < MaxEvents /\ events' = events + 1
----------------------------------------------------------------------------
(* Business goes on, in the days after the month. Bound: only a change     *)
(* during a call for the DCP counts, another one is as good as before it.  *)

\* The loan is paid, falls overdue or is defaulted.
LoanMoves(t) ==
  /\ \/ book[t].status = "active" /\ book[t].disbursed = "by_end"
        /\ book' = [book EXCEPT ![t].status = "overdue"]
     \/ book[t].status = "overdue" /\ book' = [book EXCEPT ![t].status = "defaulted"]
     \/ book[t].disbursed # "none" /\ book' = [book EXCEPT ![t].status = "paid"]

\* A client, then a loan; a payment received in the month is booked on its day.
NewClient(t) == book[t].client = "none" /\ book' = [book EXCEPT ![t].client = "after"]

NewLoan(t) ==
  /\ book[t].client # "none" /\ book[t].disbursed = "none"
  /\ book' = [book EXCEPT ![t].disbursed = "after", ![t].due = "after"]

Repay(t, when) ==
  /\ book[t].disbursed # "none" /\ book[t].repaid = "none"
  /\ book' = [book EXCEPT ![t].repaid = when]

Complain(t) == book[t].complained = "none" /\ book' = [book EXCEPT ![t].complained = "other"]

Business(t) ==
  /\ \E r \in Runners : work[r].step = "submit" /\ work[r].tenant = t
  /\ Event
  /\ \/ LoanMoves(t) \/ NewClient(t) \/ NewLoan(t) \/ Complain(t)
     \/ \E when \in {"month", "other"} : Repay(t, when)
  /\ UNCHANGED <<day, fired, log, work, down>>
----------------------------------------------------------------------------
(* The datasets: whether there are rows of the month.                      *)

extract_customer_data(b) == b.client = "by_end"

LoanAccountsFault(b) == b.disbursed = "by_end" /\ b.status = "active"   \* a fault

extract_loan_accounts(b) == b.disbursed = "by_end"
extract_repayments(b) == b.repaid = "month"
extract_overdue(b) == b.status \in {"overdue", "defaulted"} /\ b.due = "by_end"
extract_complaints(b) == b.complained = "month"

EXTRACTORS(dataset, b) ==
  CASE dataset = "customer"  -> extract_customer_data(b)
    [] dataset = "loan"      -> extract_loan_accounts(b)
    [] dataset = "repayment" -> extract_repayments(b)
    [] dataset = "overdue"   -> extract_overdue(b)
    [] dataset = "complaint" -> extract_complaints(b)
----------------------------------------------------------------------------
(* One run over the sequence.                                              *)

Begun(r, t, todo) ==
  [step |-> "extract", tenant |-> t, run |-> Len(log[t][r]) + 1, at |-> 1, row |-> 0, todo |-> todo]

\* After a run: the job goes on to the next DCP, a request is over.
Over(r) == IF r = Job THEN [Idle EXCEPT !.step = "choose", !.todo = work[r].todo] ELSE Idle

Onward(r) ==
  IF work[r].at = Len(DATASET_SEQUENCE) THEN Over(r)
  ELSE [work[r] EXCEPT !.step = "extract", !.at = @ + 1]

Logged(t, r, run, dataset, rows, status) ==
  log' = [log EXCEPT ![t][r] = Append(@, [run |-> run, dataset |-> dataset, rows |-> rows,
                                          status |-> status, taken |-> FALSE])]

\* The rows are read and the log's row is committed as pending.
Extract(r) ==
  LET dataset == DATASET_SEQUENCE[work[r].at]
      t == work[r].tenant
  IN /\ work[r].step = "extract"
     /\ Logged(t, r, work[r].run, dataset, EXTRACTORS(dataset, book[t]), "pending")
     /\ work' = [work EXCEPT ![r].step = "submit", ![r].row = Len(log[t][r]) + 1]
     /\ UNCHANGED <<day, fired, book, down, events>>

\* A dataset that cannot be put together is an error of its own: the next follows.
ExtractFails(r) ==
  /\ work[r].step = "extract" /\ Event
  /\ Logged(work[r].tenant, r, work[r].run, DATASET_SEQUENCE[work[r].at], FALSE, "error")
  /\ work' = [work EXCEPT ![r] = Onward(r)]
  /\ UNCHANGED <<day, fired, book, down>>

\* An error of the database: the session is not rolled back, so the row cannot be
\* written either. The request is over, the job takes the next DCP.
ExtractBreaks(r) ==
  /\ work[r].step = "extract" /\ Event
  /\ work' = [work EXCEPT ![r] = Over(r)]
  /\ down' = down \cup {work[r].tenant}
  /\ UNCHANGED <<day, fired, book, log>>

Settled(r, status, taken) ==
  log' = [log EXCEPT ![work[r].tenant][r][work[r].row] = [@ EXCEPT !.status = status, !.taken = taken]]

\* _post: a token refused is renewed, once, and nothing was taken by then.
Answered(r) ==
  /\ work[r].step = "submit"
  /\ Settled(r, "submitted", TRUE)
  /\ work' = [work EXCEPT ![r] = Onward(r)]
  /\ UNCHANGED <<day, fired, book, down, events>>

\* An answer that is not 2xx: an error, and the next dataset follows.
Refused(r) ==
  /\ work[r].step = "submit" /\ Event
  /\ Settled(r, "error", FALSE)
  /\ work' = [work EXCEPT ![r] = Onward(r)]
  /\ UNCHANGED <<day, fired, book, down>>

LostFault(r, taken) == Settled(r, "submitted", taken)   \* a fault: no answer is taken for one

Lost(r, taken) == Settled(r, "error", taken)

\* The sequence stops.
Stopped(r, taken) ==
  /\ work[r].step = "submit" /\ Event
  /\ Lost(r, taken)
  /\ work' = [work EXCEPT ![r] = Over(r)]
  /\ UNCHANGED <<day, fired, book, down>>

\* get_token: nothing is configured, or no token is to be had.
NoToken(r) == Stopped(r, FALSE)

\* _post: no connection, or no answer to what the CBK may have taken.
NoAnswer(r) == \E taken \in BOOLEAN : Stopped(r, taken)

\* Any other exception: the row stays pending, the job takes the next DCP.
Raised(r, taken) ==
  /\ work[r].step = "submit" /\ Event
  /\ Settled(r, "pending", taken)
  /\ work' = [work EXCEPT ![r] = Over(r)]
  /\ down' = down \cup {work[r].tenant}
  /\ UNCHANGED <<day, fired, book>>
----------------------------------------------------------------------------
(* The job.                                                                *)

RowsOf(t) == UNION {{log[t][r][i] : i \in DOMAIN log[t][r]} : r \in Runners}

FiledFault(t) ==   \* a fault: what failed is filed again, with what did not
  \E x \in RowsOf(t) : x.dataset = "complaint" /\ x.status = "submitted"

AnyFiled(t) == \E u \in Tenants : RowsOf(u) # {}   \* a fault: another DCP's rows count

\* Any row of the month will do.
Filed(t) == RowsOf(t) # {}

Fire ==
  /\ ~fired /\ fired' = TRUE
  /\ work[Job] = Idle
  /\ work' = IF day \in Window THEN [work EXCEPT ![Job].step = "choose", ![Job].todo = Tenants]
             ELSE work
  /\ UNCHANGED <<day, book, log, down, events>>

Choose(t) ==
  LET left == work[Job].todo \ {t}
  IN /\ work[Job].step = "choose" /\ t \in work[Job].todo
     /\ work' = [work EXCEPT ![Job] = IF Filed(t) THEN [work[Job] EXCEPT !.todo = left] ELSE Begun(Job, t, left)]
     /\ UNCHANGED <<day, fired, book, log, down, events>>

JobEnds ==
  /\ work[Job].step = "choose" /\ work[Job].todo = {}
  /\ work' = [work EXCEPT ![Job] = Idle]
  /\ UNCHANGED <<day, fired, book, log, down, events>>

NextDay ==
  /\ fired /\ work[Job] = Idle /\ day < LastDay
  /\ day' = day + 1 /\ fired' = FALSE
  /\ UNCHANGED <<book, log, work, down, events>>
----------------------------------------------------------------------------
(* By hand.                                                                *)

Request(s) == work[s] = Idle /\ Event

\* gdi_submit answers at once and the run goes on in the background.
GdiSubmit(s, t) ==
  /\ Request(s)
  /\ work' = [work EXCEPT ![s] = Begun(s, t, {})]
  /\ UNCHANGED <<day, fired, book, log, down>>

\* gdi_nil_submission: one dataset, of no rows, in one request.
GdiNil(s, t, dataset) ==
  /\ Request(s)
  /\ Logged(t, s, Len(log[t][s]) + 1, dataset, FALSE, "pending")
  /\ work' = [work EXCEPT ![s] = [Begun(s, t, {}) EXCEPT !.step = "submit", !.at = Len(DATASET_SEQUENCE),
                                                         !.row = Len(log[t][s]) + 1]]
  /\ UNCHANGED <<day, fired, book, down>>

\* The rows that are pending stay so; the job's hour may pass meanwhile.
Restart ==
  /\ Event
  /\ work' = [r \in Runners |-> Idle] /\ down' = Tenants
  /\ fired' \in {fired, TRUE}
  /\ UNCHANGED <<day, book, log>>

Step(r) ==
  \/ Extract(r) \/ ExtractFails(r) \/ ExtractBreaks(r) \/ Answered(r) \/ Refused(r)
  \/ NoToken(r) \/ NoAnswer(r) \/ \E taken \in BOOLEAN : Raised(r, taken)

Job_Step == Fire \/ JobEnds \/ (\E t \in Tenants : Choose(t)) \/ Step(Job)

Next ==
  \/ Job_Step \/ NextDay \/ Restart
  \/ \E t \in Tenants : Business(t)
  \/ \E s \in Staff : \/ Step(s)
                      \/ \E t \in ByHand : GdiSubmit(s, t)
                      \/ \E t \in ByHand, dataset \in Nil : GdiNil(s, t, dataset)

\* The scheduler runs its job, a request its steps, and the days pass.
Fairness == WF_vars(Job_Step) /\ WF_vars(NextDay) /\ \A s \in Staff : WF_vars(Step(s))
Spec == Init /\ [][Next]_vars /\ Fairness
----------------------------------------------------------------------------
TypeOK ==
  /\ day \in 0..LastDay /\ fired \in BOOLEAN /\ down \subseteq Tenants /\ events \in 0..MaxEvents
  /\ book \in [Tenants -> {b \in Book : Orderly(b)}]
  /\ log \in [Tenants -> [Runners -> Seq(Row)]]
  /\ work \in [Runners -> [step : {"idle", "choose", "extract", "submit"},
                           tenant : Tenants \cup {Nobody}, run : Nat,
                           at : 0..Len(DATASET_SEQUENCE), row : Nat, todo : SUBSET Tenants]]

(* The log can be trusted: a dataset shown as submitted is with the CBK,   *)
(* and one that is pending is under way, unless a run broke off for its    *)
(* DCP (run_monthly_submission).                                           *)
LogTells ==
  \A t \in Tenants, r \in Runners : \A i \in DOMAIN log[t][r] :
    LET x == log[t][r][i]
    IN /\ x.status = "submitted" => x.taken
       /\ x.status = "pending" =>
            t \in down \/ (work[r].step = "submit" /\ work[r].tenant = t /\ work[r].row = i)

(* What the job itself gives the CBK of a month it gives in the sequence   *)
(* of the datasets, and no dataset twice, over all its days, whatever      *)
(* failed, answered late or was restarted (run_cbk_monthly_gdi_submit).    *)
JobFilesOnce ==
  \A t \in Tenants : \A i, j \in DOMAIN log[t][Job] :
    LET x == log[t][Job][i]
        y == log[t][Job][j]
    IN i < j /\ x.taken /\ y.taken =>
         \E k, m \in DOMAIN DATASET_SEQUENCE :
           k < m /\ x.dataset = DATASET_SEQUENCE[k] /\ y.dataset = DATASET_SEQUENCE[m]

(* What the datasets of a run show fits together although each is read at  *)
(* its own time: overdue loans are among the loans, and loans have their   *)
(* customer (the extractors).  Of a dataset in error nothing is said: the  *)
(* run goes on when it was refused, so the CBK may have loans without the  *)
(* customers.                                                              *)
ReferencesResolve ==
  \A t \in Tenants, r \in Runners : \A i, j \in DOMAIN log[t][r] :
    LET x == log[t][r][i]
        y == log[t][r][j]
    IN x.run = y.run /\ y.rows /\ x.status # "error" =>
         /\ x.dataset = "customer" => y.dataset # "loan" \/ x.rows
         /\ x.dataset = "loan" => y.dataset # "overdue" \/ x.rows

Complete(t) == \A dataset \in Datasets :
  \E x \in RowsOf(t) : x.dataset = dataset /\ x.status = "submitted"

\* Something of this DCP's month failed, or was filed by hand.
Disturbed(t) == \/ \E x \in RowsOf(t) : x.status = "error"
                \/ \E s \in Staff : log[t][s] # <<>>

(* Every DCP's month is filed within the days of the window, unless one of *)
(* its own datasets failed, its own run broke off, somebody filed for it   *)
(* by hand, or the server was down: another DCP's failures do not matter   *)
(* (run_cbk_monthly_gdi_submit).                                           *)
EndsFiled == Window # {} => \A t \in Tenants : <>(Complete(t) \/ Disturbed(t) \/ t \in down)

(* The docstring at scheduler.py:305: for each DCP that has not yet        *)
(* submitted last month's datasets the job runs the full submission.       *)
MonthFiled == \A t \in Tenants : <>Complete(t)
=============================================================================
