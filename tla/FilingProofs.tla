--------------------------- MODULE FilingProofs ---------------------------
(***************************************************************************)
(* Theorems about Filing, for any DCPs, staff, window, tables, filings by  *)
(* hand and number of failures.  Kept relates the log to what each runner  *)
(* is at and to the tables, and is inductive.  At the end, theorems about  *)
(* the figures that go into the reports (Portfolio).                       *)
(***************************************************************************)
EXTENDS Filing, Portfolio, SequenceTheorems, FiniteSetTheorems, TLAPS

Filer(r) == work[r].step \in {"extract", "submit"}
Mine(r) == log[work[r].tenant][r]   \* the log a runner writes to

(* A runner is at a run of its log; the row it waits for is the last one,  *)
(* and pending.                                                            *)
Seated(r) ==
  Filer(r) => /\ work[r].tenant \in Tenants /\ work[r].at \in 1..5
              /\ work[r].run <= Len(Mine(r)) + 1
Awaits(r) ==
  work[r].step = "submit" =>
    /\ work[r].row = Len(Mine(r)) /\ work[r].row # 0
    /\ Mine(r)[work[r].row].status = "pending"

InHand == \A r \in Runners : Seated(r) /\ Awaits(r)

(* A run that begins has a number of its own. *)
RunsNumbered ==
  \A t \in Tenants, r \in Runners : \A i \in DOMAIN log[t][r] : log[t][r][i].run <= Len(log[t][r])

(* The job's rows of a month are one run, in the sequence of the datasets. *)
JobInOrder ==
  /\ \A t \in Tenants : \A i \in DOMAIN log[t][Job] : i \in 1..5 /\ log[t][Job][i].dataset = DATASET_SEQUENCE[i]
  /\ work[Job].step = "extract" => Len(Mine(Job)) + 1 = work[Job].at
  /\ work[Job].step = "submit" => Len(Mine(Job)) = work[Job].at

(* What was read has the rows that the tables have still: nothing that is  *)
(* done after the month makes a client or a loan of the month.             *)
Honest(t, x) ==
  x.status # "error" =>
    /\ x.dataset = "customer" /\ book[t].client = "by_end" => x.rows
    /\ x.dataset = "loan" /\ book[t].disbursed = "by_end" => x.rows

(* The rows of a run that goes on are honest ... *)
RunHonest ==
  \A r \in Runners :
    work[r].step = "extract" \/ (work[r].step = "submit" /\ work[r].at # 5) =>
      \A i \in DOMAIN Mine(r) : Mine(r)[i].run = work[r].run => Honest(work[r].tenant, Mine(r)[i])

(* ... and so are those of a run of several rows: a nil filing has one. *)
RowsHonest ==
  \A t \in Tenants, r \in Runners : \A i, j \in DOMAIN log[t][r] :
    i # j /\ log[t][r][i].run = log[t][r][j].run => Honest(t, log[t][r][i])

(* Loans and overdue loans are reported of a month that has a loan. *)
RowsTrue ==
  \A t \in Tenants, r \in Runners : \A i \in DOMAIN log[t][r] :
    log[t][r][i].rows /\ log[t][r][i].dataset \in {"loan", "overdue"} => book[t].disbursed = "by_end"

Kept ==
  /\ TypeOK /\ InHand /\ RunsNumbered /\ JobInOrder
  /\ RunHonest /\ RowsHonest /\ RowsTrue /\ LogTells
---------------------------------------------------------------------------
LEMMA TheSequence ==
  /\ Len(DATASET_SEQUENCE) = 5 /\ DOMAIN DATASET_SEQUENCE = 1..5
  /\ \A i \in 1..5 : DATASET_SEQUENCE[i] \in Datasets
  /\ \A i, j \in 1..5 : DATASET_SEQUENCE[i] = DATASET_SEQUENCE[j] => i = j
<1>1. Len(DATASET_SEQUENCE) = 5 /\ DOMAIN DATASET_SEQUENCE = 1..5
  BY DEF DATASET_SEQUENCE
<1>2. \A i \in 1..5 : DATASET_SEQUENCE[i] \in Datasets
  BY <1>1 DEF Datasets
<1>3. \A i, j \in 1..5 : DATASET_SEQUENCE[i] = DATASET_SEQUENCE[j] => i = j
  <2>1. 1..5 = {1, 2, 3, 4, 5} OBVIOUS
  <2>2. /\ DATASET_SEQUENCE[1] = "customer" /\ DATASET_SEQUENCE[2] = "loan"
        /\ DATASET_SEQUENCE[3] = "repayment" /\ DATASET_SEQUENCE[4] = "overdue"
        /\ DATASET_SEQUENCE[5] = "complaint"
    BY DEF DATASET_SEQUENCE
  <2> QED BY <2>1, <2>2
<1> QED BY <1>1, <1>2, <1>3

Logs == [Tenants -> [Runners -> Seq(Row)]]

(* A log that gets a row at its end. *)
Grown(t, r, x) == log' = [log EXCEPT ![t][r] = Append(@, x)]

LEMMA GrownLog ==
  ASSUME log \in Logs, NEW t \in Tenants, NEW r \in Runners, NEW x \in Row, Grown(t, r, x)
  PROVE  /\ log' \in Logs
         /\ \A u \in Tenants, q \in Runners : u # t \/ q # r => log'[u][q] = log[u][q]
         /\ Len(log'[t][r]) = Len(log[t][r]) + 1
         /\ DOMAIN log'[t][r] = DOMAIN log[t][r] \cup {Len(log[t][r]) + 1}
         /\ \A i \in DOMAIN log[t][r] : log'[t][r][i] = log[t][r][i]
         /\ log'[t][r][Len(log[t][r]) + 1] = x
<1> DEFINE old == log[t][r]
           new == Append(old, x)
<1>1. old \in Seq(Row) BY DEF Logs
<1>2. log' = [log EXCEPT ![t] = [log[t] EXCEPT ![r] = new]] BY DEF Grown
<1>3. /\ new \in Seq(Row) /\ Len(new) = Len(old) + 1
      /\ \A i \in 1..Len(old) : new[i] = old[i]
      /\ new[Len(old) + 1] = x
  BY <1>1
<1>4. log'[t][r] = new BY <1>2 DEF Logs
<1>5. log' \in Logs
  <2> HIDE DEF new, old
  <2> QED BY <1>2, <1>3 DEF Logs
<1>6. \A u \in Tenants, q \in Runners : u # t \/ q # r => log'[u][q] = log[u][q]
  BY <1>2 DEF Logs
<1>7. DOMAIN new = DOMAIN old \cup {Len(old) + 1} /\ DOMAIN old = 1..Len(old)
  <2>1. DOMAIN new = 1..Len(new) /\ DOMAIN old = 1..Len(old) /\ Len(old) \in Nat
    BY <1>1, <1>3, LenProperties
  <2> QED BY <2>1, <1>3
<1> QED BY <1>3, <1>4, <1>5, <1>6, <1>7

(* A log of which one row is settled. *)
LEMMA SettledLog ==
  ASSUME log \in Logs, NEW r \in Runners, work[r].tenant \in Tenants,
         work[r].row \in DOMAIN Mine(r),
         NEW status \in {"pending", "submitted", "error"}, NEW taken \in BOOLEAN,
         Settled(r, status, taken)
  PROVE  /\ log' \in Logs
         /\ \A u \in Tenants, q \in Runners :
              u # work[r].tenant \/ q # r => log'[u][q] = log[u][q]
         /\ Len(log'[work[r].tenant][r]) = Len(Mine(r))
         /\ DOMAIN log'[work[r].tenant][r] = DOMAIN Mine(r)
         /\ \A i \in DOMAIN Mine(r) : i # work[r].row => log'[work[r].tenant][r][i] = Mine(r)[i]
         /\ log'[work[r].tenant][r][work[r].row].run = Mine(r)[work[r].row].run
         /\ log'[work[r].tenant][r][work[r].row].dataset = Mine(r)[work[r].row].dataset
         /\ log'[work[r].tenant][r][work[r].row].rows = Mine(r)[work[r].row].rows
         /\ log'[work[r].tenant][r][work[r].row].status = status
         /\ log'[work[r].tenant][r][work[r].row].taken = taken
<1> DEFINE t == work[r].tenant
           k == work[r].row
           old == log[t][r]
           x == [old[k] EXCEPT !.status = status, !.taken = taken]
           new == [old EXCEPT ![k] = x]
<1>1. old \in Seq(Row) /\ k \in DOMAIN old /\ old = Mine(r) BY DEF Logs, Mine
<1>2. old[k] \in Row BY <1>1
<1>3. /\ x \in Row /\ x.run = old[k].run /\ x.dataset = old[k].dataset /\ x.rows = old[k].rows
      /\ x.status = status /\ x.taken = taken
  BY <1>2 DEF Row
<1>4. log' = [log EXCEPT ![t] = [log[t] EXCEPT ![r] = new]]
  BY DEF Settled
<1> HIDE DEF x
<1>5. new \in Seq(Row) /\ Len(new) = Len(old) /\ DOMAIN new = DOMAIN old
      /\ new[k] = x /\ \A i \in DOMAIN old : i # k => new[i] = old[i]
  BY <1>1, <1>3
<1>6. log'[t][r] = new BY <1>4 DEF Logs
<1>7. log' \in Logs
  <2> HIDE DEF new, old
  <2> QED BY <1>4, <1>5 DEF Logs
<1>8. \A u \in Tenants, q \in Runners : u # t \/ q # r => log'[u][q] = log[u][q]
  BY <1>4 DEF Logs
<1> QED BY <1>1, <1>3, <1>5, <1>6, <1>7, <1>8
---------------------------------------------------------------------------
LEMMA NewBook ==
  ASSUME TypeOK, NEW t \in Tenants, Business(t)
  PROVE  /\ book' \in [Tenants -> {b \in Book : Orderly(b)}]
         /\ \A u \in Tenants : /\ (book'[u].client = "by_end") = (book[u].client = "by_end")
                               /\ (book'[u].disbursed = "by_end") = (book[u].disbursed = "by_end")
<1> DEFINE b == book[t]
<1>1. b \in Book /\ Orderly(b) BY DEF TypeOK
<1>2. book \in [Tenants -> {c \in Book : Orderly(c)}] BY DEF TypeOK
<1>3. SUFFICES \E c \in Book : /\ Orderly(c) /\ book' = [book EXCEPT ![t] = c]
                               /\ (c.client = "by_end") = (b.client = "by_end")
                               /\ (c.disbursed = "by_end") = (b.disbursed = "by_end")
  BY <1>2
<1>4. CASE LoanMoves(t)
  <2>1. PICK to \in {"overdue", "defaulted", "paid"} :
          /\ book' = [book EXCEPT ![t] = [b EXCEPT !.status = to]]
          /\ b.disbursed # "none"
          /\ to = "paid" \/ b.disbursed = "by_end"
    BY <1>1, <1>2, <1>4 DEF LoanMoves, Orderly, Book
  <2>2. [b EXCEPT !.status = to] \in Book /\ Orderly([b EXCEPT !.status = to])
    BY <1>1, <2>1 DEF Orderly, Book
  <2> QED BY <1>1, <2>1, <2>2 DEF Book
<1>5. CASE NewClient(t)
  <2>1. [b EXCEPT !.client = "after"] \in Book /\ Orderly([b EXCEPT !.client = "after"])
    BY <1>1, <1>5 DEF NewClient, Orderly, Book
  <2> QED BY <1>1, <1>2, <1>5, <2>1 DEF NewClient, Book
<1>6. CASE NewLoan(t)
  <2> DEFINE c == [b EXCEPT !.disbursed = "after", !.due = "after"]
  <2>1. c \in Book /\ Orderly(c) /\ c.client = b.client /\ c.disbursed = "after"
    BY <1>1, <1>6 DEF NewLoan, Orderly, Book
  <2>2. book' = [book EXCEPT ![t] = c] BY <1>2, <1>6 DEF NewLoan
  <2> QED BY <1>6, <2>1, <2>2 DEF NewLoan
<1>7. ASSUME NEW when \in {"month", "other"}, Repay(t, when)
      PROVE  \E c \in Book : /\ Orderly(c) /\ book' = [book EXCEPT ![t] = c]
                             /\ (c.client = "by_end") = (b.client = "by_end")
                             /\ (c.disbursed = "by_end") = (b.disbursed = "by_end")
  <2>1. [b EXCEPT !.repaid = when] \in Book /\ Orderly([b EXCEPT !.repaid = when])
    BY <1>1, <1>7 DEF Repay, Orderly, Book
  <2> QED BY <1>1, <1>2, <1>7, <2>1 DEF Repay, Book
<1>8. CASE Complain(t)
  <2>1. [b EXCEPT !.complained = "other"] \in Book /\ Orderly([b EXCEPT !.complained = "other"])
    BY <1>1, <1>8 DEF Complain, Orderly, Book
  <2> QED BY <1>1, <1>2, <1>8, <2>1 DEF Complain, Book
<1> QED BY <1>4, <1>5, <1>6, <1>7, <1>8 DEF Business

Work == [step : {"idle", "choose", "extract", "submit"}, tenant : Tenants \cup {Nobody}, run : Nat,
         at : 0..Len(DATASET_SEQUENCE), row : Nat, todo : SUBSET Tenants]

LEMMA WorkTypes ==
  ASSUME TypeOK, NEW r \in Runners
  PROVE  /\ Idle \in Work /\ Over(r) \in Work /\ work[r] \in Work
         /\ ~(Over(r).step \in {"extract", "submit"}) /\ Idle.step = "idle"
         /\ Over(r).step = IF r = Job THEN "choose" ELSE "idle"
         /\ \A t \in Tenants, todo \in SUBSET Tenants :
              /\ Begun(r, t, todo) \in Work
              /\ Begun(r, t, todo).step = "extract" /\ Begun(r, t, todo).tenant = t
              /\ Begun(r, t, todo).at = 1 /\ Begun(r, t, todo).run = Len(log[t][r]) + 1
<1>1. work[r] \in Work BY DEF TypeOK, Work
<1>2. Idle \in Work BY TheSequence DEF Idle, Work
<1>3. Over(r) \in Work /\ Over(r).step = IF r = Job THEN "choose" ELSE "idle"
  <2>1. CASE r = Job
    <3>1. work[r].todo \in SUBSET Tenants BY <1>1 DEF Work
    <3>2. Over(r) = [Idle EXCEPT !.step = "choose", !.todo = work[r].todo]
      BY <2>1 DEF Over
    <3> QED BY <1>2, <2>1, <3>1, <3>2 DEF Work
  <2>2. CASE r # Job
    <3>1. Over(r) = Idle BY <2>2 DEF Over
    <3>2. Idle.step = "idle" BY DEF Idle
    <3> QED BY <1>2, <2>2, <3>1, <3>2
  <2> QED BY <2>1, <2>2
<1>4. ASSUME NEW t \in Tenants, NEW todo \in SUBSET Tenants
      PROVE  /\ Begun(r, t, todo) \in Work
             /\ Begun(r, t, todo).step = "extract" /\ Begun(r, t, todo).tenant = t
             /\ Begun(r, t, todo).at = 1 /\ Begun(r, t, todo).run = Len(log[t][r]) + 1
  <2>1. Len(log[t][r]) \in Nat BY DEF TypeOK
  <2> QED BY <2>1, TheSequence DEF Begun, Work
<1>5. Idle.step = "idle" BY DEF Idle
<1> QED BY <1>1, <1>2, <1>3, <1>4, <1>5

LEMMA OnwardType ==
  ASSUME TypeOK, NEW r \in Runners, work[r].at \in 1..5
  PROVE  /\ Onward(r) \in Work
         /\ work[r].at = 5 => Onward(r) = Over(r)
         /\ work[r].at # 5 => /\ Onward(r).step = "extract" /\ Onward(r).at = work[r].at + 1
                              /\ Onward(r).tenant = work[r].tenant /\ Onward(r).run = work[r].run
<1>1. CASE work[r].at = 5
  BY <1>1, WorkTypes, TheSequence DEF Onward
<1>2. CASE work[r].at # 5
  <2>1. work[r] \in Work BY WorkTypes
  <2>2. Onward(r) = [work[r] EXCEPT !.step = "extract", !.at = work[r].at + 1]
    BY <1>2, TheSequence DEF Onward
  <2>3. work[r].at + 1 \in 0..Len(DATASET_SEQUENCE) BY <1>2, TheSequence
  <2> QED BY <1>2, <2>1, <2>2, <2>3 DEF Work
<1> QED BY <1>1, <1>2

LEMMA TypeInit == Init => TypeOK
<1> SUFFICES ASSUME Init PROVE TypeOK OBVIOUS
<1>1. Idle \in Work BY TheSequence DEF Idle, Work
<1>2. book \in [Tenants -> {b \in Book : Orderly(b)}] BY FilingAssumption DEF Init
<1>3. log \in [Tenants -> [Runners -> Seq(Row)]]
  <2>1. <<>> \in Seq(Row) OBVIOUS
  <2> QED BY <2>1 DEF Init
<1>4. work \in [Runners -> Work] BY <1>1 DEF Init
<1>5. day \in 0..LastDay /\ fired \in BOOLEAN /\ down \subseteq Tenants /\ events \in 0..MaxEvents
  <2>1. LastDay \in Nat /\ MaxEvents \in Nat BY FilingAssumption
  <2>2. day \in 0..LastDay /\ events \in 0..MaxEvents BY <2>1 DEF Init
  <2>3. fired \in BOOLEAN /\ down \subseteq Tenants BY DEF Init
  <2> QED BY <2>2, <2>3
<1> QED BY <1>2, <1>3, <1>4, <1>5 DEF TypeOK, Work

LEMMA ReadingsType ==
  /\ \A dataset \in Datasets, b \in Book : EXTRACTORS(dataset, b) \in BOOLEAN
  /\ Datasets = {"customer", "loan", "repayment", "overdue", "complaint"}
<1>1. Datasets = {"customer", "loan", "repayment", "overdue", "complaint"}
  <2>1. DOMAIN DATASET_SEQUENCE = {1, 2, 3, 4, 5} BY TheSequence
  <2> QED BY <2>1 DEF Datasets, DATASET_SEQUENCE
<1> QED BY <1>1 DEF EXTRACTORS, extract_customer_data, extract_loan_accounts, extract_repayments,
             extract_overdue, extract_complaints

(* What becomes of the log and the runner at a step that adds a row. *)
LEMMA Added ==
  ASSUME TypeOK, InHand, NEW r \in Runners, work[r].step = "extract",
         NEW rows \in BOOLEAN, NEW status \in {"pending", "error"},
         Logged(work[r].tenant, r, work[r].run, DATASET_SEQUENCE[work[r].at], rows, status)
  PROVE  \E x \in Row :
           /\ Grown(work[r].tenant, r, x)
           /\ x = [run |-> work[r].run, dataset |-> DATASET_SEQUENCE[work[r].at], rows |-> rows,
                   status |-> status, taken |-> FALSE]
<1> DEFINE x == [run |-> work[r].run, dataset |-> DATASET_SEQUENCE[work[r].at], rows |-> rows,
                 status |-> status, taken |-> FALSE]
<1>1. work[r].run \in Nat /\ work[r].at \in 1..5 BY DEF TypeOK, InHand, Seated, Awaits, Filer
<1>2. x \in Row BY <1>1, TheSequence DEF Row
<1>3. Grown(work[r].tenant, r, x) BY DEF Logged, Grown
<1> QED BY <1>2, <1>3
---------------------------------------------------------------------------
(* The log stays as it is. *)
LEMMA SameLogKept ==
  ASSUME Kept, TypeOK', log' = log, down \subseteq down',
         \A t \in Tenants : /\ (book'[t].client = "by_end") = (book[t].client = "by_end")
                            /\ (book'[t].disbursed = "by_end") = (book[t].disbursed = "by_end"),
         \A r \in Runners :
           \/ work'[r] = work[r]
           \/ /\ work[r].tenant \in down' \/ work[r].step # "submit"
              /\ ~(work'[r].step \in {"extract", "submit"})
           \/ /\ work[r].step # "submit"
              /\ work'[r].step = "extract" /\ work'[r].tenant \in Tenants /\ work'[r].at = 1
              /\ work'[r].run = Len(log[work'[r].tenant][r]) + 1
              /\ r = Job => Len(log[work'[r].tenant][r]) = 0
  PROVE  Kept'
<1> USE DEF Kept
<1>1. log \in Logs /\ \A t \in Tenants, r \in Runners : log[t][r] \in Seq(Row) BY DEF TypeOK, Logs
<1>2. \A t \in Tenants, x \in Row : Honest(t, x)' <=> Honest(t, x) BY DEF Honest
<1>3. \A t \in Tenants, r \in Runners : \A i \in DOMAIN log[t][r] : log[t][r][i] \in Row BY <1>1
<1>4. Job \in Runners BY DEF Runners
<1>5. InHand' BY DEF InHand, Seated, Awaits, Filer, Mine
<1>6. RunsNumbered' BY DEF RunsNumbered
<1>7. JobInOrder' BY <1>4 DEF JobInOrder, Mine
<1>8. RunHonest'
  <2> SUFFICES ASSUME NEW r \in Runners,
                      work'[r].step = "extract" \/ (work'[r].step = "submit" /\ work'[r].at # 5),
                      NEW i \in DOMAIN log[work'[r].tenant][r],
                      log[work'[r].tenant][r][i].run = work'[r].run
               PROVE  Honest(work[r].tenant, log[work[r].tenant][r][i])'
    BY DEF RunHonest, Mine
  <2>1. CASE work'[r] = work[r]
    <3>1. work[r].tenant \in Tenants BY <2>1 DEF InHand, Seated, Awaits, Filer
    <3>2. Honest(work[r].tenant, log[work[r].tenant][r][i]) BY <2>1 DEF RunHonest, Mine
    <3> QED BY <1>2, <1>3, <2>1, <3>1, <3>2
  <2>2. CASE work'[r] # work[r]
    <3>1. /\ work'[r].tenant \in Tenants /\ work'[r].run = Len(log[work'[r].tenant][r]) + 1
      BY <2>2
    <3>2. log[work'[r].tenant][r][i].run <= Len(log[work'[r].tenant][r])
      BY <3>1 DEF RunsNumbered
    <3>3. Len(log[work'[r].tenant][r]) \in Nat BY <1>1, <3>1
    <3> QED BY <3>1, <3>2, <3>3
  <2> QED BY <2>1, <2>2
<1>9. RowsHonest'
  <2> SUFFICES ASSUME NEW t \in Tenants, NEW r \in Runners, NEW i \in DOMAIN log[t][r], NEW j \in DOMAIN log[t][r],
                      i # j, log[t][r][i].run = log[t][r][j].run
               PROVE  Honest(t, log[t][r][i])'
    BY DEF RowsHonest
  <2> QED BY <1>2, <1>3 DEF RowsHonest
<1>10. RowsTrue' BY DEF RowsTrue
<1>11. LogTells'
  <2> SUFFICES ASSUME NEW t \in Tenants, NEW r \in Runners, NEW i \in DOMAIN log[t][r]
               PROVE  /\ log[t][r][i].status = "submitted" => log[t][r][i].taken
                      /\ log[t][r][i].status = "pending" =>
                           t \in down' \/ (work'[r].step = "submit" /\ work'[r].tenant = t /\ work'[r].row = i)
    BY DEF LogTells
  <2>1. /\ log[t][r][i].status = "submitted" => log[t][r][i].taken
        /\ log[t][r][i].status = "pending" =>
             t \in down \/ (work[r].step = "submit" /\ work[r].tenant = t /\ work[r].row = i)
    BY DEF LogTells
  <2> QED BY <2>1
<1> QED BY <1>5, <1>6, <1>7, <1>8, <1>9, <1>10, <1>11

(* A row is added, by a runner that waits for none. *)
LEMMA GrownKept ==
  ASSUME Kept, TypeOK', book' = book, down' = down,
         NEW t \in Tenants, NEW r \in Runners, NEW x \in Row, Grown(t, r, x),
         work[r].step # "submit", \A q \in Runners : q # r => work'[q] = work[q],
         x.run <= Len(log[t][r]) + 1,
         r = Job => Len(log[t][r]) + 1 \in 1..5 /\ x.dataset = DATASET_SEQUENCE[Len(log[t][r]) + 1],
         x.rows /\ x.dataset \in {"loan", "overdue"} => book[t].disbursed = "by_end",
         \/ Honest(t, x) /\ \A i \in DOMAIN log[t][r] : log[t][r][i].run = x.run => Honest(t, log[t][r][i])
         \/ work'[r].at = 5 /\ \A i \in DOMAIN log[t][r] : log[t][r][i].run # x.run,
         \/ /\ x.status = "pending" /\ work'[r].step = "submit" /\ work'[r].row = Len(log[t][r]) + 1
            /\ r = Job => work'[r].at = Len(log[t][r]) + 1
         \/ /\ x.status = "error" /\ work'[r].step = "extract"
            /\ r = Job => work'[r].at = Len(log[t][r]) + 2
            /\ Honest(t, x) /\ \A i \in DOMAIN log[t][r] : log[t][r][i].run = x.run => Honest(t, log[t][r][i])
         \/ x.status = "error" /\ ~(work'[r].step \in {"extract", "submit"}),
         work'[r].step \in {"extract", "submit"} =>
           work'[r].tenant = t /\ work'[r].run = x.run /\ work'[r].at \in 1..5
  PROVE  Kept'
<1> USE DEF Kept
<1> DEFINE n == Len(log[t][r])
           old == log[t][r]
           new == log'[t][r]
<1>1. log \in Logs BY DEF TypeOK, Logs
<1>2. /\ \A u \in Tenants, q \in Runners : u # t \/ q # r => log'[u][q] = log[u][q]
      /\ Len(new) = n + 1 /\ DOMAIN new = DOMAIN old \cup {n + 1}
      /\ \A i \in DOMAIN old : new[i] = old[i]
      /\ new[n + 1] = x
  BY <1>1, GrownLog
<1>3. n \in Nat /\ DOMAIN old = 1..n /\ \A i \in DOMAIN old : old[i] \in Row
  <2>1. old \in Seq(Row) BY <1>1 DEF Logs
  <2> HIDE DEF old
  <2>2. Len(old) \in Nat /\ DOMAIN old = 1..Len(old) /\ \A i \in DOMAIN old : old[i] \in Row
    BY <2>1, LenProperties, ElementOfSeq
  <2> QED BY <2>2 DEF old
<1>4. \A u, y : Honest(u, y)' <=> Honest(u, y') BY DEF Honest
<1>5. Job \in Runners /\ \A q \in Runners : q # r => (Filer(q)' <=> Filer(q)) BY DEF Runners, Filer
<1> HIDE DEF n, old, new
<1>6. InHand'
  <2>1. ASSUME NEW q \in Runners, q # r PROVE Seated(q)' /\ Awaits(q)'
    <3>1. work'[q] = work[q] BY <2>1
    <3>2. Filer(q) => Mine(q)' = Mine(q)
      BY <1>2, <2>1, <3>1 DEF InHand, Seated, Mine
    <3>3. Seated(q) /\ Awaits(q) BY DEF InHand
    <3> QED BY <3>1, <3>2, <3>3 DEF Seated, Awaits, Filer
  <2>2. Filer(r)' => /\ work'[r].tenant = t /\ work'[r].at \in 1..5 /\ work'[r].run = x.run
                     /\ Mine(r)' = new
    BY DEF Filer, Mine, new
  <2>3. x.run \in Nat /\ x.run <= n + 1 BY DEF Row, n
  <2>4. work'[r].step = "submit" => work'[r].row = n + 1 /\ x.status = "pending" BY DEF n
  <2>5. Seated(r)' BY <1>2, <1>3, <2>2, <2>3 DEF Seated
  <2>6. Awaits(r)' BY <1>2, <1>3, <2>2, <2>4 DEF Awaits, Filer
  <2> QED BY <2>1, <2>5, <2>6 DEF InHand, Seated, Awaits
<1>7. RunsNumbered'
  <2> SUFFICES ASSUME NEW u \in Tenants, NEW q \in Runners, NEW i \in DOMAIN log'[u][q]
               PROVE  log'[u][q][i].run <= Len(log'[u][q])
    BY DEF RunsNumbered
  <2>1. CASE u # t \/ q # r
    BY <1>2, <2>1 DEF RunsNumbered
  <2>2. CASE u = t /\ q = r
    <3>1. \A k \in DOMAIN old : old[k].run \in Nat /\ old[k].run <= n BY <1>3 DEF RunsNumbered, Row, old, n
    <3>2. x.run <= n + 1 BY DEF n
    <3> QED BY <1>2, <1>3, <2>2, <3>1, <3>2 DEF new
  <2> QED BY <2>1, <2>2
<1>8. JobInOrder'
  <2>1. CASE r # Job
    <3>1. \A u \in Tenants : log'[u][Job] = log[u][Job] BY <1>2, <1>5, <2>1
    <3>2. work'[Job] = work[Job] BY <1>5, <2>1
    <3>3. work[Job].step \in {"extract", "submit"} => Mine(Job)' = Mine(Job)
      BY <1>5, <3>1, <3>2 DEF InHand, Seated, Filer, Mine
    <3>4. JobInOrder BY DEF Kept
    <3> QED BY <3>1, <3>2, <3>3, <3>4 DEF JobInOrder
  <2>2. CASE r = Job
    <3>1. n + 1 \in 1..5 /\ x.dataset = DATASET_SEQUENCE[n + 1] BY <2>2 DEF n
    <3>2. ASSUME NEW u \in Tenants, NEW i \in DOMAIN log'[u][Job]
          PROVE  i \in 1..5 /\ log'[u][Job][i].dataset = DATASET_SEQUENCE[i]
      <4>1. CASE u # t BY <1>2, <1>5, <3>2, <4>1 DEF JobInOrder
      <4>2. CASE u = t
        <5>1. \A k \in DOMAIN old : k \in 1..5 /\ old[k].dataset = DATASET_SEQUENCE[k]
          BY <2>2 DEF JobInOrder, old
        <5>2. i \in DOMAIN new /\ log'[u][Job] = new BY <2>2, <3>2, <4>2 DEF new
        <5> QED BY <1>2, <3>1, <5>1, <5>2
      <4> QED BY <4>1, <4>2
    <3>3. Filer(Job)' => Mine(Job)' = new BY <2>2 DEF Filer, Mine, new
    <3>4. /\ work'[Job].step = "extract" => work'[Job].at = n + 2
          /\ work'[Job].step = "submit" => work'[Job].at = n + 1
      BY <2>2 DEF n
    <3> QED BY <1>2, <1>3, <3>2, <3>3, <3>4 DEF JobInOrder, Filer
  <2> QED BY <2>1, <2>2<1>9. RunHonest'
  <2> SUFFICES ASSUME NEW q \in Runners,
                      work'[q].step = "extract" \/ (work'[q].step = "submit" /\ work'[q].at # 5),
                      NEW i \in DOMAIN log'[work'[q].tenant][q],
                      log'[work'[q].tenant][q][i].run = work'[q].run
               PROVE  Honest(work'[q].tenant, log'[work'[q].tenant][q][i])
    BY <1>4 DEF RunHonest, Mine
  <2>1. CASE q # r
    <3>1. work'[q] = work[q] BY <2>1
    <3>2. work[q].tenant \in Tenants /\ log'[work[q].tenant][q] = log[work[q].tenant][q]
      BY <1>2, <2>1, <3>1 DEF InHand, Seated, Awaits, Filer
    <3> QED BY <3>1, <3>2 DEF RunHonest, Mine
  <2>2. CASE q = r
    <3>1. work'[r].tenant = t /\ work'[r].run = x.run BY <2>2
    <3>2. Honest(t, x) /\ \A k \in DOMAIN old : old[k].run = x.run => Honest(t, old[k])
      BY <2>2 DEF old
    <3>3. i \in DOMAIN new /\ new[i].run = x.run BY <2>2, <3>1 DEF new
    <3>4. Honest(t, new[i]) BY <1>2, <3>2, <3>3
    <3> QED BY <2>2, <3>1, <3>4 DEF new
  <2> QED BY <2>1, <2>2
<1>10. RowsHonest'
  <2> SUFFICES ASSUME NEW u \in Tenants, NEW q \in Runners,
                      NEW i \in DOMAIN log'[u][q], NEW j \in DOMAIN log'[u][q],
                      i # j, log'[u][q][i].run = log'[u][q][j].run
               PROVE  Honest(u, log'[u][q][i])
    BY <1>4 DEF RowsHonest
  <2>1. CASE u # t \/ q # r
    BY <1>2, <2>1 DEF RowsHonest
  <2>2. CASE u = t /\ q = r
    <3>1. \A k, l \in DOMAIN old : k # l /\ old[k].run = old[l].run => Honest(t, old[k])
      BY DEF RowsHonest, old
    <3>2. \/ Honest(t, x) /\ \A k \in DOMAIN old : old[k].run = x.run => Honest(t, old[k])
          \/ \A k \in DOMAIN old : old[k].run # x.run
      BY DEF old
    <3>3. i \in DOMAIN new /\ j \in DOMAIN new /\ new[i].run = new[j].run BY <2>2 DEF new
    <3>4. Honest(t, new[i]) BY <1>2, <1>3, <3>1, <3>2, <3>3
    <3> QED BY <2>2, <3>4 DEF new
  <2> QED BY <2>1, <2>2
<1>11. RowsTrue'
  <2> SUFFICES ASSUME NEW u \in Tenants, NEW q \in Runners, NEW i \in DOMAIN log'[u][q],
                      log'[u][q][i].rows, log'[u][q][i].dataset \in {"loan", "overdue"}
               PROVE  book[u].disbursed = "by_end"
    BY DEF RowsTrue
  <2>1. CASE u # t \/ q # r
    BY <1>2, <2>1 DEF RowsTrue
  <2>2. CASE u = t /\ q = r
    <3>1. \A k \in DOMAIN old : old[k].rows /\ old[k].dataset \in {"loan", "overdue"} => book[t].disbursed = "by_end"
      BY DEF RowsTrue, old
    <3> QED BY <1>2, <2>2, <3>1 DEF new
  <2> QED BY <2>1, <2>2
<1>12. LogTells'
  <2> SUFFICES ASSUME NEW u \in Tenants, NEW q \in Runners, NEW i \in DOMAIN log'[u][q]
               PROVE  /\ log'[u][q][i].status = "submitted" => log'[u][q][i].taken
                      /\ log'[u][q][i].status = "pending" =>
                           u \in down' \/ (work'[q].step = "submit" /\ work'[q].tenant = u /\ work'[q].row = i)
    BY DEF LogTells
  <2>1. CASE (u # t \/ q # r) \/ i \in DOMAIN old
    <3>1. i \in DOMAIN log[u][q] /\ log'[u][q][i] = log[u][q][i] BY <1>2, <2>1 DEF old, new
    <3>2. /\ log[u][q][i].status = "submitted" => log[u][q][i].taken
          /\ log[u][q][i].status = "pending" =>
               u \in down \/ (work[q].step = "submit" /\ work[q].tenant = u /\ work[q].row = i)
      BY <3>1 DEF LogTells
    <3>3. work[q].step = "submit" => work'[q] = work[q] OBVIOUS
    <3> QED BY <3>1, <3>2, <3>3
  <2>2. CASE u = t /\ q = r /\ i = n + 1
    BY <1>2, <2>2 DEF new, n
  <2> QED BY <1>2, <2>1, <2>2 DEF new
<1> QED BY <1>6, <1>7, <1>8, <1>9, <1>10, <1>11, <1>12
(* The row that a runner waits for is settled. *)
LEMMA SettledKept ==
  ASSUME Kept, TypeOK', book' = book, down \subseteq down',
         NEW r \in Runners, work[r].step = "submit",
         NEW status \in {"pending", "submitted", "error"}, NEW taken \in BOOLEAN,
         Settled(r, status, taken),
         status = "submitted" => taken, status = "pending" => work[r].tenant \in down',
         \A q \in Runners : q # r => work'[q] = work[q],
         work'[r] = Onward(r) \/ work'[r] = Over(r)
  PROVE  Kept'
<1> USE DEF Kept
<1> DEFINE t == work[r].tenant
           k == work[r].row
           old == log[t][r]
           new == log'[t][r]
           x == new[k]
<1>1. log \in Logs /\ t \in Tenants /\ work[r].at \in 1..5 /\ old[k].status = "pending"
      /\ k = Len(old) /\ k # 0
  BY DEF TypeOK, Logs, InHand, Seated, Awaits, Filer, Mine
<1>2. old \in Seq(Row) BY <1>1 DEF Logs
<1>3. k \in DOMAIN old /\ DOMAIN old = 1..k /\ \A i \in DOMAIN old : old[i] \in Row
  <2> HIDE DEF old, k
  <2> QED BY <1>1, <1>2, LenProperties, ElementOfSeq
<1>4. /\ \A u \in Tenants, q \in Runners : u # t \/ q # r => log'[u][q] = log[u][q]
      /\ Len(new) = Len(old) /\ DOMAIN new = DOMAIN old
      /\ \A i \in DOMAIN old : i # k => new[i] = old[i]
      /\ x.run = old[k].run /\ x.dataset = old[k].dataset /\ x.rows = old[k].rows
      /\ x.status = status /\ x.taken = taken
  BY <1>1, <1>3, SettledLog DEF Mine
<1>6. \A u, y : Honest(u, y)' <=> Honest(u, y') BY DEF Honest
<1>5. Honest(t, old[k]) => Honest(t, x) BY <1>1, <1>4 DEF Honest
<1>7. Job \in Runners BY DEF Runners
<1>8. \/ ~(work'[r].step \in {"extract", "submit"})
      \/ /\ work[r].at # 5 /\ work'[r].step = "extract" /\ work'[r].at = work[r].at + 1
         /\ work'[r].tenant = t /\ work'[r].run = work[r].run
  BY <1>1, WorkTypes, OnwardType
<1>9. \A i \in DOMAIN old : /\ new[i].run = old[i].run /\ new[i].dataset = old[i].dataset
                            /\ new[i].rows = old[i].rows /\ (Honest(t, old[i]) => Honest(t, new[i]))
  BY <1>4, <1>5
<1> HIDE DEF x, old, new, k
<1>10. InHand'
  <2>1. ASSUME NEW q \in Runners, q # r PROVE Seated(q)' /\ Awaits(q)'
    <3>1. work'[q] = work[q] BY <2>1
    <3>2. Filer(q) => Mine(q)' = Mine(q)
      BY <1>4, <2>1, <3>1 DEF InHand, Seated, Mine
    <3>3. Seated(q) /\ Awaits(q) BY DEF InHand
    <3> QED BY <3>1, <3>2, <3>3 DEF Seated, Awaits, Filer
  <2>2. Filer(r)' => /\ work'[r].step = "extract" /\ work'[r].tenant = t /\ work'[r].run = work[r].run
                     /\ work'[r].at \in 1..5 /\ Mine(r)' = new
    BY <1>1, <1>8 DEF Filer, Mine, new
  <2>3. work[r].run <= Len(old) + 1 BY DEF InHand, Seated, Filer, Mine, old
  <2>4. Seated(r)' BY <1>1, <1>4, <2>2, <2>3 DEF Seated
  <2>5. Awaits(r)' BY <1>8 DEF Awaits
  <2> QED BY <2>1, <2>4, <2>5 DEF InHand, Seated, Awaits
<1>11. RunsNumbered'
  <2> SUFFICES ASSUME NEW u \in Tenants, NEW q \in Runners, NEW i \in DOMAIN log'[u][q]
               PROVE  log'[u][q][i].run <= Len(log'[u][q])
    BY DEF RunsNumbered
  <2>1. CASE u # t \/ q # r
    BY <1>4, <2>1 DEF RunsNumbered
  <2>2. CASE u = t /\ q = r
    <3>1. \A l \in DOMAIN old : old[l].run <= Len(old) BY <1>1 DEF RunsNumbered, old
    <3> QED BY <1>4, <1>9, <2>2, <3>1 DEF new
  <2> QED BY <2>1, <2>2
<1>12. JobInOrder'
  <2>1. CASE r # Job
    <3>1. \A u \in Tenants : log'[u][Job] = log[u][Job] BY <1>4, <1>7, <2>1
    <3>2. work'[Job] = work[Job] BY <1>7, <2>1
    <3>3. work[Job].step \in {"extract", "submit"} => Mine(Job)' = Mine(Job)
      BY <1>7, <3>1, <3>2 DEF InHand, Seated, Filer, Mine
    <3>4. JobInOrder BY DEF Kept
    <3> QED BY <3>1, <3>2, <3>3, <3>4 DEF JobInOrder
  <2>2. CASE r = Job
    <3>1. ASSUME NEW u \in Tenants, NEW i \in DOMAIN log'[u][Job]
          PROVE  i \in 1..5 /\ log'[u][Job][i].dataset = DATASET_SEQUENCE[i]
      <4>1. CASE u # t BY <1>4, <1>7, <3>1, <4>1 DEF JobInOrder
      <4>2. CASE u = t
        <5>1. \A l \in DOMAIN old : l \in 1..5 /\ old[l].dataset = DATASET_SEQUENCE[l]
          BY <1>1, <2>2 DEF JobInOrder, old
        <5>2. i \in DOMAIN new /\ log'[u][Job] = new BY <2>2, <3>1, <4>2 DEF new
        <5> QED BY <1>4, <1>9, <5>1, <5>2
      <4> QED BY <4>1, <4>2
    <3>2. Len(old) = work[Job].at BY <2>2 DEF JobInOrder, Mine, old
    <3>3. work'[Job].step = "extract" => Mine(Job)' = new BY <1>8, <2>2 DEF Mine, new
    <3> QED BY <1>4, <1>8, <2>2, <3>1, <3>2, <3>3 DEF JobInOrder
  <2> QED BY <2>1, <2>2
<1>13. RunHonest'
  <2> SUFFICES ASSUME NEW q \in Runners,
                      work'[q].step = "extract" \/ (work'[q].step = "submit" /\ work'[q].at # 5),
                      NEW i \in DOMAIN log'[work'[q].tenant][q],
                      log'[work'[q].tenant][q][i].run = work'[q].run
               PROVE  Honest(work'[q].tenant, log'[work'[q].tenant][q][i])
    BY <1>6 DEF RunHonest, Mine
  <2>1. CASE q # r
    <3>1. work'[q] = work[q] BY <2>1
    <3>2. work[q].tenant \in Tenants /\ log'[work[q].tenant][q] = log[work[q].tenant][q]
      BY <1>4, <2>1, <3>1 DEF InHand, Seated, Awaits, Filer
    <3> QED BY <3>1, <3>2 DEF RunHonest, Mine
  <2>2. CASE q = r
    <3>1. work'[r].tenant = t /\ work'[r].run = work[r].run /\ work[r].at # 5 BY <1>8, <2>2
    <3>2. \A l \in DOMAIN old : old[l].run = work[r].run => Honest(t, old[l])
      BY <3>1 DEF RunHonest, Mine, old
    <3>3. i \in DOMAIN new /\ new[i].run = work[r].run BY <2>2, <3>1 DEF new
    <3>4. Honest(t, new[i]) BY <1>4, <1>9, <3>2, <3>3
    <3> QED BY <2>2, <3>1, <3>4 DEF new
  <2> QED BY <2>1, <2>2
<1>14. RowsHonest'
  <2> SUFFICES ASSUME NEW u \in Tenants, NEW q \in Runners,
                      NEW i \in DOMAIN log'[u][q], NEW j \in DOMAIN log'[u][q],
                      i # j, log'[u][q][i].run = log'[u][q][j].run
               PROVE  Honest(u, log'[u][q][i])
    BY <1>6 DEF RowsHonest
  <2>1. CASE u # t \/ q # r
    BY <1>4, <2>1 DEF RowsHonest
  <2>2. CASE u = t /\ q = r
    <3>1. \A l, m \in DOMAIN old : l # m /\ old[l].run = old[m].run => Honest(t, old[l])
      BY <1>1 DEF RowsHonest, old
    <3>2. i \in DOMAIN new /\ j \in DOMAIN new /\ new[i].run = new[j].run BY <2>2 DEF new
    <3>3. Honest(t, new[i]) BY <1>4, <1>9, <3>1, <3>2
    <3> QED BY <2>2, <3>3 DEF new
  <2> QED BY <2>1, <2>2
<1>15. RowsTrue'
  <2> SUFFICES ASSUME NEW u \in Tenants, NEW q \in Runners, NEW i \in DOMAIN log'[u][q],
                      log'[u][q][i].rows, log'[u][q][i].dataset \in {"loan", "overdue"}
               PROVE  book[u].disbursed = "by_end"
    BY DEF RowsTrue
  <2>1. CASE u # t \/ q # r
    BY <1>4, <2>1 DEF RowsTrue
  <2>2. CASE u = t /\ q = r
    <3>1. \A l \in DOMAIN old : old[l].rows /\ old[l].dataset \in {"loan", "overdue"} => book[t].disbursed = "by_end"
      BY <1>1 DEF RowsTrue, old
    <3> QED BY <1>4, <1>9, <2>2, <3>1 DEF new
  <2> QED BY <2>1, <2>2
<1>16. LogTells'
  <2> SUFFICES ASSUME NEW u \in Tenants, NEW q \in Runners, NEW i \in DOMAIN log'[u][q]
               PROVE  /\ log'[u][q][i].status = "submitted" => log'[u][q][i].taken
                      /\ log'[u][q][i].status = "pending" =>
                           u \in down' \/ (work'[q].step = "submit" /\ work'[q].tenant = u /\ work'[q].row = i)
    BY DEF LogTells
  <2>1. CASE u # t \/ q # r \/ i # k
    <3>1. i \in DOMAIN log[u][q] /\ log'[u][q][i] = log[u][q][i] BY <1>4, <2>1 DEF old, new
    <3>2. /\ log[u][q][i].status = "submitted" => log[u][q][i].taken
          /\ log[u][q][i].status = "pending" =>
               u \in down \/ (work[q].step = "submit" /\ work[q].tenant = u /\ work[q].row = i)
      BY <3>1 DEF LogTells
    <3>3. q # r => work'[q] = work[q] OBVIOUS
    <3>4. q = r /\ work[q].tenant = u => work[q].row # i BY <2>1 DEF k
    <3> QED BY <3>1, <3>2, <3>3, <3>4
  <2>2. CASE u = t /\ q = r /\ i = k
    BY <1>4, <2>2 DEF new, x
  <2> QED BY <1>4, <2>1, <2>2 DEF new
<1> QED BY <1>10, <1>11, <1>12, <1>13, <1>14, <1>15, <1>16
---------------------------------------------------------------------------
(* Every step keeps it. *)
LEMMA StepType == TypeOK /\ InHand /\ [Next]_vars => TypeOK'
<1> SUFFICES ASSUME TypeOK, InHand, [Next]_vars PROVE TypeOK' OBVIOUS
<1> DEFINE Tables == [Tenants -> {b \in Book : Orderly(b)}]
<1>1. /\ day \in 0..LastDay /\ fired \in BOOLEAN /\ down \subseteq Tenants /\ events \in 0..MaxEvents
      /\ LastDay \in Nat /\ MaxEvents \in Nat
      /\ book \in Tables /\ log \in Logs /\ work \in [Runners -> Work]
  BY FilingAssumption DEF TypeOK, Logs, Work
<1>2. ASSUME day' \in 0..LastDay, fired' \in BOOLEAN, down' \subseteq Tenants, events' \in 0..MaxEvents,
             book' \in Tables, log' \in Logs, work' \in [Runners -> Work]
      PROVE  TypeOK'
  BY <1>2 DEF TypeOK, Logs, Work
<1> HIDE DEF Tables
<1>3. Event => events' \in 0..MaxEvents BY <1>1 DEF Event
<1>4. ASSUME NEW r \in Runners, NEW w \in Work, work' = [work EXCEPT ![r] = w]
      PROVE  work' \in [Runners -> Work]
  BY <1>1, <1>4
<1>5. ASSUME NEW r \in Runners, work[r].step = "extract" \/ work[r].step = "submit"
      PROVE  /\ Onward(r) \in Work /\ Over(r) \in Work
             /\ work[r].tenant \in Tenants /\ work[r].at \in 1..5
  BY <1>5, OnwardType, WorkTypes DEF InHand, Seated, Awaits, Filer
<1>6. ASSUME NEW r \in Runners, NEW rows \in BOOLEAN, NEW status \in {"pending", "error"},
             work[r].step = "extract",
             Logged(work[r].tenant, r, work[r].run, DATASET_SEQUENCE[work[r].at], rows, status)
      PROVE  log' \in Logs
  BY <1>1, <1>5, <1>6, Added, GrownLog
<1>7. ASSUME NEW r \in Runners, NEW status \in {"pending", "submitted", "error"}, NEW taken \in BOOLEAN,
             work[r].step = "submit", Settled(r, status, taken)
      PROVE  log' \in Logs
  <2>1. Mine(r) \in Seq(Row) BY <1>1, <1>5, <1>7 DEF Logs, Mine
  <2>2. work[r].row = Len(Mine(r)) /\ work[r].row # 0 BY <1>7 DEF InHand, Seated, Awaits
  <2>3. work[r].row \in DOMAIN Mine(r) BY <2>1, <2>2, LenProperties
  <2> QED BY <1>1, <1>5, <1>7, <2>3, SettledLog
<1>8. ASSUME NEW r \in Runners, Step(r) PROVE TypeOK'
  <2>1. CASE Extract(r)
    <3>1. book[work[r].tenant] \in Book BY <1>1, <1>5, <2>1 DEF Extract, Tables
    <3>2. DATASET_SEQUENCE[work[r].at] \in Datasets BY <1>5, <2>1, TheSequence DEF Extract
    <3>3. log' \in Logs BY <1>6, <2>1, <3>1, <3>2, ReadingsType DEF Extract
    <3>4. Len(log[work[r].tenant][r]) \in Nat BY <1>1, <1>5, <2>1 DEF Extract, Logs
    <3>5. work[r] \in Work BY <1>1
    <3>6. [work[r] EXCEPT !.step = "submit", !.row = Len(log[work[r].tenant][r]) + 1] \in Work
      <4> DEFINE n == Len(log[work[r].tenant][r]) + 1
      <4>1. n \in Nat BY <3>4
      <4> HIDE DEF n
      <4>2. [work[r] EXCEPT !.step = "submit", !.row = n] \in Work BY <3>5, <4>1 DEF Work
      <4> QED BY <4>2 DEF n
    <3>7. work' \in [Runners -> Work] BY <1>1, <2>1, <3>6 DEF Extract
    <3> QED BY <1>1, <1>2, <2>1, <3>3, <3>7 DEF Extract
  <2>2. CASE ExtractFails(r)
    BY <1>1, <1>2, <1>3, <1>4, <1>5, <1>6, <2>2 DEF ExtractFails
  <2>3. CASE Answered(r)
    BY <1>1, <1>2, <1>4, <1>5, <1>7, <2>3 DEF Answered
  <2>4. CASE Refused(r)
    BY <1>1, <1>2, <1>3, <1>4, <1>5, <1>7, <2>4 DEF Refused
  <2>5. ASSUME NEW taken \in BOOLEAN, Stopped(r, taken) PROVE TypeOK'
    BY <1>1, <1>2, <1>3, <1>4, <1>5, <1>7, <2>5 DEF Stopped, Lost
  <2>6. ASSUME NEW taken \in BOOLEAN, Raised(r, taken) PROVE TypeOK'
    BY <1>1, <1>2, <1>3, <1>4, <1>5, <1>7, <2>6 DEF Raised
  <2>7. CASE ExtractBreaks(r)
    BY <1>1, <1>2, <1>3, <1>4, <1>5, <2>7 DEF ExtractBreaks
  <2> QED BY <1>8, <2>1, <2>2, <2>3, <2>4, <2>5, <2>6, <2>7 DEF Step, NoToken, NoAnswer
<1>9. ASSUME NEW t \in Tenants, Business(t) PROVE TypeOK'
  <2>1. book' \in Tables BY <1>9, NewBook DEF Tables
  <2> QED BY <1>1, <1>2, <1>3, <1>9, <2>1 DEF Business
<1>10. Job \in Runners BY DEF Runners
<1>11. CASE Fire
  <2>1. work[Job] \in Work BY <1>1, <1>10
  <2>2. [work[Job] EXCEPT !.step = "choose", !.todo = Tenants] \in Work BY <2>1 DEF Work
  <2>3. work' \in [Runners -> Work] BY <1>1, <1>11, <2>2 DEF Fire
  <2> QED BY <1>1, <1>2, <1>11, <2>3 DEF Fire
<1>12. ASSUME NEW t \in Tenants, Choose(t) PROVE TypeOK'
  <2>1. work[Job] \in Work BY <1>1, <1>10
  <2>2. work[Job].todo \ {t} \in SUBSET Tenants BY <2>1 DEF Work
  <2>3. [work[Job] EXCEPT !.todo = work[Job].todo \ {t}] \in Work BY <2>1, <2>2 DEF Work
  <2>4. Begun(Job, t, work[Job].todo \ {t}) \in Work BY <1>10, <2>2, WorkTypes
  <2>5. \E w \in Work : work' = [work EXCEPT ![Job] = w]
    <3> DEFINE on == [work[Job] EXCEPT !.todo = work[Job].todo \ {t}]
               begun == Begun(Job, t, work[Job].todo \ {t})
    <3>1. work' = [work EXCEPT ![Job] = IF Filed(t) THEN on ELSE begun] BY <1>12 DEF Choose
    <3>2. on \in Work /\ begun \in Work BY <2>3, <2>4
    <3> HIDE DEF on, begun
    <3> QED BY <3>1, <3>2
  <2>6. work' \in [Runners -> Work] BY <1>4, <1>10, <2>5
  <2> QED BY <1>1, <1>2, <1>12, <2>6 DEF Choose
<1>13. CASE JobEnds
  BY <1>1, <1>2, <1>4, <1>10, <1>13, WorkTypes DEF JobEnds
<1>14. CASE NextDay
  <2>1. day' \in 0..LastDay BY <1>1, <1>14 DEF NextDay
  <2>2. fired' \in BOOLEAN BY <1>14 DEF NextDay
  <2> QED BY <1>1, <1>2, <1>14, <2>1, <2>2 DEF NextDay
<1>15. CASE Restart
  <2>1. Idle \in Work BY <1>10, WorkTypes
  <2>2. work' \in [Runners -> Work] BY <1>15, <2>1 DEF Restart
  <2> QED BY <1>1, <1>2, <1>3, <1>15, <2>2 DEF Restart
<1>16. ASSUME NEW s \in Staff, NEW t \in Tenants, GdiSubmit(s, t) PROVE TypeOK'
  <2>1. s \in Runners /\ Begun(s, t, {}) \in Work BY WorkTypes DEF Runners
  <2> QED BY <1>1, <1>2, <1>3, <1>4, <1>16, <2>1 DEF GdiSubmit, Request
<1>17. ASSUME NEW s \in Staff, NEW t \in Tenants, NEW dataset \in Datasets, GdiNil(s, t, dataset) PROVE TypeOK'
  <2>1. s \in Runners /\ Begun(s, t, {}) \in Work BY WorkTypes DEF Runners
  <2>2. Len(log[t][s]) + 1 \in Nat BY <1>1, <2>1 DEF Logs
  <2>3. [run |-> Len(log[t][s]) + 1, dataset |-> dataset, rows |-> FALSE, status |-> "pending", taken |-> FALSE] \in Row
    BY <2>2 DEF Row
  <2>4. log' \in Logs BY <1>1, <1>17, <2>1, <2>3, GrownLog DEF GdiNil, Logged, Grown
  <2>5. [Begun(s, t, {}) EXCEPT !.step = "submit", !.at = Len(DATASET_SEQUENCE), !.row = Len(log[t][s]) + 1] \in Work
    <3> DEFINE n == Len(log[t][s]) + 1
               w == Begun(s, t, {})
               five == Len(DATASET_SEQUENCE)
    <3>1. n \in Nat /\ w \in Work /\ five \in 0..five BY <2>1, <2>2, TheSequence
    <3> HIDE DEF n, w
    <3>2. [w EXCEPT !.step = "submit", !.at = five, !.row = n] \in Work BY <3>1 DEF Work
    <3> QED BY <3>2 DEF n, w
  <2>6. work' \in [Runners -> Work] BY <1>4, <1>17, <2>1, <2>5 DEF GdiNil
  <2> QED BY <1>1, <1>2, <1>3, <1>17, <2>4, <2>6 DEF GdiNil, Request
<1>18. CASE UNCHANGED vars
  BY <1>1, <1>2, <1>18 DEF vars
<1>19. Staff \subseteq Runners /\ ByHand \subseteq Tenants /\ Nil \subseteq Datasets
  BY FilingAssumption DEF Runners
<1> QED
  BY <1>8, <1>9, <1>10, <1>11, <1>12, <1>13, <1>14, <1>15, <1>16, <1>17, <1>18, <1>19 DEF Next, Job_Step
(* What is read now is honest, and so is what could not be read. *)
LEMMA ReadHonest ==
  ASSUME TypeOK, NEW t \in Tenants, NEW dataset \in Datasets, NEW x, x.dataset = dataset,
         x.rows = EXTRACTORS(dataset, book[t]) \/ (x.rows = FALSE /\ x.status = "error")
  PROVE  /\ Honest(t, x)
         /\ x.rows /\ x.dataset \in {"loan", "overdue"} => book[t].disbursed = "by_end"
<1>1. book[t] \in Book /\ Orderly(book[t]) BY DEF TypeOK
<1>2. /\ EXTRACTORS("customer", book[t]) = (book[t].client = "by_end")
      /\ EXTRACTORS("loan", book[t]) = (book[t].disbursed = "by_end")
      /\ EXTRACTORS("overdue", book[t]) = (book[t].status \in {"overdue", "defaulted"} /\ book[t].due = "by_end")
  BY DEF EXTRACTORS, extract_customer_data, extract_loan_accounts, extract_overdue
<1>3. EXTRACTORS("overdue", book[t]) => book[t].disbursed = "by_end"
  BY <1>1, <1>2 DEF Orderly
<1> QED BY <1>2, <1>3 DEF Honest

LEMMA KeptInit == Init => Kept
<1> SUFFICES ASSUME Init PROVE Kept OBVIOUS
<1>1. TypeOK BY TypeInit
<1>2. \A r \in Runners : work[r].step = "idle" BY DEF Init, Idle
<1>3. \A t \in Tenants, r \in Runners : log[t][r] = <<>> BY DEF Init
<1>4. \A t \in Tenants, r \in Runners : DOMAIN log[t][r] = {} BY <1>3
<1>5. Job \in Runners BY DEF Runners
<1>6. InHand /\ RunHonest BY <1>2 DEF InHand, Seated, Awaits, RunHonest, Filer
<1>7. RunsNumbered /\ RowsHonest /\ RowsTrue /\ LogTells
  BY <1>4 DEF RunsNumbered, RowsHonest, RowsTrue, LogTells
<1>8. JobInOrder BY <1>2, <1>4, <1>5 DEF JobInOrder
<1> QED BY <1>1, <1>6, <1>7, <1>8 DEF Kept

LEMMA KeptStep == Kept /\ [Next]_vars => Kept'
<1> SUFFICES ASSUME Kept, [Next]_vars PROVE Kept' OBVIOUS
<1>1. TypeOK /\ InHand /\ TypeOK' BY StepType DEF Kept
<1>2. log \in Logs BY <1>1 DEF TypeOK, Logs
<1>3. Job \in Runners BY DEF Runners
<1>4. ASSUME NEW r \in Runners, Filer(r)
      PROVE  /\ work[r].tenant \in Tenants /\ work[r].at \in 1..5
             /\ DATASET_SEQUENCE[work[r].at] \in Datasets
             /\ \/ ~(Onward(r).step \in {"extract", "submit"})
                \/ /\ work[r].at # 5 /\ Onward(r).step = "extract" /\ Onward(r).at = work[r].at + 1
                   /\ Onward(r).tenant = work[r].tenant /\ Onward(r).run = work[r].run
             /\ ~(Over(r).step \in {"extract", "submit"})
  BY <1>1, <1>4, OnwardType, WorkTypes, TheSequence DEF InHand, Seated, Awaits
<1>5. ASSUME NEW r \in Runners, NEW rows \in BOOLEAN, NEW status \in {"pending", "error"},
             work[r].step = "extract", book' = book, down' = down,
             Logged(work[r].tenant, r, work[r].run, DATASET_SEQUENCE[work[r].at], rows, status),
             rows = EXTRACTORS(DATASET_SEQUENCE[work[r].at], book[work[r].tenant])
               \/ (rows = FALSE /\ status = "error"),
             \A q \in Runners : q # r => work'[q] = work[q],
             \/ /\ status = "pending" /\ work'[r].step = "submit"
                /\ work'[r].row = Len(log[work[r].tenant][r]) + 1
                /\ work'[r].tenant = work[r].tenant /\ work'[r].run = work[r].run /\ work'[r].at = work[r].at
             \/ status = "error" /\ work'[r] = Onward(r)
      PROVE  Kept'
  <2> DEFINE t == work[r].tenant
  <2>1. t \in Tenants /\ work[r].at \in 1..5 /\ DATASET_SEQUENCE[work[r].at] \in Datasets
    BY <1>4, <1>5 DEF Filer
  <2>2. PICK x \in Row :
          /\ Grown(t, r, x)
          /\ x = [run |-> work[r].run, dataset |-> DATASET_SEQUENCE[work[r].at], rows |-> rows,
                  status |-> status, taken |-> FALSE]
    BY <1>1, <1>5, Added
  <2>3. /\ x.run = work[r].run /\ x.dataset = DATASET_SEQUENCE[work[r].at] /\ x.rows = rows
        /\ x.status = status
    BY <2>2
  <2>4. /\ Honest(t, x)
        /\ x.rows /\ x.dataset \in {"loan", "overdue"} => book[t].disbursed = "by_end"
    BY <1>1, <1>5, <2>1, <2>3, ReadHonest
  <2>5. \A i \in DOMAIN log[t][r] : log[t][r][i].run = x.run => Honest(t, log[t][r][i])
    BY <1>5, <2>3 DEF Kept, RunHonest, Mine
  <2>6. x.run <= Len(log[t][r]) + 1 BY <1>1, <1>5, <2>3 DEF InHand, Seated, Awaits, Filer, Mine
  <2>7. r = Job => Len(log[t][r]) + 1 = work[r].at
    BY <1>5 DEF Kept, JobInOrder, Mine
  <2>8. r = Job => Len(log[t][r]) + 1 \in 1..5 /\ x.dataset = DATASET_SEQUENCE[Len(log[t][r]) + 1]
    BY <2>1, <2>3, <2>7
  <2>9. Filer(r) BY <1>5 DEF Filer
  <2>10. Len(log[t][r]) \in Nat BY <1>2, <2>1 DEF Logs
  <2> HIDE DEF t
  <2>11. CASE status = "pending"
    <3>1. /\ x.status = "pending" /\ work'[r].step = "submit" /\ work'[r].row = Len(log[t][r]) + 1
          /\ r = Job => work'[r].at = Len(log[t][r]) + 1
          /\ work'[r].tenant = t /\ work'[r].run = x.run /\ work'[r].at \in 1..5
      BY <1>5, <2>1, <2>3, <2>7, <2>11 DEF t
    <3> QED BY <1>1, <1>5, <2>1, <2>2, <2>4, <2>5, <2>6, <2>8, <3>1, GrownKept
  <2>12. CASE status = "error" /\ work'[r].step = "extract"
    <3>1. /\ x.status = "error" /\ work'[r].step = "extract"
          /\ r = Job => work'[r].at = Len(log[t][r]) + 2
          /\ work'[r].tenant = t /\ work'[r].run = x.run /\ work'[r].at \in 1..5
      <4>1. work'[r] = Onward(r) BY <1>5, <2>12
      <4>2. work'[r].at = work[r].at + 1 /\ work[r].at # 5 /\ work'[r].tenant = t /\ work'[r].run = x.run
        BY <1>4, <2>3, <2>9, <2>12, <4>1 DEF t
      <4> QED BY <2>1, <2>3, <2>7, <2>10, <2>12, <4>2
    <3> QED BY <1>1, <1>5, <2>1, <2>2, <2>4, <2>5, <2>6, <2>8, <3>1, GrownKept
  <2>13. CASE status = "error" /\ work'[r].step # "extract"
    <3>1. x.status = "error" /\ ~(work'[r].step \in {"extract", "submit"})
      BY <1>4, <1>5, <2>3, <2>9, <2>13
    <3> QED BY <1>1, <1>5, <2>1, <2>2, <2>4, <2>5, <2>6, <2>8, <3>1, GrownKept
  <2> QED BY <2>11, <2>12, <2>13
<1>6. ASSUME NEW r \in Runners, work[r].step = "submit", book' = book, down \subseteq down',
             NEW status \in {"pending", "submitted", "error"}, NEW taken \in BOOLEAN,
             Settled(r, status, taken), status = "submitted" => taken, status = "pending" => work[r].tenant \in down',
             \/ work' = [work EXCEPT ![r] = Onward(r)]
             \/ work' = [work EXCEPT ![r] = Over(r)]
      PROVE  Kept'
  <2>1. /\ \A q \in Runners : q # r => work'[q] = work[q]
        /\ work'[r] = Onward(r) \/ work'[r] = Over(r)
    BY <1>1, <1>6 DEF TypeOK
  <2> QED BY <1>1, <1>6, <2>1, SettledKept
<1>7. ASSUME NEW r \in Runners, Step(r) PROVE Kept'
  <2>1. CASE Extract(r)
    <3>1. EXTRACTORS(DATASET_SEQUENCE[work[r].at], book[work[r].tenant]) \in BOOLEAN
      BY <1>1, <1>4, <2>1, ReadingsType DEF Extract, Filer, TypeOK
    <3>2. /\ \A q \in Runners : q # r => work'[q] = work[q]
          /\ work'[r] = [work[r] EXCEPT !.step = "submit", !.row = Len(log[work[r].tenant][r]) + 1]
      BY <1>1, <2>1 DEF Extract, TypeOK
    <3>3. /\ work'[r].step = "submit" /\ work'[r].row = Len(log[work[r].tenant][r]) + 1
          /\ work'[r].tenant = work[r].tenant /\ work'[r].run = work[r].run /\ work'[r].at = work[r].at
      BY <1>1, <3>2, WorkTypes DEF Work
    <3> QED BY <1>5, <2>1, <3>1, <3>2, <3>3 DEF Extract
  <2>2. CASE ExtractFails(r)
    <3>1. work'[r] = Onward(r) /\ \A q \in Runners : q # r => work'[q] = work[q]
      BY <1>1, <2>2 DEF ExtractFails, TypeOK
    <3> QED BY <1>5, <2>2, <3>1 DEF ExtractFails
  <2>3. CASE Answered(r)
    BY <1>6, <2>3 DEF Answered
  <2>4. CASE Refused(r)
    BY <1>6, <2>4 DEF Refused
  <2>5. ASSUME NEW taken \in BOOLEAN, Stopped(r, taken) PROVE Kept'
    BY <1>6, <2>5 DEF Stopped, Lost
  <2>6. ASSUME NEW taken \in BOOLEAN, Raised(r, taken) PROVE Kept'
    BY <1>6, <2>6 DEF Raised
  <2>7. CASE ExtractBreaks(r)
    <3>1. /\ work'[r] = Over(r) /\ \A q \in Runners : q # r => work'[q] = work[q]
          /\ work[r].step # "submit" /\ log' = log /\ book' = book /\ down \subseteq down'
      BY <1>1, <2>7 DEF ExtractBreaks, TypeOK
    <3>2. ~(Over(r).step \in {"extract", "submit"}) BY <1>1, WorkTypes
    <3> QED BY <1>1, <3>1, <3>2, SameLogKept
  <2> QED BY <1>7, <2>1, <2>2, <2>3, <2>4, <2>5, <2>6, <2>7 DEF Step, NoToken, NoAnswer
<1>8. ASSUME NEW t \in Tenants, Business(t) PROVE Kept'
  BY <1>1, <1>8, NewBook, SameLogKept DEF Business
<1>9. ASSUME log' = log, book' = book, down' = down, NEW r \in Runners, work[r].step # "submit",
             \A q \in Runners : q # r => work'[q] = work[q],
             \/ work'[r] = work[r]
             \/ ~(work'[r].step \in {"extract", "submit"})
             \/ /\ work'[r].step = "extract" /\ work'[r].tenant \in Tenants /\ work'[r].at = 1
                /\ work'[r].run = Len(log[work'[r].tenant][r]) + 1
                /\ r = Job => Len(log[work'[r].tenant][r]) = 0
      PROVE  Kept'
  BY <1>1, <1>9, SameLogKept
<1>10. CASE Fire
  <2>1. work[Job].step = "idle" BY <1>10 DEF Fire, Idle
  <2>2. work[Job] \in Work BY <1>1, <1>3, WorkTypes
  <2>3. [work[Job] EXCEPT !.step = "choose", !.todo = Tenants].step = "choose" BY <2>2 DEF Work
  <2>4. /\ \A q \in Runners : q # Job => work'[q] = work[q]
        /\ work'[Job] = work[Job] \/ work'[Job].step = "choose"
    BY <1>1, <1>3, <1>10, <2>3 DEF Fire, TypeOK
  <2> QED BY <1>3, <1>9, <1>10, <2>1, <2>4 DEF Fire
<1>11. ASSUME NEW t \in Tenants, Choose(t) PROVE Kept'
  <2> DEFINE left == work[Job].todo \ {t}
  <2>1. work[Job] \in Work /\ work[Job].step = "choose" BY <1>1, <1>3, <1>11, WorkTypes DEF Choose
  <2>2. left \in SUBSET Tenants BY <2>1 DEF Work
  <2>3. \A q \in Runners : q # Job => work'[q] = work[q]
    BY <1>1, <1>3, <1>11 DEF Choose, TypeOK
  <2>4. CASE Filed(t)
    <3>1. work'[Job] = [work[Job] EXCEPT !.todo = left]
      BY <1>1, <1>3, <1>11, <2>4 DEF Choose, TypeOK
    <3>2. work'[Job].step = "choose" BY <2>1, <3>1 DEF Work
    <3> QED BY <1>3, <1>9, <1>11, <2>1, <2>3, <3>2 DEF Choose
  <2>5. CASE ~Filed(t)
    <3>1. work'[Job] = Begun(Job, t, left)
      BY <1>1, <1>3, <1>11, <2>5 DEF Choose, TypeOK
    <3>2. /\ work'[Job].step = "extract" /\ work'[Job].tenant = t /\ work'[Job].at = 1
          /\ work'[Job].run = Len(log[t][Job]) + 1
      BY <1>1, <1>3, <2>2, <3>1, WorkTypes
    <3>3. \A i \in DOMAIN log[t][Job] : log[t][Job][i] \in RowsOf(t)
      BY <1>3 DEF RowsOf
    <3>4. log[t][Job] \in Seq(Row) /\ DOMAIN log[t][Job] = {}
      BY <1>2, <1>3, <2>5, <3>3 DEF Filed, Logs
    <3>5. Len(log[t][Job]) = 0
      <4> DEFINE rows == log[t][Job]
      <4>1. rows \in Seq(Row) /\ DOMAIN rows = {} BY <3>4
      <4> HIDE DEF rows
      <4>2. DOMAIN rows = 1..Len(rows) /\ Len(rows) \in Nat BY <4>1, LenProperties
      <4>3. Len(rows) = 0 BY <4>1, <4>2
      <4> QED BY <4>3 DEF rows
    <3> QED BY <1>3, <1>9, <1>11, <2>1, <2>3, <3>2, <3>5 DEF Choose
  <2> QED BY <2>4, <2>5
<1>12. CASE JobEnds
  <2>1. work[Job].step # "submit" /\ work'[Job] = Idle /\ \A q \in Runners : q # Job => work'[q] = work[q]
    BY <1>1, <1>3, <1>12 DEF JobEnds, TypeOK
  <2>2. Idle.step = "idle" BY <1>1, <1>3, WorkTypes
  <2> QED BY <1>3, <1>9, <1>12, <2>1, <2>2 DEF JobEnds
<1>13. CASE NextDay \/ UNCHANGED vars
  BY <1>1, <1>13, SameLogKept DEF NextDay, vars
<1>14. CASE Restart
  <2>1. \A q \in Runners : work'[q].step = "idle" BY <1>1, <1>14, WorkTypes DEF Restart
  <2>2. down \subseteq down' /\ \A q \in Runners : work[q].step = "submit" => work[q].tenant \in down'
    BY <1>1, <1>14 DEF Restart, TypeOK, InHand, Seated, Filer
  <2> QED BY <1>1, <1>14, <2>1, <2>2, SameLogKept DEF Restart
<1>15. Staff \subseteq Runners /\ Job \notin Staff /\ ByHand \subseteq Tenants /\ Nil \subseteq Datasets
  BY FilingAssumption DEF Runners
<1>16. ASSUME NEW s \in Staff, NEW t \in Tenants, GdiSubmit(s, t) PROVE Kept'
  <2>1. s \in Runners /\ s # Job /\ work[s].step # "submit"
    BY <1>15, <1>16 DEF GdiSubmit, Request, Idle
  <2>2. work'[s] = Begun(s, t, {}) /\ \A q \in Runners : q # s => work'[q] = work[q]
    BY <1>1, <1>16, <2>1 DEF GdiSubmit, TypeOK
  <2>3. /\ work'[s].step = "extract" /\ work'[s].tenant = t /\ work'[s].at = 1
        /\ work'[s].run = Len(log[t][s]) + 1
    BY <1>1, <2>1, <2>2, WorkTypes
  <2> QED BY <1>9, <1>16, <2>1, <2>2, <2>3 DEF GdiSubmit, Request, Event
<1>17. ASSUME NEW s \in Staff, NEW t \in Tenants, NEW dataset \in Datasets, GdiNil(s, t, dataset) PROVE Kept'
  <2> DEFINE n == Len(log[t][s])
             x == [run |-> n + 1, dataset |-> dataset, rows |-> FALSE, status |-> "pending", taken |-> FALSE]
             begun == Begun(s, t, {})
  <2>1. s \in Runners /\ s # Job /\ work[s].step # "submit"
    BY <1>15, <1>17 DEF GdiNil, Request, Idle
  <2>2. n \in Nat BY <1>2, <2>1 DEF Logs
  <2>3. x \in Row BY <2>2 DEF Row
  <2>4. Grown(t, s, x) BY <1>17 DEF GdiNil, Logged, Grown
  <2>5. \A i \in DOMAIN log[t][s] : log[t][s][i].run # x.run
    BY <2>1, <2>2 DEF Kept, RunsNumbered
  <2>6. begun \in Work /\ begun.tenant = t /\ begun.run = n + 1 BY <1>1, <2>1, WorkTypes
  <2>7. /\ work'[s] = [begun EXCEPT !.step = "submit", !.at = Len(DATASET_SEQUENCE), !.row = n + 1]
        /\ \A q \in Runners : q # s => work'[q] = work[q]
    BY <1>1, <1>17, <2>1 DEF GdiNil, TypeOK
  <2>8. /\ work'[s].step = "submit" /\ work'[s].tenant = t /\ work'[s].run = n + 1
        /\ work'[s].at = 5 /\ work'[s].row = n + 1
    <3> HIDE DEF begun, n
    <3> QED BY <2>6, <2>7, TheSequence DEF Work
  <2>9. x.run = n + 1 /\ x.rows = FALSE /\ x.status = "pending" OBVIOUS
  <2> HIDE DEF x
  <2>10. x.run <= Len(log[t][s]) + 1 /\ book' = book /\ down' = down
    BY <1>17, <2>2, <2>9 DEF GdiNil
  <2>11. /\ x.rows /\ x.dataset \in {"loan", "overdue"} => book[t].disbursed = "by_end"
         /\ work'[s].row = Len(log[t][s]) + 1 /\ work'[s].run = x.run /\ work'[s].at \in 1..5
    BY <2>8, <2>9
  <2> HIDE DEF n, begun
  <2>12. TypeOK' /\ (s = Job => FALSE) /\ \A q \in Runners : q # s => work'[q] = work[q]
    BY <1>1, <2>1, <2>7
  <2> QED BY <2>1, <2>3, <2>4, <2>5, <2>8, <2>9, <2>10, <2>11, <2>12, GrownKept
<1> QED
  BY <1>7, <1>8, <1>3, <1>10, <1>11, <1>12, <1>13, <1>14, <1>15, <1>16, <1>17 DEF Next, Job_Step---------------------------------------------------------------------------
THEOREM Keeps == Init /\ [][Next]_vars => []Kept
  BY KeptInit, KeptStep, PTL

(* The log, the books and the runs stay well formed. *)
THEOREM TypeCorrect == Spec => []TypeOK
<1>1. Kept => TypeOK BY DEF Kept
<1> QED BY <1>1, Keeps, PTL DEF Spec

(* For any DCPs, staff and days, whatever fails, restarts or is filed by   *)
(* hand: what the log shows as submitted is with the CBK, and what it      *)
(* shows as pending is under way unless a run broke off for that DCP.      *)
THEOREM LogIsTrue == Spec => []LogTells
<1>1. Kept => LogTells BY DEF Kept
<1> QED BY <1>1, Keeps, PTL DEF Spec

(* What the job itself gives the CBK of a month is in the sequence of the  *)
(* datasets, none twice: its rows are one run, through all its days.       *)
THEOREM FiledOnce == Spec => []JobFilesOnce
<1>1. Kept => JobFilesOnce
  <2> SUFFICES ASSUME Kept, NEW t \in Tenants, NEW i \in DOMAIN log[t][Job], NEW j \in DOMAIN log[t][Job], i < j
               PROVE  \E k, m \in DOMAIN DATASET_SEQUENCE :
                        /\ k < m /\ log[t][Job][i].dataset = DATASET_SEQUENCE[k]
                        /\ log[t][Job][j].dataset = DATASET_SEQUENCE[m]
    BY DEF JobFilesOnce
  <2>1. /\ i \in 1..5 /\ log[t][Job][i].dataset = DATASET_SEQUENCE[i]
        /\ j \in 1..5 /\ log[t][Job][j].dataset = DATASET_SEQUENCE[j]
    BY DEF Kept, JobInOrder
  <2> QED BY <2>1, TheSequence
<1> QED BY <1>1, Keeps, PTL DEF Spec

(* Of the datasets of a run that are not in error, overdue loans are among *)
(* the loans and loans have their customer, although other business goes   *)
(* on between two datasets: it makes neither a client nor a loan of the    *)
(* month that is filed.                                                    *)
THEOREM ReferencesHold == Spec => []ReferencesResolve
<1>1. Kept => ReferencesResolve
  <2> SUFFICES ASSUME Kept, NEW t \in Tenants, NEW r \in Runners,
                      NEW i \in DOMAIN log[t][r], NEW j \in DOMAIN log[t][r],
                      log[t][r][i].run = log[t][r][j].run, log[t][r][j].rows, log[t][r][i].status # "error"
               PROVE  /\ log[t][r][i].dataset = "customer" => log[t][r][j].dataset # "loan" \/ log[t][r][i].rows
                      /\ log[t][r][i].dataset = "loan" => log[t][r][j].dataset # "overdue" \/ log[t][r][i].rows
    BY DEF ReferencesResolve
  <2>1. i # j => Honest(t, log[t][r][i]) BY DEF Kept, RowsHonest
  <2>2. log[t][r][j].dataset \in {"loan", "overdue"} => book[t].disbursed = "by_end"
    BY DEF Kept, RowsTrue
  <2>3. book[t].disbursed = "by_end" => book[t].client = "by_end"
    BY DEF Kept, TypeOK, Orderly
  <2> QED BY <2>1, <2>2, <2>3 DEF Honest
<1> QED BY <1>1, Keeps, PTL DEF Spec
---------------------------------------------------------------------------
(***************************************************************************)
(* The figures of the reports (Portfolio), for every book of loans and     *)
(* every list of payments: functions, without states.                      *)
(***************************************************************************)
LoanFigures == [status : Status, due : Int, outstanding : Int, principal : Nat, rate : Nat]

(* The dashboard's portfolio at risk, its stages of credit loss and the     *)
(* classes of the regulator's return are three readings of one calendar:    *)
(* what is at risk for 90 days is in stage 3, which is just what is doubtful*)
(* or lost; what is at risk for 30 days and not defaulted is in stage 2 or 3*)
(* and nothing else is; stage 2 is the substandard.                         *)
THEOREM ViewsAgree ==
  ASSUME NEW L, NEW portfolio \in [L -> LoanFigures], NEW today \in Int,
         NEW l \in OpenLoans(portfolio), portfolio[l].outstanding > 0
  PROVE  /\ l \in AtRisk(portfolio, today, 90) => l \in InStage(portfolio, today, 3)
         /\ l \in InStage(portfolio, today, 3) <=> classify(portfolio[l], today) \in {"doubtful", "loss"}
         /\ l \in InStage(portfolio, today, 2) <=> classify(portfolio[l], today) = "substandard"
         /\ portfolio[l].status # "defaulted" =>
              (l \in AtRisk(portfolio, today, 30)
                 <=> l \in InStage(portfolio, today, 2) \cup InStage(portfolio, today, 3))
<1>1. /\ portfolio[l].status \in OpenStatus /\ portfolio[l].status # "paid"
      /\ portfolio[l].due \in Int /\ portfolio[l].outstanding \in Int /\ l \in DOMAIN portfolio
  BY DEF OpenLoans, OpenStatus, LoanFigures
<1> DEFINE late == today - portfolio[l].due
<1>2. late \in Int BY <1>1
<1>3. \A days \in {30, 90} : l \in AtRisk(portfolio, today, days) <=> late > days
  BY <1>1 DEF AtRisk
<1>4. \A n \in 1..3 : l \in InStage(portfolio, today, n) <=> Stage(portfolio[l], today) = n
  BY <1>1 DEF InStage
<1>5. CASE portfolio[l].status = "defaulted"
  <2>1. Stage(portfolio[l], today) = 3 BY <1>5 DEF Stage
  <2>2. classify(portfolio[l], today) = "loss" BY <1>1, <1>5 DEF classify
  <2> QED BY <1>4, <1>5, <2>1, <2>2
<1>6. CASE portfolio[l].status # "defaulted"
  <2>0. DaysPast(portfolio[l], today) = late BY DEF DaysPast
  <2>1. Stage(portfolio[l], today) = IF late > 90 THEN 3 ELSE IF late > 30 THEN 2 ELSE 1
    BY <1>2, <1>6, <2>0 DEF Stage
  <2>2. classify(portfolio[l], today) =
          IF late <= 0 THEN "normal" ELSE IF late <= 30 THEN "watch"
          ELSE IF late <= 90 THEN "substandard" ELSE IF late <= 180 THEN "doubtful" ELSE "loss"
    BY <1>1, <1>6, <2>0 DEF classify
  <2> HIDE DEF late
  <2> QED BY <1>2, <1>3, <1>4, <2>1, <2>2
<1> QED BY <1>5, <1>6

(* "COMPLIANT" is the only status a book with money out can have, were all  *)
(* of it in arrears: the proxies of capital_adequacy_csv put the ratio      *)
(* between 20 and 30 percent.  An empty book is the one that falls short.   *)
THEOREM CapitalNeverShort ==
  ASSUME NEW gross \in Nat, NEW npl \in 0..gross
  PROVE  compliant(gross, npl) <=> gross # 0
BY DEF compliant

(* Both windows that run_aml_scan slides over the sorted times find what    *)
(* they are for: any three payments, in any place, that lie within 48 hours,*)
(* and any five within 24.                                                  *)
THEOREM WindowsAreEnough ==
  ASSUME NEW times \in Seq(Int), NEW span \in Nat,
         \A i, j \in 1..Len(times) : i <= j => times[i] <= times[j]
  PROVE  /\ InARow(times, 3, span) <=>
              \E i, j, k \in 1..Len(times) : i < j /\ j < k /\ times[k] - times[i] <= span
         /\ InARow(times, 5, span) <=>
              \E a, b, c, d, e \in 1..Len(times) :
                /\ a < b /\ b < c /\ c < d /\ d < e
                /\ times[e] - times[a] <= span
<1>1. \A i \in 1..Len(times) : times[i] \in Int OBVIOUS
<1>2. Len(times) \in Nat OBVIOUS
<1>3. ASSUME NEW n \in {3, 5}, NEW i \in 1..Len(times), NEW k \in 1..Len(times),
             k - i >= n - 1, times[k] - times[i] <= span
      PROVE  InARow(times, n, span)
  <2>1. i \in 1..Len(times) - (n - 1) /\ i + n - 1 \in 1..Len(times) /\ i + n - 1 <= k
    BY <1>2, <1>3
  <2>2. times[i + n - 1] <= times[k] BY <2>1
  <2> QED BY <1>1, <1>3, <2>1, <2>2 DEF InARow
<1>4. ASSUME NEW n \in {3, 5}, InARow(times, n, span)
      PROVE  \E i \in 1..Len(times) : i + n - 1 \in 1..Len(times) /\ times[i + n - 1] - times[i] <= span
  <2>1. PICK i \in 1..Len(times) - (n - 1) : times[i + n - 1] - times[i] <= span
    BY <1>4 DEF InARow
  <2>2. i \in 1..Len(times) /\ i + n - 1 \in 1..Len(times) BY <1>2, <2>1
  <2> QED BY <2>1, <2>2
<1>5. ASSUME InARow(times, 3, span)
      PROVE  \E i, j, k \in 1..Len(times) : i < j /\ j < k /\ times[k] - times[i] <= span
  <2>1. PICK i \in 1..Len(times) : i + 2 \in 1..Len(times) /\ times[i + 2] - times[i] <= span
    BY <1>4, <1>5
  <2>2. i + 1 \in 1..Len(times) /\ i < i + 1 /\ i + 1 < i + 2 BY <1>2, <2>1
  <2> QED BY <2>1, <2>2
<1>6. ASSUME InARow(times, 5, span)
      PROVE  \E a, b, c, d, e \in 1..Len(times) :
               /\ a < b /\ b < c /\ c < d /\ d < e
               /\ times[e] - times[a] <= span
  <2>1. PICK a \in 1..Len(times) : a + 4 \in 1..Len(times) /\ times[a + 4] - times[a] <= span
    BY <1>4, <1>6
  <2>2. /\ a + 1 \in 1..Len(times) /\ a + 2 \in 1..Len(times) /\ a + 3 \in 1..Len(times)
        /\ a < a + 1 /\ a + 1 < a + 2 /\ a + 2 < a + 3 /\ a + 3 < a + 4
    BY <1>2, <2>1
  <2> QED BY <2>1, <2>2
<1>7. ASSUME NEW i \in 1..Len(times), NEW j \in 1..Len(times), NEW k \in 1..Len(times),
             i < j, j < k, times[k] - times[i] <= span
      PROVE  InARow(times, 3, span)
  <2>1. k - i >= 3 - 1 BY <1>2, <1>7
  <2> QED BY <1>3, <1>7, <2>1
<1>8. ASSUME NEW a \in 1..Len(times), NEW b \in 1..Len(times), NEW c \in 1..Len(times),
             NEW d \in 1..Len(times), NEW e \in 1..Len(times),
             a < b, b < c, c < d, d < e, times[e] - times[a] <= span
      PROVE  InARow(times, 5, span)
  <2>1. e - a >= 5 - 1 BY <1>2, <1>8
  <2> QED BY <1>3, <1>8, <2>1
<1> QED BY <1>5, <1>6, <1>7, <1>8
=============================================================================
