----------------------------- MODULE Messaging -----------------------------
(***************************************************************************)
(* The messages of a loan's life: the jobs that remind, alert and default  *)
(* (routers/notifications.py), the switch, hour, templates and opt-outs a  *)
(* DCP sets (routers/messaging.py), one message against the provider and   *)
(* its row in sms_logs (services/sms.py), and the provider's delivery      *)
(* reports (routers/integrations.py).                                      *)
(*                                                                         *)
(* A job runs in one transaction per DCP.  Its messages leave at once; its *)
(* rows and its changes of status are seen by others at the commit.  A     *)
(* change reaches the database, and locks the loan's row, when the next    *)
(* message has left and the session is flushed.  A lookup of the template  *)
(* or the register that fails lets the message go; if it was the database  *)
(* that failed, the transaction is lost, and the flush says so.            *)
(***************************************************************************)
EXTENDS Naturals, Sequences, FiniteSets, SequencesExt, Functions

CONSTANTS Tenants,       \* the DCPs, by number
          Loans,
          TenantOf, PhoneOf, Due,   \* of each loan; Due is a day
          Hours,         \* the hours a DCP may choose, and the default
          DefaultHour,
          LastDay,       \* bound: the days go 0..LastDay, and the last repeats
          ReminderDays, GraceDays,
          Cron, Staff,   \* who runs jobs: the hourly calls, people
          Batches,       \* what people run: all legs, or one
          MaxMessages,   \* bound: messages that are recorded
          MaxFaults,     \* bound: refusals, lost answers, failures, restarts
          MaxChanges     \* bound: changes of settings, payments, calls

Runners == Cron \cup Staff
Phones == {PhoneOf[l] : l \in Loans}
Legs == <<"repayment_reminder", "overdue_alert", "defaulted">>
SUPPRESSIBLE_EVENTS == ToSet(Legs)
Notices == {"payment_receipt", "ticket_resolution"}
NoTenant == 0

ASSUME MessagingAssumption ==
  /\ Tenants \subseteq Nat \ {NoTenant} /\ IsFiniteSet(Tenants)
  /\ TenantOf \in [Loans -> Tenants]
  /\ Due \in [Loans -> Nat]
  /\ DefaultHour \in Hours
  /\ LastDay \in Nat /\ MaxMessages \in Nat /\ MaxFaults \in Nat /\ MaxChanges \in Nat
  /\ Cron \cap Staff = {}
  /\ Batches \subseteq {Legs} \cup {<<event>> : event \in SUPPRESSIBLE_EVENTS}

VARIABLES
  day,
  status,       \* of each loan: "active", "overdue", "defaulted", "paid"
  owing,        \* the loans with a balance
  automation,   \* of each DCP: enabled, and at which hour
  off,          \* <<tenant, event>>: the templates switched off
  optout,       \* <<tenant, phone>>: the register
  late,         \* history: what each runner sent an opted-out <<tenant, phone>>
                \* without a lookup that failed
  work,         \* what each runner is at
  messages,     \* every dispatch, in order, and its row
  faults, changes

settings == <<automation, off, optout>>
loans == <<status, owing>>
vars == <<day, loans, settings, late, work, messages, faults, changes>>

Idle == [job |-> "idle", hour |-> DefaultHour, tenant |-> NoTenant,
         legs |-> <<>>, event |-> "none", todo |-> <<>>, flips |-> <<>>,
         held |-> {}, sending |-> {}, lookup |-> "read", flushing |-> FALSE]

Status == {"active", "overdue", "defaulted", "paid"}
\* How the lookups for a message went: read, failed, or failed in the database,
\* which ends the transaction.
Lookups == {"read", "failed", "broken"}

\* get_automation_config: without a row a DCP is enabled, at the default hour.
Init ==
  /\ day = 0
  /\ status = [l \in Loans |-> "active"] /\ owing = Loans
  /\ automation = [t \in Tenants |-> [enabled |-> TRUE, hour |-> DefaultHour]]
  /\ off = {} /\ optout = {}
  /\ late = [r \in Runners |-> [x \in Tenants \X Phones |-> 0]]
  /\ work = [r \in Runners |-> Idle]
  /\ messages = <<>> /\ faults = 0 /\ changes = 0
----------------------------------------------------------------------------
\* The clock.  The days after the last are like the last.
Tick ==
  /\ day < LastDay /\ day' = day + 1
  /\ UNCHANGED <<loans, settings, late, work, messages, faults, changes>>
----------------------------------------------------------------------------
\* The loans a leg's query finds, as the runner's transaction sees them:
\* its own flushed changes and what others have committed.
Seen(r, l) == IF l \in DOMAIN work[r].flips THEN work[r].flips[l] ELSE status[l]

InLegFault(event, s, l) ==   \* a fault: only what is still active defaults
  CASE event = "repayment_reminder" -> s = "active" /\ Due[l] \in day..(day + ReminderDays)
    [] event = "overdue_alert" -> s \in {"active", "overdue"} /\ Due[l] < day
    [] event = "defaulted" -> s = "active" /\ Due[l] + GraceDays < day

InLeg(event, s, l) ==
  CASE event = "repayment_reminder" -> s = "active" /\ Due[l] \in day..(day + ReminderDays)
    [] event = "overdue_alert" -> s \in {"active", "overdue"} /\ Due[l] < day
    [] event = "defaulted" -> s \in {"active", "overdue"} /\ Due[l] + GraceDays < day

Found(r, event) ==
  {l \in owing : TenantOf[l] = work[r].tenant /\ InLeg(event, Seen(r, l), l)}

\* What a leg makes of a loan before it tells the borrower.
Flipped(event, s) ==
  CASE event = "overdue_alert" /\ s = "active" -> "overdue"
    [] event = "defaulted" -> "defaulted"
    [] OTHER -> s

\* Where a DCP has no row of its own a template is the built-in one, and on.
TemplateOff(t, event) == <<t, event>> \in off
OptedOut(t, phone) == <<t, phone>> \in optout

SuppressedFault(t, phone, event) == TemplateOff(t, event)   \* a fault: no register

\* _fire: the template's switch, then the register for what may be suppressed.
Suppressed(t, phone, event) ==
  \/ TemplateOff(t, event)
  \/ event \in SUPPRESSIBLE_EVENTS /\ OptedOut(t, phone)

\* A row another transaction has written waits for its commit.
Free(r, ls) == \A s \in Runners \ {r} : ls \cap work[s].held = {}
----------------------------------------------------------------------------
\* _dispatch_to_provider.  What each attempt comes to: how many messages the
\* provider took, and what the caller is told.  A refused token is renewed and
\* the message sent once more; a lost answer is a failure and is not repeated.
Attempts == {[taken |-> 1, told |-> "sent"], [taken |-> 0, told |-> "failed"],
             [taken |-> 1, told |-> "failed"]}
BadToken == [taken |-> 0, told |-> "bad_token"]
DispatchedFault(first, second) ==   \* a fault: any failure is tried again
  IF first.told # "sent"
  THEN [taken |-> first.taken + second.taken, told |-> second.told]
  ELSE first

Dispatched(first, second) ==
  IF first.told = "bad_token"
  THEN [taken |-> first.taken + second.taken, told |-> second.told]
  ELSE first
Cost(first, second) == IF Dispatched(first, second).told = "sent" THEN 0 ELSE 1

\* send_sms: of the row its DCP and what became of the message; it is billable
\* when the provider said the message is sent.
Message(t, by, answer, row) ==
  [tenant |-> t, by |-> by, taken |-> answer.taken, status |-> answer.told,
   billable |-> answer.told = "sent", row |-> row, delivery |-> "unknown"]

Record(m) ==
  messages' = IF Len(messages) < MaxMessages THEN Append(messages, m) ELSE messages

\* The rows of a runner's transaction, at its end.
Settle(rs, row) ==
  messages' = [i \in DOMAIN messages |->
                 IF messages[i].by \in rs /\ messages[i].row = "open"
                 THEN [messages[i] EXCEPT !.row = row] ELSE messages[i]]

Put(r, w) == work' = [work EXCEPT ![r] = w]
Fault(n) == faults + n <= MaxFaults /\ faults' = faults + n
Change == changes < MaxChanges /\ changes' = changes + 1
----------------------------------------------------------------------------
\* run_all_jobs, called every hour: the DCPs in the order of their ids, each
\* with its switch and its hour read as its turn comes.
NextDue(t, h) ==
  LET due == {u \in Tenants : u > t /\ automation[u] = [enabled |-> TRUE, hour |-> h]}
  IN IF due = {} THEN NoTenant ELSE Min(due)

RunOf(t, h) == IF t = NoTenant THEN Idle
               ELSE [Idle EXCEPT !.job = "all", !.hour = h, !.tenant = t, !.legs = Legs]

StartAll(r, hour) ==
  /\ work[r] = Idle
  /\ Put(r, RunOf(NextDue(NoTenant, hour), hour))
  /\ UNCHANGED <<day, loans, settings, late, messages, faults, changes>>

\* run_now (all legs, whatever the switch says) and the endpoints of one leg.
RunNow(r, t, legs) ==
  /\ work[r] = Idle /\ Change
  /\ Put(r, [Idle EXCEPT !.job = "one", !.tenant = t, !.legs = legs])
  /\ UNCHANGED <<day, loans, settings, late, messages, faults>>

Resting(r) == /\ work[r].tenant # NoTenant /\ work[r].todo = <<>>
              /\ work[r].sending = {} /\ ~work[r].flushing

\* The query of a leg.
EnterLeg(r) ==
  LET w == work[r]
      event == Head(w.legs)
  IN /\ Resting(r) /\ w.legs # <<>>
     /\ Put(r, [w EXCEPT !.legs = Tail(@), !.event = event,
                         !.todo = [l \in Found(r, event) |-> Seen(r, l)]])
     /\ UNCHANGED <<day, loans, settings, late, messages, faults, changes>>

\* One loan of the leg: its status in the session, and whether it is told.
Turn(r, l, sending, lookup) ==
  LET w == work[r]
      s == Flipped(w.event, w.todo[l])
  IN /\ w.sending = {} /\ ~w.flushing /\ l \in DOMAIN w.todo
     /\ Put(r, [w EXCEPT
          !.todo = Restrict(@, DOMAIN @ \ {l}),
          !.flips = IF s = w.todo[l] THEN @
                    ELSE [k \in DOMAIN @ \cup {l} |-> IF k = l THEN s ELSE @[k]],
          !.sending = sending, !.lookup = lookup])

Visit(r, l) ==
  /\ LET w == work[r]
     IN Turn(r, l, IF Suppressed(w.tenant, PhoneOf[l], w.event) THEN {} ELSE {l}, "read")
  /\ UNCHANGED <<day, loans, settings, late, messages, faults, changes>>

\* get_template and is_opted_out take any error for "on" and "not opted out".
VisitBlind(r, l, lookup) ==
  /\ Fault(1) /\ Turn(r, l, {l}, lookup)
  /\ UNCHANGED <<day, loans, settings, late, messages, changes>>

\* The dispatch, which waits for nothing, and the flush of its row with the
\* changes made so far, which waits for theirs and fails in a broken transaction.
Send(r, first, second) ==
  LET w == work[r]
      through == w.lookup # "broken" /\ Free(r, DOMAIN w.flips)
  IN /\ w.sending # {}
     /\ Fault(Cost(first, second))
     /\ \E l \in w.sending :
          /\ Record(Message(w.tenant, r, Dispatched(first, second), "open"))
          /\ late' = IF w.lookup = "read" /\ OptedOut(w.tenant, PhoneOf[l])
                     THEN [late EXCEPT ![r][<<w.tenant, PhoneOf[l]>>] = @ + 1] ELSE late
     /\ Put(r, [w EXCEPT !.sending = {}, !.flushing = ~through,
                         !.lookup = IF @ = "broken" THEN @ ELSE "read",
                         !.held = IF through THEN DOMAIN w.flips ELSE @])
     /\ UNCHANGED <<day, loans, settings, changes>>

\* The end of the wait.
Flush(r) ==
  LET w == work[r]
  IN /\ w.flushing /\ w.lookup # "broken" /\ Free(r, DOMAIN w.flips)
     /\ Put(r, [w EXCEPT !.held = DOMAIN w.flips, !.flushing = FALSE])
     /\ UNCHANGED <<day, loans, settings, late, messages, faults, changes>>

\* What is left of a job when the transaction of a DCP is over.
Rest(w) == IF w.job = "all" THEN RunOf(NextDue(w.tenant, w.hour), w.hour) ELSE Idle

CommitFault(r) ==   \* a fault: one commit, when the last DCP is through
  LET w == work[r]
  IN /\ Resting(r) /\ w.legs = <<>>
     /\ Free(r, DOMAIN w.flips)
     /\ status' = [l \in Loans |-> IF l \in DOMAIN w.flips THEN w.flips[l] ELSE status[l]]
     /\ IF Rest(w) = Idle THEN Settle({r}, "kept") ELSE UNCHANGED messages
     /\ Put(r, Rest(w))
     /\ UNCHANGED <<day, owing, settings, late, faults, changes>>

\* The commit, per DCP.
Commit(r) ==
  LET w == work[r]
  IN /\ Resting(r) /\ w.legs = <<>>
     /\ Free(r, DOMAIN w.flips)
     /\ status' = [l \in Loans |-> IF l \in DOMAIN w.flips THEN w.flips[l] ELSE status[l]]
     /\ Settle({r}, "kept")
     /\ Put(r, Rest(w))
     /\ UNCHANGED <<day, owing, settings, late, faults, changes>>

\* Two transactions that wait for each other's rows: the database ends one.
Waits(r) ==
  /\ work[r].flushing \/ (Resting(r) /\ work[r].legs = <<>>)
  /\ ~ Free(r, DOMAIN work[r].flips)
Deadlocked(r) == Waits(r) /\ \E s \in Runners \ {r} : Waits(s)

\* A flush in a transaction that a lookup has broken.
Lost(r) == work[r].flushing /\ work[r].lookup = "broken"

\* An error in the transaction: rolled back; the all-tenants runner goes on.
Fail(r) ==
  /\ work[r].tenant # NoTenant
  /\ IF Deadlocked(r) \/ Lost(r) THEN UNCHANGED faults ELSE Fault(1)
  /\ Settle({r}, "void")
  /\ Put(r, Rest(work[r]))
  /\ UNCHANGED <<day, loans, settings, late, changes>>

\* The server restarts: no job survives, no open row is kept.
Restart ==
  /\ Fault(1)
  /\ Settle(Runners, "void")
  /\ work' = [r \in Runners |-> Idle]
  /\ UNCHANGED <<day, loans, settings, late, changes>>
----------------------------------------------------------------------------
\* A message of another request, which commits with it: a receipt from its
\* template, a resolved complaint in fixed words.  The register does not apply; a
\* template that is off goes all the same when its lookup fails.
Notice(l, event, first, second) ==
  LET t == TenantOf[l]
  IN /\ Change
     /\ Fault(Cost(first, second) + IF Suppressed(t, PhoneOf[l], event) THEN 1 ELSE 0)
     /\ Record(Message(t, "request", Dispatched(first, second), "kept"))
     /\ UNCHANGED <<day, loans, settings, late, work>>

\* The borrower pays all: the row is locked for it, so a job's write is over.
Pay(l) ==
  /\ l \in owing /\ Change
  /\ \A r \in Runners : l \notin work[r].held
  /\ owing' = owing \ {l} /\ status' = [status EXCEPT ![l] = "paid"]
  /\ UNCHANGED <<day, settings, late, work, messages, faults>>

SetAutomation(t, enabled, h) ==
  /\ Change
  /\ automation' = [automation EXCEPT ![t] = [enabled |-> enabled, hour |-> h]]
  /\ UNCHANGED <<day, loans, off, optout, late, work, messages, faults>>

\* upsert_template: active or not.
SetTemplate(t, event, active) ==
  /\ Change
  /\ off' = IF active THEN off \ {<<t, event>>} ELSE off \cup {<<t, event>>}
  /\ UNCHANGED <<day, loans, automation, optout, late, work, messages, faults>>

OptOut(t, phone) ==
  /\ optout' = optout \cup {<<t, phone>>}
  /\ UNCHANGED <<day, loans, automation, off, late, work, messages, faults, changes>>

OptIn(t, phone) ==
  /\ <<t, phone>> \in optout
  /\ optout' = optout \ {<<t, phone>>}
  /\ late' = [r \in Runners |-> [late[r] EXCEPT ![<<t, phone>>] = 0]]
  /\ UNCHANGED <<day, loans, automation, off, work, messages, faults, changes>>

\* What the provider's words for a delivery come down to.
Deliveries == {"delivered", "failed"}

\* A delivery report: any number of them, in any order, for a message the
\* provider has taken.  It finds a committed row that has the provider's id.
Report(i, delivery) ==
  /\ messages[i].taken > 0
  /\ messages[i].row = "kept" /\ messages[i].status = "sent"
  /\ messages' = [messages EXCEPT ![i].delivery = delivery]
  /\ UNCHANGED <<day, loans, settings, late, work, faults, changes>>

\* sms_usage: what a DCP is told, and billed.
Usage(t) ==
  LET rows == {i \in DOMAIN messages : messages[i].tenant = t /\ messages[i].row = "kept"}
  IN [sent |-> Cardinality({i \in rows : messages[i].status = "sent"}),
      delivered |-> Cardinality({i \in rows : messages[i].delivery = "delivered"}),
      billable |-> Cardinality({i \in rows : messages[i].billable})]
----------------------------------------------------------------------------
Job(r) ==
  \/ EnterLeg(r) \/ Flush(r) \/ Commit(r)
  \/ \E l \in Loans : Visit(r, l) \/ \E lookup \in {"failed", "broken"} : VisitBlind(r, l, lookup)
  \/ \E first \in Attempts \cup {BadToken}, second \in Attempts : Send(r, first, second)

Next ==
  \/ Tick
  \/ \E r \in Cron, hour \in Hours : StartAll(r, hour)
  \/ \E r \in Staff, t \in Tenants :
       \E legs \in Batches : RunNow(r, t, legs)
  \/ \E r \in Runners : Job(r) \/ Fail(r)
  \/ Restart
  \/ \E l \in Loans, event \in Notices,
        first \in Attempts \cup {BadToken}, second \in Attempts : Notice(l, event, first, second)
  \/ \E l \in Loans : Pay(l)
  \/ \E t \in Tenants, enabled \in BOOLEAN, h \in Hours : SetAutomation(t, enabled, h)
  \/ \E l \in Loans, event \in SUPPRESSIBLE_EVENTS, active \in BOOLEAN :
       SetTemplate(TenantOf[l], event, active)
  \/ \E l \in Loans : OptOut(TenantOf[l], PhoneOf[l]) \/ OptIn(TenantOf[l], PhoneOf[l])
  \/ \E i \in DOMAIN messages, delivery \in Deliveries : Report(i, delivery)

\* Somebody calls run-all every hour (two calls may overlap: Cron may have several
\* members); the server works jobs off (who waits for a row is next in its queue).
Spec == Init /\ [][Next]_vars

Fairness ==
  /\ \A r \in Runners : SF_vars(Job(r)) /\ WF_vars((Deadlocked(r) \/ Lost(r)) /\ Fail(r))
  /\ \A r \in Cron, hour \in Hours : SF_vars(StartAll(r, hour))

FairSpec == Spec /\ Fairness
----------------------------------------------------------------------------
TypeOK ==
  /\ day \in 0..LastDay
  /\ status \in [Loans -> Status] /\ owing \subseteq Loans
  /\ automation \in [Tenants -> [enabled : BOOLEAN, hour : Hours]]
  /\ off \subseteq Tenants \X SUPPRESSIBLE_EVENTS
  /\ optout \subseteq Tenants \X Phones
  /\ late \in [Runners -> [Tenants \X Phones -> Nat]]
  /\ \A r \in Runners :
       LET w == work[r]
       IN /\ w.tenant \in Tenants \cup {NoTenant}
          /\ DOMAIN w.todo \cup DOMAIN w.flips \subseteq Loans
          /\ w.held \subseteq DOMAIN w.flips
          /\ w.sending \subseteq Loans /\ w.flushing \in BOOLEAN /\ w.lookup \in Lookups
  /\ Len(messages) <= MaxMessages
  /\ faults \in 0..MaxFaults /\ changes \in 0..MaxChanges

\* A message is handed to the provider at most once, however its token and the
\* answer fare, and the usage report adds up: what was delivered is at most what
\* was sent, what was sent is what is billed, and no more than was taken.
UsageAddsUp ==
  /\ \A i \in DOMAIN messages : messages[i].taken <= 1
  /\ \A t \in Tenants :
       LET u == Usage(t)
       IN /\ u.delivered <= u.sent /\ u.sent = u.billable
          /\ u.billable <= Cardinality({i \in DOMAIN messages : /\ messages[i].tenant = t
                                                                /\ messages[i].taken > 0})

\* The commit is per DCP, so that one DCP's failure cannot undo another's
\* rows: a row is lost only where its own DCP's transaction failed.
FailuresStayApart ==
  [][\A i \in DOMAIN messages :
       (messages'[i].row = "void" /\ messages[i].row # "void")
         => \E r \in Runners : /\ messages[i].by = r
                               /\ messages[i].tenant = work[r].tenant]_vars

\* Whoever opts out is left alone: the register is read for every message, so
\* each runner sends at most the one that was under way when they opted out, unless
\* a lookup fails: every one that does lets a message go ("fail-open, sending").
QuietAfterOptOut ==
  \A r \in Runners, x \in Tenants \X Phones : late[r][x] <= 1

\* A loan past its grace period is defaulted or paid in the end, through any
\* failures, restarts and waits for rows, when its DCP's automation stays on.
EndsDefaulted ==
  \A l \in Loans :
    <>[]automation[TenantOf[l]].enabled
      => []((l \in owing /\ Due[l] + GraceDays < day)
              => <>(status[l] = "defaulted" \/ l \notin owing))
============================================================================
