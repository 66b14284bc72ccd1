-------------------------- MODULE MessagingProofs --------------------------
(***************************************************************************)
(* Theorems about Messaging, for any DCPs, loans, phones, jobs and bounds. *)
(* Kept relates the rows of the messages to what the provider took, and    *)
(* the messages under way to the register; it is inductive.                *)
(***************************************************************************)
EXTENDS Messaging, FiniteSetTheorems, SequenceTheorems, WellFoundedInduction, TLAPS

(* A row of sms_logs: billable is what was sent, what was sent was taken,  *)
(* only a sent message can be reported delivered, and nothing is handed    *)
(* over twice.                                                             *)
Rows ==
  {m \in [tenant : Tenants, by : Runners \cup {"request"}, taken : {0, 1}, status : {"sent", "failed"},
          billable : BOOLEAN, row : {"open", "kept", "void"},
          delivery : {"unknown"} \cup Deliveries] :
     /\ m.billable = (m.status = "sent")
     /\ m.status = "sent" => m.taken = 1
     /\ m.delivery = "delivered" => m.status = "sent"}

Statuses == UNION {[S -> Status] : S \in SUBSET Loans}   \* of some of the loans

Work ==
  [job : {"idle", "all", "one"}, hour : Hours, tenant : Tenants \cup {NoTenant},
   legs : Seq(SUPPRESSIBLE_EVENTS), event : SUPPRESSIBLE_EVENTS \cup {"none"},
   todo : Statuses, flips : Statuses, held : SUBSET Loans, sending : SUBSET Loans,
   lookup : Lookups, flushing : BOOLEAN]

MessagesTrue == messages \in Seq(Rows)

(* What a job does it does for a DCP, in a leg. *)
Jobs ==
  {w \in Work : /\ w.held \subseteq DOMAIN w.flips
                /\ DOMAIN w.todo # {} \/ w.sending # {}
                     => w.tenant # NoTenant /\ w.event \in SUPPRESSIBLE_EVENTS}

AtWork == work \in [Runners -> Jobs]

(* A row that is not committed is of the transaction under way. *)
OpenRows ==
  \A i \in DOMAIN messages :
    messages[i].row = "open" =>
      \E r \in Runners : messages[i].by = r /\ messages[i].tenant = work[r].tenant

(* Who was sent a message after opting out is in the register, was sent    *)
(* one, and the job has none for them under way but by a lookup that failed. *)
LateOnce ==
  \A r \in Runners, x \in Tenants \X Phones :
    late[r][x] # 0 =>
      /\ late[r][x] = 1 /\ x \in optout
      /\ work[r].lookup = "read" =>
           \A l \in work[r].sending : <<work[r].tenant, PhoneOf[l]>> # x

Kept == TypeOK /\ MessagesTrue /\ AtWork /\ OpenRows /\ LateOnce
---------------------------------------------------------------------------
LEMMA TheLegs ==
  /\ SUPPRESSIBLE_EVENTS = {"repayment_reminder", "overdue_alert", "defaulted"}
  /\ Legs \in Seq(SUPPRESSIBLE_EVENTS)
  /\ \A batch \in Batches : batch \in Seq(SUPPRESSIBLE_EVENTS)
<1>1. DOMAIN Legs = {1, 2, 3} BY DEF Legs
<1>2. SUPPRESSIBLE_EVENTS = {"repayment_reminder", "overdue_alert", "defaulted"}
  BY <1>1 DEF SUPPRESSIBLE_EVENTS, ToSet, Legs
<1>3. Legs \in Seq(SUPPRESSIBLE_EVENTS) BY <1>2 DEF Legs
<1>4. \A event \in SUPPRESSIBLE_EVENTS : <<event>> \in Seq(SUPPRESSIBLE_EVENTS) OBVIOUS
<1> QED BY <1>2, <1>3, <1>4, MessagingAssumption

(* The next DCP that is due is one, and the least number of a set is in it. *)
LEMMA NextDueType == \A t, h : NextDue(t, h) \in Tenants \cup {NoTenant}
<1>1. ASSUME NEW due, due \subseteq Nat, due # {}
      PROVE  Min(due) \in due
  <2>1. PICK x \in due : \A y \in due : ~(<<y, x>> \in OpToRel(<, Nat))
    BY <1>1, NatLessThanWellFounded, WFMin
  <2>2. \A y \in due : ~(y < x) BY <1>1, <2>1 DEF OpToRel
  <2>3. \A y \in due : x <= y BY <1>1, <2>2
  <2> QED BY <2>3 DEF Min
<1>2. Tenants \subseteq Nat BY MessagingAssumption
<1> TAKE t, h
<1> DEFINE due == {u \in Tenants : u > t /\ automation[u] = [enabled |-> TRUE, hour |-> h]}
<1>3. NextDue(t, h) = IF due = {} THEN NoTenant ELSE Min(due) BY DEF NextDue
<1>4. due \subseteq Tenants OBVIOUS
<1> HIDE DEF due
<1> QED BY <1>1, <1>2, <1>3, <1>4

LEMMA NoStatuses == <<>> \in Statuses /\ DOMAIN <<>> = {}
<1>1. <<>> = [x \in {} |-> {}] OBVIOUS
<1>2. DOMAIN <<>> = {} BY <1>1
<1>3. <<>> \in [{} -> Status] BY <1>1
<1> QED BY <1>2, <1>3 DEF Statuses

LEMMA StatusesAre ==
  \A f : f \in Statuses <=> /\ f = [l \in DOMAIN f |-> f[l]] /\ DOMAIN f \subseteq Loans
                            /\ \A l \in DOMAIN f : f[l] \in Status
<1>1. ASSUME NEW f, f \in Statuses
      PROVE  /\ f = [l \in DOMAIN f |-> f[l]] /\ DOMAIN f \subseteq Loans
             /\ \A l \in DOMAIN f : f[l] \in Status
  <2>1. PICK S \in SUBSET Loans : f \in [S -> Status] BY <1>1 DEF Statuses
  <2> QED BY <2>1
<1>2. ASSUME NEW f, f = [l \in DOMAIN f |-> f[l]], DOMAIN f \subseteq Loans,
             \A l \in DOMAIN f : f[l] \in Status
      PROVE  f \in Statuses
  <2>1. f \in [DOMAIN f -> Status] BY <1>2
  <2> QED BY <1>2, <2>1 DEF Statuses
<1> QED BY <1>1, <1>2

LEMMA IdleType ==
  /\ Idle \in Work /\ Idle.tenant = NoTenant /\ Idle.sending = {} /\ Idle.held = {}
  /\ Idle.todo = <<>> /\ Idle.flips = <<>>
<1>1. <<>> \in Seq(SUPPRESSIBLE_EVENTS) OBVIOUS
<1> DEFINE nothing == <<>>
<1>2. nothing \in Statuses /\ nothing \in Seq(SUPPRESSIBLE_EVENTS) BY <1>1, NoStatuses
<1> HIDE DEF nothing
<1>3. Idle = [job |-> "idle", hour |-> DefaultHour, tenant |-> NoTenant, legs |-> nothing, event |-> "none",
              todo |-> nothing, flips |-> nothing, held |-> {}, sending |-> {},
              lookup |-> "read", flushing |-> FALSE]
  BY DEF Idle, nothing
<1>4. DefaultHour \in Hours BY MessagingAssumption
<1>5. Idle \in Work BY <1>2, <1>3, <1>4 DEF Work, Lookups
<1> QED BY <1>3, <1>5 DEF nothing

(* A job that has just been given a DCP, or none. *)
Fresh(w) == /\ w \in Work /\ w.held = {} /\ w.sending = {} /\ DOMAIN w.todo = {}

LEMMA FreshJobs ==
  /\ Fresh(Idle)
  /\ \A t : \A h \in Hours : Fresh(RunOf(NextDue(t, h), h))
  /\ \A t \in Tenants, legs \in Batches : Fresh([Idle EXCEPT !.job = "one", !.tenant = t, !.legs = legs])
  /\ \A w \in Work : Fresh(Rest(w))
<1>1. Fresh(Idle) BY IdleType, NoStatuses DEF Fresh
<1>2. ASSUME NEW t \in Tenants, NEW legs \in Seq(SUPPRESSIBLE_EVENTS), NEW job \in {"one", "all"}
      PROVE  Fresh([Idle EXCEPT !.job = job, !.tenant = t, !.legs = legs])
  BY <1>1 DEF Fresh, Work
<1>3. ASSUME NEW t, NEW h \in Hours PROVE Fresh(RunOf(NextDue(t, h), h))
  <2>1. CASE NextDue(t, h) = NoTenant BY <1>1, <2>1 DEF RunOf
  <2>2. CASE NextDue(t, h) # NoTenant
    <3> DEFINE u == NextDue(t, h)
    <3>1. u \in Tenants BY <2>2, NextDueType
    <3>2. RunOf(u, h) = [Idle EXCEPT !.job = "all", !.hour = h, !.tenant = u, !.legs = Legs]
      BY <2>2 DEF RunOf
    <3> HIDE DEF u
    <3>3. Fresh(RunOf(u, h)) BY <1>1, <3>1, <3>2, TheLegs DEF Fresh, Work
    <3> QED BY <3>3 DEF u
  <2> QED BY <2>1, <2>2
<1>4. ASSUME NEW w \in Work PROVE Fresh(Rest(w))
  <2>1. w.hour \in Hours BY DEF Work
  <2> QED BY <1>1, <1>3, <2>1 DEF Rest
<1> QED BY <1>1, <1>2, <1>3, <1>4, TheLegs
---------------------------------------------------------------------------
(* What the log of messages becomes. *)
Answers == {a \in [taken : {0, 1}, told : {"sent", "failed"}] : a.told = "sent" => a.taken = 1}

LEMMA AnswerType ==
  \A first \in Attempts \cup {BadToken}, second \in Attempts : Dispatched(first, second) \in Answers
<1> TAKE first \in Attempts \cup {BadToken}, second \in Attempts
<1>1. CASE first \in Attempts
  BY <1>1 DEF Attempts, Dispatched, Answers
<1>2. CASE first = BadToken
  <2>1. second.taken \in {0, 1} /\ second.told \in {"sent", "failed"}
        /\ (second.told = "sent" => second.taken = 1)
    BY DEF Attempts
  <2>2. Dispatched(first, second) = [taken |-> 0 + second.taken, told |-> second.told]
    BY <1>2 DEF Dispatched, BadToken
  <2> QED BY <2>1, <2>2 DEF Answers
<1> QED BY <1>1, <1>2

LEMMA CostType == \A first, second : Cost(first, second) \in {0, 1}
  BY DEF Cost

LEMMA RecordType ==
  ASSUME MessagesTrue, Len(messages) <= MaxMessages, NEW m \in Rows, Record(m)
  PROVE  /\ MessagesTrue' /\ Len(messages') <= MaxMessages
         /\ \A i \in DOMAIN messages : i \in DOMAIN messages' /\ messages'[i] = messages[i]
         /\ \A i \in DOMAIN messages' : i \in DOMAIN messages \/ messages'[i] = m
<1> USE MessagingAssumption DEF MessagesTrue
<1>1. CASE Len(messages) < MaxMessages
  <2>1. messages' = Append(messages, m) BY <1>1 DEF Record
  <2>2. /\ messages' \in Seq(Rows) /\ Len(messages') = Len(messages) + 1
        /\ \A i \in 1..Len(messages) : messages'[i] = messages[i]
        /\ messages'[Len(messages) + 1] = m
    BY <2>1
  <2>3. DOMAIN messages = 1..Len(messages) /\ DOMAIN messages' = 1..Len(messages') /\ Len(messages) \in Nat
    BY <2>2, LenProperties
  <2> QED BY <1>1, <2>2, <2>3
<1>2. CASE ~(Len(messages) < MaxMessages)
  BY <1>2 DEF Record
<1> QED BY <1>1, <1>2

LEMMA SettleType ==
  ASSUME MessagesTrue, NEW rs, NEW row \in {"kept", "void"}, Settle(rs, row)
  PROVE  /\ MessagesTrue' /\ DOMAIN messages' = DOMAIN messages /\ Len(messages') = Len(messages)
         /\ \A i \in DOMAIN messages :
              /\ messages'[i].by = messages[i].by /\ messages'[i].tenant = messages[i].tenant
              /\ messages'[i].row = IF messages[i].by \in rs /\ messages[i].row = "open"
                                   THEN row ELSE messages[i].row
<1> DEFINE New(i) == IF messages[i].by \in rs /\ messages[i].row = "open"
                     THEN [messages[i] EXCEPT !.row = row] ELSE messages[i]
<1>1. messages \in Seq(Rows) BY DEF MessagesTrue
<1>2. DOMAIN messages = 1..Len(messages) /\ Len(messages) \in Nat BY <1>1, LenProperties
<1>3. \A i \in DOMAIN messages : messages[i] \in Rows BY <1>1
<1>4. ASSUME NEW i \in DOMAIN messages
      PROVE  /\ New(i) \in Rows /\ New(i).by = messages[i].by /\ New(i).tenant = messages[i].tenant
             /\ New(i).row = IF messages[i].by \in rs /\ messages[i].row = "open"
                             THEN row ELSE messages[i].row
  BY <1>3 DEF Rows
<1>5. messages' = [i \in 1..Len(messages) |-> New(i)] BY <1>2 DEF Settle
<1> HIDE DEF New
<1>6. messages' \in Seq(Rows) /\ Len(messages') = Len(messages) /\ DOMAIN messages' = DOMAIN messages
  BY <1>2, <1>4, <1>5
<1> QED BY <1>2, <1>4, <1>5, <1>6 DEF MessagesTrue

LEMMA ReportType ==
  ASSUME MessagesTrue, NEW i \in DOMAIN messages, NEW delivery \in Deliveries, Report(i, delivery)
  PROVE  /\ MessagesTrue' /\ DOMAIN messages' = DOMAIN messages /\ Len(messages') = Len(messages)
         /\ \A j \in DOMAIN messages :
              /\ messages'[j].by = messages[j].by /\ messages'[j].tenant = messages[j].tenant
              /\ messages'[j].row = messages[j].row
<1>1. messages \in Seq(Rows) BY DEF MessagesTrue
<1>2. messages[i] \in Rows BY <1>1
<1> DEFINE m == [messages[i] EXCEPT !.delivery = delivery]
<1>3. m \in Rows /\ m.by = messages[i].by /\ m.tenant = messages[i].tenant /\ m.row = messages[i].row
  BY <1>2 DEF Rows, Report
<1>4. messages' = [messages EXCEPT ![i] = m] BY DEF Report
<1> HIDE DEF m
<1>5. messages' \in Seq(Rows) /\ Len(messages') = Len(messages) /\ DOMAIN messages' = DOMAIN messages
  BY <1>1, <1>3, <1>4
<1> QED BY <1>1, <1>3, <1>4, <1>5 DEF MessagesTrue
---------------------------------------------------------------------------
(* What a job becomes. *)
LEMMA SeenType ==
  ASSUME TypeOK, AtWork, NEW r \in Runners, NEW l \in Loans
  PROVE  Seen(r, l) \in Status
<1>1. work[r].flips \in Statuses BY DEF AtWork, Jobs, Work
<1>2. status[l] \in Status BY DEF TypeOK
<1> QED BY <1>1, <1>2, StatusesAre DEF Seen

LEMMA PutType ==
  ASSUME AtWork, NEW r \in Runners, NEW w \in Jobs, Put(r, w)
  PROVE  AtWork' /\ work'[r] = w /\ \A s \in Runners : s # r => work'[s] = work[s]
  BY DEF AtWork, Put

LEMMA FreshType == \A w : Fresh(w) => w \in Jobs
  BY DEF Fresh, Jobs

LEMMA EnterLegType ==
  ASSUME TypeOK, AtWork, NEW r \in Runners, EnterLeg(r)
  PROVE  \E w \in Jobs : Put(r, w) /\ w.tenant = work[r].tenant /\ w.sending = {}
<1> DEFINE v == work[r]
           event == Head(v.legs)
           todo == [l \in Found(r, event) |-> Seen(r, l)]
           w == [v EXCEPT !.legs = Tail(v.legs), !.event = event, !.todo = todo]
<1>1. v \in Jobs BY DEF AtWork
<1>2. v \in Work /\ v.legs \in Seq(SUPPRESSIBLE_EVENTS) /\ v.legs # <<>>
      /\ v.tenant # NoTenant /\ v.sending = {}
  BY <1>1 DEF Jobs, Work, EnterLeg, Resting
<1>3. event \in SUPPRESSIBLE_EVENTS /\ Tail(v.legs) \in Seq(SUPPRESSIBLE_EVENTS)
  BY <1>2, HeadTailProperties
<1>4. todo \in Statuses
  <2>1. Found(r, event) \subseteq Loans BY DEF Found, TypeOK
  <2>2. \A l \in Found(r, event) : Seen(r, l) \in Status BY <2>1, SeenType
  <2>3. todo \in [Found(r, event) -> Status] BY <2>2
  <2> QED BY <2>1, <2>3 DEF Statuses
<1>5. Put(r, w) BY DEF EnterLeg
<1> HIDE DEF event, todo, v
<1>6. w \in Jobs /\ w.tenant = v.tenant /\ w.sending = {}
  BY <1>1, <1>2, <1>3, <1>4 DEF Jobs, Work
<1> QED BY <1>5, <1>6 DEF v

LEMMA TurnType ==
  ASSUME TypeOK, AtWork, NEW r \in Runners, NEW l \in Loans,
         NEW sending \in SUBSET {l}, NEW lookup \in Lookups, Turn(r, l, sending, lookup)
  PROVE  \E w \in Jobs : /\ Put(r, w) /\ w.tenant = work[r].tenant /\ w.lookup = lookup
                         /\ w.sending = sending
<1> DEFINE v == work[r]
           s == Flipped(v.event, v.todo[l])
           todo == Restrict(v.todo, DOMAIN v.todo \ {l})
           flips == IF s = v.todo[l] THEN v.flips
                    ELSE [k \in DOMAIN v.flips \cup {l} |-> IF k = l THEN s ELSE v.flips[k]]
           w == [v EXCEPT !.todo = todo, !.flips = flips, !.sending = sending, !.lookup = lookup]
<1>1. v \in Jobs BY DEF AtWork
<1>2. /\ v \in Work /\ v.todo \in Statuses /\ v.flips \in Statuses /\ v.sending = {}
      /\ l \in DOMAIN v.todo /\ v.tenant # NoTenant /\ v.event \in SUPPRESSIBLE_EVENTS
      /\ v.held \subseteq DOMAIN v.flips
  BY <1>1 DEF Jobs, Work, Turn
<1>3. s \in Status
  <2>1. v.todo[l] \in Status BY <1>2, StatusesAre
  <2> QED BY <2>1 DEF Flipped, Status
<1>4. todo \in Statuses
  <2>1. DOMAIN todo \subseteq DOMAIN v.todo /\ \A k \in DOMAIN todo : todo[k] = v.todo[k]
    BY DEF Restrict
  <2>2. todo = [k \in DOMAIN todo |-> todo[k]] BY DEF Restrict
  <2> HIDE DEF todo
  <2> QED BY <1>2, <2>1, <2>2, StatusesAre
<1>5. flips \in Statuses /\ DOMAIN v.flips \subseteq DOMAIN flips
  <2>1. CASE s = v.todo[l] BY <1>2, <2>1
  <2>2. CASE s # v.todo[l]
    <3> DEFINE f == [k \in DOMAIN v.flips \cup {l} |-> IF k = l THEN s ELSE v.flips[k]]
    <3>1. DOMAIN v.flips \subseteq Loans /\ \A k \in DOMAIN v.flips : v.flips[k] \in Status
      BY <1>2, StatusesAre
    <3>2. /\ DOMAIN f = DOMAIN v.flips \cup {l} /\ f = [k \in DOMAIN f |-> f[k]]
          /\ \A k \in DOMAIN f : f[k] \in Status
      BY <1>3, <3>1
    <3>3. flips = f BY <2>2
    <3> HIDE DEF f, flips
    <3>4. f \in Statuses BY <3>1, <3>2, StatusesAre
    <3> QED BY <3>2, <3>3, <3>4
  <2> QED BY <2>1, <2>2
<1>6. sending \subseteq Loans OBVIOUS
<1>7. Put(r, w) BY DEF Turn
<1> HIDE DEF s, todo, flips, v
<1>8. w \in Jobs /\ w.tenant = v.tenant /\ w.sending = sending /\ w.lookup = lookup
  BY <1>1, <1>2, <1>4, <1>5, <1>6 DEF Jobs, Work
<1> QED BY <1>7, <1>8 DEF v

(* A message that was not suppressed is to somebody who is not opted out,  *)
(* unless the lookup failed.                                               *)
LEMMA VisitType ==
  ASSUME TypeOK, AtWork, NEW r \in Runners, NEW l \in Loans,
         Visit(r, l) \/ \E lookup \in {"failed", "broken"} : VisitBlind(r, l, lookup)
  PROVE  \E w \in Jobs : /\ Put(r, w) /\ w.tenant = work[r].tenant
                         /\ w.sending # {} => /\ w.sending = {l}
                                              /\ w.lookup = "read" => ~OptedOut(w.tenant, PhoneOf[l])
<1>1. CASE Visit(r, l)
  <2> DEFINE sending == IF Suppressed(work[r].tenant, PhoneOf[l], work[r].event) THEN {} ELSE {l}
  <2>1. Turn(r, l, sending, "read") BY <1>1 DEF Visit
  <2>2. work[r].event \in SUPPRESSIBLE_EVENTS BY <2>1 DEF Turn, AtWork, Jobs
  <2>3. /\ sending \in SUBSET {l}
        /\ sending # {} => sending = {l} /\ ~OptedOut(work[r].tenant, PhoneOf[l])
    BY <2>2 DEF Suppressed
  <2> HIDE DEF sending
  <2>4. PICK w \in Jobs : /\ Put(r, w) /\ w.tenant = work[r].tenant /\ w.lookup = "read"
                          /\ w.sending = sending
    BY <2>1, <2>3, TurnType DEF Lookups
  <2>5. w.sending # {} => w.sending = {l} /\ ~OptedOut(w.tenant, PhoneOf[l])
    BY <2>3, <2>4
  <2> QED BY <2>4, <2>5
<1>2. CASE \E lookup \in {"failed", "broken"} : VisitBlind(r, l, lookup)
  <2>1. PICK lookup \in {"failed", "broken"} : Turn(r, l, {l}, lookup)
    BY <1>2 DEF VisitBlind
  <2>2. PICK w \in Jobs : /\ Put(r, w) /\ w.tenant = work[r].tenant /\ w.lookup = lookup
                          /\ w.sending = {l}
    BY <2>1, TurnType DEF Lookups
  <2>3. w.sending = {l} /\ w.lookup # "read" BY <2>2
  <2> QED BY <2>2, <2>3
<1> QED BY <1>1, <1>2

LEMMA SendType ==
  ASSUME AtWork, NEW r \in Runners, NEW first, NEW second, Send(r, first, second)
  PROVE  \E w \in Jobs : Put(r, w) /\ w.tenant = work[r].tenant /\ w.sending = {}
<1> DEFINE v == work[r]
           through == v.lookup # "broken" /\ Free(r, DOMAIN v.flips)
           flushing == ~through
           lookup == IF v.lookup = "broken" THEN v.lookup ELSE "read"
           held == IF through THEN DOMAIN v.flips ELSE v.held
           w == [v EXCEPT !.sending = {}, !.flushing = flushing, !.lookup = lookup, !.held = held]
<1>1. v \in Jobs BY DEF AtWork
<1>2. held \subseteq Loans /\ held \subseteq DOMAIN v.flips BY <1>1, StatusesAre DEF Jobs, Work
<1>3. lookup \in Lookups /\ flushing \in BOOLEAN BY DEF Lookups
<1>4. Put(r, w) BY DEF Send
<1> HIDE DEF v, held, lookup, flushing
<1>5. w \in Jobs /\ w.tenant = v.tenant /\ w.sending = {}
  BY <1>1, <1>2, <1>3 DEF Jobs, Work
<1> QED BY <1>4, <1>5 DEF v

LEMMA FlushType ==
  ASSUME AtWork, NEW r \in Runners, Flush(r)
  PROVE  \E w \in Jobs : /\ Put(r, w) /\ w.tenant = work[r].tenant
                         /\ w.sending = work[r].sending /\ w.lookup = work[r].lookup
<1> DEFINE v == work[r]
           held == DOMAIN v.flips
           w == [v EXCEPT !.held = held, !.flushing = FALSE]
<1>1. v \in Jobs BY DEF AtWork
<1>2. held \subseteq Loans BY <1>1, StatusesAre DEF Jobs, Work
<1>3. Put(r, w) BY DEF Flush
<1> HIDE DEF v
<1>4. w \in Jobs /\ w.tenant = v.tenant /\ w.sending = v.sending /\ w.lookup = v.lookup
  BY <1>1, <1>2 DEF Jobs, Work
<1> QED BY <1>3, <1>4 DEF v
---------------------------------------------------------------------------
LEMMA KeptInit == Init => Kept
<1> SUFFICES ASSUME Init PROVE Kept OBVIOUS
<1>1. messages = <<>> BY DEF Init
<1>2. MessagesTrue /\ OpenRows /\ Len(messages) <= MaxMessages
  <2>1. messages \in Seq(Rows) /\ Len(messages) = 0 /\ DOMAIN messages = {} BY <1>1
  <2> QED BY <2>1, MessagingAssumption DEF MessagesTrue, OpenRows
<1>3. AtWork BY FreshJobs, FreshType DEF Init, AtWork
<1>4. LateOnce BY DEF Init, LateOnce
<1>5. TypeOK
  <2>1. /\ day \in 0..LastDay /\ faults \in 0..MaxFaults /\ changes \in 0..MaxChanges
    BY MessagingAssumption DEF Init
  <2>2. /\ status \in [Loans -> Status] /\ owing \subseteq Loans
        /\ automation \in [Tenants -> [enabled : BOOLEAN, hour : Hours]]
    BY MessagingAssumption DEF Init, Status
  <2>3. /\ off \subseteq Tenants \X SUPPRESSIBLE_EVENTS
        /\ optout \subseteq Tenants \X Phones /\ late \in [Runners -> [Tenants \X Phones -> Nat]]
    BY DEF Init
  <2> QED BY <1>2, <1>3, <2>1, <2>2, <2>3, StatusesAre DEF TypeOK, AtWork, Jobs, Work
<1> QED BY <1>2, <1>3, <1>4, <1>5 DEF Kept

(* The part of the type invariant that is about jobs follows. *)
LEMMA TypeNext ==
  ASSUME AtWork',
         day' \in 0..LastDay, status' \in [Loans -> Status], owing' \subseteq Loans,
         automation' \in [Tenants -> [enabled : BOOLEAN, hour : Hours]],
         off' \subseteq Tenants \X SUPPRESSIBLE_EVENTS,
         optout' \subseteq Tenants \X Phones, late' \in [Runners -> [Tenants \X Phones -> Nat]],
         Len(messages') <= MaxMessages, faults' \in 0..MaxFaults, changes' \in 0..MaxChanges
  PROVE  TypeOK'
<1>1. ASSUME NEW r \in Runners
      PROVE  /\ work'[r].tenant \in Tenants \cup {NoTenant}
             /\ DOMAIN work'[r].todo \cup DOMAIN work'[r].flips \subseteq Loans
             /\ work'[r].held \subseteq DOMAIN work'[r].flips /\ work'[r].sending \subseteq Loans
             /\ work'[r].flushing \in BOOLEAN /\ work'[r].lookup \in Lookups
  BY StatusesAre DEF AtWork, Jobs, Work
<1>2. \A r \in Runners :
        LET w == work'[r]
        IN /\ w.tenant \in Tenants \cup {NoTenant}
           /\ DOMAIN w.todo \cup DOMAIN w.flips \subseteq Loans
           /\ w.held \subseteq DOMAIN w.flips
           /\ w.sending \subseteq Loans /\ w.flushing \in BOOLEAN /\ w.lookup \in Lookups
  BY <1>1
<1> QED BY <1>2, Zenon DEF TypeOK

LEMMA LoanType == \A l \in Loans : TenantOf[l] \in Tenants /\ PhoneOf[l] \in Phones
  BY MessagingAssumption DEF Phones

(* A step that leaves the messages alone, and the jobs or one of them. *)
LEMMA QuietStep ==
  ASSUME Kept, UNCHANGED <<messages, late>>, TypeOK', optout \subseteq optout',
         NEW r \in Runners, NEW w \in Jobs, Put(r, w),
         w.tenant = work[r].tenant \/ work[r].tenant = NoTenant,
         \/ w.sending = {}
         \/ w.sending = work[r].sending /\ w.lookup = work[r].lookup
         \/ \E l \in Loans :
              w.sending = {l} /\ (w.lookup = "read" => <<w.tenant, PhoneOf[l]>> \notin optout),
         w.sending # {} => w.tenant = work[r].tenant
  PROVE  Kept'
<1> USE DEF Kept
<1>1. AtWork' /\ work'[r] = w /\ \A s \in Runners : s # r => work'[s] = work[s] BY PutType
<1>2. MessagesTrue' BY DEF MessagesTrue
<1>3. OpenRows'
  <2> SUFFICES ASSUME NEW i \in DOMAIN messages, messages[i].row = "open"
               PROVE  \E s \in Runners : messages[i].by = s /\ messages[i].tenant = work'[s].tenant
    BY DEF OpenRows
  <2>1. PICK s \in Runners : messages[i].by = s /\ messages[i].tenant = work[s].tenant
    BY DEF OpenRows
  <2>2. messages[i].tenant \in Tenants BY DEF MessagesTrue, Rows
  <2>3. work[s].tenant # NoTenant BY <2>1, <2>2, MessagingAssumption
  <2> QED BY <1>1, <2>1, <2>3
<1>4. LateOnce'
  <2> SUFFICES ASSUME NEW s \in Runners, NEW x \in Tenants \X Phones, late[s][x] # 0
               PROVE  /\ late[s][x] = 1 /\ x \in optout'
                      /\ work'[s].lookup = "read" =>
                           \A l \in work'[s].sending : <<work'[s].tenant, PhoneOf[l]>> # x
    BY DEF LateOnce
  <2>1. /\ late[s][x] = 1 /\ x \in optout
        /\ work[s].lookup = "read" =>
             \A l \in work[s].sending : <<work[s].tenant, PhoneOf[l]>> # x
    BY DEF LateOnce
  <2>2. CASE s # r
    <3>1. work'[s] = work[s] BY <1>1, <2>2
    <3> QED BY <2>1, <3>1
  <2>3. CASE s = r /\ w.sending = {}
    <3>1. work'[s].sending = {} BY <1>1, <2>3
    <3> QED BY <2>1, <3>1
  <2>4. CASE s = r /\ w.sending # {} /\ w.sending = work[r].sending /\ w.lookup = work[r].lookup
    <3>1. /\ work'[s].sending = work[s].sending /\ work'[s].lookup = work[s].lookup
          /\ work'[s].tenant = work[s].tenant
      BY <1>1, <2>4
    <3> QED BY <2>1, <3>1
  <2>5. ASSUME s = r, NEW k \in Loans, w.sending = {k},
               w.lookup = "read" => <<w.tenant, PhoneOf[k]>> \notin optout
        PROVE  work'[s].lookup = "read" =>
                 \A l \in work'[s].sending : <<work'[s].tenant, PhoneOf[l]>> # x
    <3>1. work'[s] = w BY <1>1, <2>5
    <3> QED BY <2>1, <2>5, <3>1
  <2> QED BY <2>1, <2>2, <2>3, <2>4, <2>5
<1> QED BY <1>1, <1>2, <1>3, <1>4

(* A step that leaves the jobs and the messages alone. *)
LEMMA OtherStep ==
  ASSUME Kept, UNCHANGED <<messages, work>>, TypeOK', late' = late /\ optout \subseteq optout'
  PROVE  Kept'
<1> USE DEF Kept
<1>1. MessagesTrue' /\ AtWork' /\ OpenRows' BY DEF MessagesTrue, AtWork, OpenRows
<1>2. LateOnce'
  <2> SUFFICES ASSUME NEW s \in Runners, NEW x \in Tenants \X Phones, late[s][x] # 0
               PROVE  /\ late[s][x] = 1 /\ x \in optout'
                      /\ work[s].lookup = "read" =>
                           \A l \in work[s].sending : <<work[s].tenant, PhoneOf[l]>> # x
    BY DEF LateOnce
  <2> QED BY DEF LateOnce
<1> QED BY <1>1, <1>2

(* The end of transactions: their rows are kept or gone. *)
LEMMA EndStep ==
  ASSUME Kept, UNCHANGED <<late, optout>>, TypeOK', AtWork',
         NEW rs \in SUBSET Runners, NEW row \in {"kept", "void"}, Settle(rs, row),
         \A s \in Runners : s \notin rs => work'[s] = work[s],
         \A s \in rs : work'[s].sending = {}
  PROVE  Kept'
<1> USE DEF Kept
<1>1. /\ MessagesTrue' /\ DOMAIN messages' = DOMAIN messages
      /\ \A i \in DOMAIN messages :
           /\ messages'[i].by = messages[i].by /\ messages'[i].tenant = messages[i].tenant
           /\ messages'[i].row = IF messages[i].by \in rs /\ messages[i].row = "open"
                                THEN row ELSE messages[i].row
  BY SettleType
<1>2. OpenRows'
  <2> SUFFICES ASSUME NEW i \in DOMAIN messages, messages'[i].row = "open"
               PROVE  \E s \in Runners : messages[i].by = s /\ messages[i].tenant = work'[s].tenant
    BY <1>1 DEF OpenRows
  <2>1. messages[i].row = "open" /\ messages[i].by \notin rs BY <1>1
  <2>2. PICK s \in Runners : messages[i].by = s /\ messages[i].tenant = work[s].tenant
    BY <2>1 DEF OpenRows
  <2> QED BY <2>1, <2>2
<1>3. LateOnce'
  <2> SUFFICES ASSUME NEW s \in Runners, NEW x \in Tenants \X Phones, late[s][x] # 0
               PROVE  /\ late[s][x] = 1 /\ x \in optout
                      /\ work'[s].lookup = "read" =>
                           \A l \in work'[s].sending : <<work'[s].tenant, PhoneOf[l]>> # x
    BY DEF LateOnce
  <2>1. /\ late[s][x] = 1 /\ x \in optout
        /\ work[s].lookup = "read" =>
             \A l \in work[s].sending : <<work[s].tenant, PhoneOf[l]>> # x
    BY DEF LateOnce
  <2> QED BY <2>1
<1> QED BY <1>1, <1>2, <1>3

(* What a job's message and a request's are recorded as. *)
LEMMA SentType ==
  ASSUME AtWork, NEW r \in Runners, NEW first \in Attempts \cup {BadToken}, NEW second \in Attempts,
         Send(r, first, second)
  PROVE  \E l \in work[r].sending : \E m \in Rows :
           /\ Record(m) /\ m.by = r /\ m.tenant = work[r].tenant
           /\ l \in Loans /\ <<work[r].tenant, PhoneOf[l]>> \in Tenants \X Phones
           /\ late' = IF work[r].lookup = "read" /\ OptedOut(work[r].tenant, PhoneOf[l])
                      THEN [late EXCEPT ![r][<<work[r].tenant, PhoneOf[l]>>] = @ + 1] ELSE late
<1> DEFINE w == work[r]
<1>1. w \in Jobs /\ w \in Work /\ w.sending # {} /\ w.tenant \in Tenants /\ w.event \in SUPPRESSIBLE_EVENTS
  BY DEF AtWork, Jobs, Work, Send
<1>2. PICK l \in w.sending :
        /\ Record(Message(w.tenant, r, Dispatched(first, second), "open"))
        /\ late' = IF w.lookup = "read" /\ OptedOut(w.tenant, PhoneOf[l])
                   THEN [late EXCEPT ![r][<<w.tenant, PhoneOf[l]>>] = @ + 1] ELSE late
  BY DEF Send
<1>3. l \in Loans /\ PhoneOf[l] \in Phones /\ <<w.tenant, PhoneOf[l]>> \in Tenants \X Phones
  BY <1>1, LoanType DEF Jobs, Work
<1> DEFINE answer == Dispatched(first, second)
           m == Message(w.tenant, r, answer, "open")
<1>4. m \in Rows /\ m.by = r /\ m.tenant = w.tenant
  <2>1. answer \in Answers BY AnswerType
  <2> HIDE DEF answer, w
  <2> QED BY <1>1, <1>3, <2>1 DEF Message, Rows, Answers
<1>5. Record(m) BY <1>2
<1> HIDE DEF m
<1>6. m \in Rows /\ Record(m) /\ m.by = r /\ m.tenant = work[r].tenant BY <1>4, <1>5
<1> QED BY <1>2, <1>3, <1>6

LEMMA NoticeType ==
  ASSUME NEW l \in Loans, NEW event \in Notices,
         NEW first \in Attempts \cup {BadToken}, NEW second \in Attempts,
         Notice(l, event, first, second)
  PROVE  \E m \in Rows : Record(m) /\ m.row = "kept"
<1> DEFINE answer == Dispatched(first, second)
           m == Message(TenantOf[l], "request", answer, "kept")
<1>1. m \in Rows /\ m.row = "kept"
  <2>1. answer \in Answers BY AnswerType
  <2> HIDE DEF answer
  <2> QED BY <2>1, LoanType DEF Message, Rows, Answers
<1>2. Record(m) BY DEF Notice
<1> HIDE DEF m
<1> QED BY <1>1, <1>2

LEMMA SendStep ==
  ASSUME Kept, NEW r \in Runners, NEW first \in Attempts \cup {BadToken}, NEW second \in Attempts,
         Send(r, first, second)
  PROVE  Kept'
<1> USE DEF Kept
<1> DEFINE w == work[r]
<1>1. PICK l \in w.sending : \E m \in Rows :
        /\ Record(m) /\ m.by = r /\ m.tenant = w.tenant
        /\ l \in Loans /\ <<w.tenant, PhoneOf[l]>> \in Tenants \X Phones
        /\ late' = IF w.lookup = "read" /\ OptedOut(w.tenant, PhoneOf[l])
                   THEN [late EXCEPT ![r][<<w.tenant, PhoneOf[l]>>] = @ + 1] ELSE late
  BY SentType
<1>2. PICK m \in Rows : Record(m) /\ m.by = r /\ m.tenant = w.tenant BY <1>1
<1> DEFINE y == <<w.tenant, PhoneOf[l]>>
<1>3. y \in Tenants \X Phones BY <1>1
<1>4. m.by = r /\ m.tenant = w.tenant /\ Cost(first, second) \in {0, 1} BY <1>2, CostType
<1>5. Record(m) BY <1>2
<1>6. PICK v \in Jobs : Put(r, v) /\ v.tenant = w.tenant /\ v.sending = {}
  BY SendType
<1>7. AtWork' /\ work'[r] = v /\ \A s \in Runners : s # r => work'[s] = work[s]
  BY <1>6, PutType
<1>8. /\ MessagesTrue' /\ Len(messages') <= MaxMessages
      /\ \A i \in DOMAIN messages : i \in DOMAIN messages' /\ messages'[i] = messages[i]
      /\ \A i \in DOMAIN messages' : i \in DOMAIN messages \/ messages'[i] = m
  BY <1>4, <1>5, RecordType DEF TypeOK
<1>9. OpenRows'
  <2> SUFFICES ASSUME NEW i \in DOMAIN messages', messages'[i].row = "open"
               PROVE  \E s \in Runners : messages'[i].by = s /\ messages'[i].tenant = work'[s].tenant
    BY DEF OpenRows
  <2>1. CASE i \in DOMAIN messages
    <3>1. PICK s \in Runners : messages[i].by = s /\ messages[i].tenant = work[s].tenant
      BY <1>8, <2>1 DEF OpenRows
    <3> QED BY <1>6, <1>7, <1>8, <2>1, <3>1
  <2>2. CASE messages'[i] = m
    BY <1>4, <1>6, <1>7, <2>2
  <2> QED BY <1>8, <2>1, <2>2
<1> DEFINE Counts == w.lookup = "read" /\ OptedOut(w.tenant, PhoneOf[l])
<1>10. late \in [Runners -> [Tenants \X Phones -> Nat]] BY DEF TypeOK
<1> HIDE DEF y
<1>11. /\ late' \in [Runners -> [Tenants \X Phones -> Nat]]
       /\ \A s \in Runners, x \in Tenants \X Phones :
            late'[s][x] = IF s = r /\ x = y /\ Counts THEN late[s][x] + 1 ELSE late[s][x]
  <2>1. CASE Counts
    <3>1. late' = [late EXCEPT ![r] = [late[r] EXCEPT ![y] = late[r][y] + 1]]
      BY <1>1, <2>1 DEF y
    <3>2. late[r][y] + 1 \in Nat BY <1>3, <1>10
    <3> QED BY <1>3, <1>10, <2>1, <3>1, <3>2
  <2>2. CASE ~Counts
    BY <1>1, <1>10, <2>2
  <2> QED BY <2>1, <2>2
<1>12. optout' = optout BY DEF Send, settings
<1>13. LateOnce'
  <2> SUFFICES ASSUME NEW s \in Runners, NEW x \in Tenants \X Phones, late'[s][x] # 0
               PROVE  /\ late'[s][x] = 1 /\ x \in optout
                      /\ work'[s].lookup = "read" =>
                           \A k \in work'[s].sending : <<work'[s].tenant, PhoneOf[k]>> # x
    BY <1>12 DEF LateOnce
  <2>1. late[s][x] # 0 => /\ late[s][x] = 1 /\ x \in optout
                          /\ work[s].lookup = "read" =>
                               \A k \in work[s].sending : <<work[s].tenant, PhoneOf[k]>> # x
    BY DEF LateOnce
  <2>2. CASE s = r /\ x = y /\ Counts
    <3>1. work[s].lookup = "read" /\ \E k \in work[s].sending : <<work[s].tenant, PhoneOf[k]>> = x
      BY <2>2 DEF y
    <3>2. late[s][x] = 0 BY <2>1, <3>1
    <3>3. x \in optout BY <2>2 DEF OptedOut, y
    <3>4. late'[s][x] = 1 BY <1>11, <2>2, <3>2
    <3>5. work'[s].sending = {} BY <1>6, <1>7, <2>2
    <3> QED BY <3>3, <3>4, <3>5
  <2>3. CASE ~(s = r /\ x = y /\ Counts)
    <3>1. late'[s][x] = late[s][x] BY <1>11, <2>3
    <3> QED BY <1>6, <1>7, <2>1, <3>1
  <2> QED BY <2>2, <2>3
<1>14. TypeOK'
  <2>1. faults' \in 0..MaxFaults
    <3>1. faults \in 0..MaxFaults /\ faults + Cost(first, second) <= MaxFaults
          /\ faults' = faults + Cost(first, second)
      BY DEF Send, Fault, TypeOK
    <3> QED BY <1>4, <3>1, MessagingAssumption
  <2>2. /\ day' = day /\ status' = status /\ owing' = owing /\ automation' = automation
        /\ off' = off /\ changes' = changes
    BY DEF Send, loans, settings
  <2> QED BY <1>7, <1>8, <1>11, <1>12, <2>1, <2>2, TypeNext DEF TypeOK
<1> QED BY <1>7, <1>8, <1>9, <1>13, <1>14

LEMMA NoticeStep ==
  ASSUME Kept, NEW l \in Loans, NEW event \in Notices,
         NEW first \in Attempts \cup {BadToken}, NEW second \in Attempts,
         Notice(l, event, first, second)
  PROVE  Kept'
<1> USE DEF Kept
<1>1. PICK m \in Rows : Record(m) /\ m.row = "kept" BY NoticeType
<1> DEFINE n == Cost(first, second) + IF Suppressed(TenantOf[l], PhoneOf[l], event) THEN 1 ELSE 0
<1>2. Record(m) /\ n \in {0, 1, 2} BY <1>1, CostType
<1>3. /\ MessagesTrue' /\ Len(messages') <= MaxMessages
      /\ \A i \in DOMAIN messages : i \in DOMAIN messages' /\ messages'[i] = messages[i]
      /\ \A i \in DOMAIN messages' : i \in DOMAIN messages \/ messages'[i] = m
  BY <1>1, <1>2, RecordType DEF TypeOK
<1>4. /\ day' = day /\ status' = status /\ owing' = owing /\ automation' = automation
      /\ off' = off /\ optout' = optout /\ late' = late /\ work' = work
  BY DEF Notice, loans, settings
<1>5. AtWork' /\ LateOnce' BY <1>4 DEF AtWork, LateOnce
<1>6. OpenRows'
  <2> SUFFICES ASSUME NEW i \in DOMAIN messages', messages'[i].row = "open"
               PROVE  \E s \in Runners : messages'[i].by = s /\ messages'[i].tenant = work[s].tenant
    BY <1>4 DEF OpenRows
  <2>1. i \in DOMAIN messages /\ messages'[i] = messages[i] BY <1>1, <1>3
  <2> QED BY <2>1 DEF OpenRows
<1>7. faults' \in 0..MaxFaults /\ changes' \in 0..MaxChanges
  <2>1. faults \in 0..MaxFaults /\ faults + n <= MaxFaults /\ faults' = faults + n
    BY DEF Notice, Fault, TypeOK
  <2> HIDE DEF n
  <2>2. changes \in 0..MaxChanges /\ changes < MaxChanges /\ changes' = changes + 1
    BY DEF Notice, Change, TypeOK
  <2> QED BY <1>2, <2>1, <2>2, MessagingAssumption
<1>8. TypeOK' BY <1>3, <1>4, <1>5, <1>7, TypeNext DEF TypeOK
<1> QED BY <1>3, <1>5, <1>6, <1>8

LEMMA ReportStep ==
  ASSUME Kept, NEW i \in DOMAIN messages, NEW delivery \in Deliveries, Report(i, delivery)
  PROVE  Kept'
<1> USE DEF Kept
<1>1. /\ MessagesTrue' /\ DOMAIN messages' = DOMAIN messages /\ Len(messages') = Len(messages)
      /\ \A j \in DOMAIN messages :
           /\ messages'[j].by = messages[j].by /\ messages'[j].tenant = messages[j].tenant
           /\ messages'[j].row = messages[j].row
  BY ReportType
<1>2. /\ day' = day /\ status' = status /\ owing' = owing /\ automation' = automation
      /\ off' = off /\ optout' = optout /\ late' = late /\ work' = work
      /\ faults' = faults /\ changes' = changes
  BY DEF Report, loans, settings
<1>3. AtWork' /\ LateOnce' BY <1>2 DEF AtWork, LateOnce
<1>4. OpenRows' BY <1>1, <1>2 DEF OpenRows
<1>5. TypeOK' BY <1>1, <1>2, <1>3, TypeNext DEF TypeOK
<1> QED BY <1>1, <1>3, <1>4, <1>5

(* Who opts in again starts anew. *)
LEMMA OptInStep ==
  ASSUME Kept, NEW l \in Loans, OptIn(TenantOf[l], PhoneOf[l])
  PROVE  Kept'
<1> USE DEF Kept
<1> DEFINE y == <<TenantOf[l], PhoneOf[l]>>
<1>1. y \in Tenants \X Phones BY LoanType
<1>2. /\ day' = day /\ status' = status /\ owing' = owing /\ automation' = automation
      /\ off' = off /\ work' = work /\ messages' = messages
      /\ faults' = faults /\ changes' = changes
      /\ optout' = optout \ {y} /\ late' = [r \in Runners |-> [late[r] EXCEPT ![y] = 0]]
  BY DEF OptIn, loans
<1> HIDE DEF y
<1>3. late \in [Runners -> [Tenants \X Phones -> Nat]] BY DEF TypeOK
<1>4. /\ late' \in [Runners -> [Tenants \X Phones -> Nat]]
      /\ \A s \in Runners, x \in Tenants \X Phones : late'[s][x] = IF x = y THEN 0 ELSE late[s][x]
  BY <1>1, <1>2, <1>3
<1>5. AtWork' /\ MessagesTrue' /\ OpenRows' BY <1>2 DEF AtWork, MessagesTrue, OpenRows
<1>6. LateOnce'
  <2> SUFFICES ASSUME NEW s \in Runners, NEW x \in Tenants \X Phones, late'[s][x] # 0
               PROVE  /\ late'[s][x] = 1 /\ x \in optout'
                      /\ work[s].lookup = "read" =>
                           \A k \in work[s].sending : <<work[s].tenant, PhoneOf[k]>> # x
    BY <1>2 DEF LateOnce
  <2>1. x # y /\ late'[s][x] = late[s][x] BY <1>4
  <2>2. /\ late[s][x] = 1 /\ x \in optout
        /\ work[s].lookup = "read" =>
             \A k \in work[s].sending : <<work[s].tenant, PhoneOf[k]>> # x
    BY <2>1 DEF LateOnce
  <2> QED BY <1>2, <2>1, <2>2
<1>7. TypeOK'
  <2>1. optout' \subseteq Tenants \X Phones BY <1>2 DEF TypeOK
  <2> QED BY <1>2, <1>4, <1>5, <2>1, TypeNext DEF TypeOK
<1> QED BY <1>5, <1>6, <1>7

(* A job begins, or a DCP's transaction of it ends, with nothing in hand. *)
LEMMA BeginStep ==
  ASSUME Kept, NEW r \in Runners, NEW w, Fresh(w), Put(r, w), work[r] = Idle,
         UNCHANGED <<day, loans, settings, late, messages, faults>>,
         changes' \in 0..MaxChanges
  PROVE  Kept'
<1>1. w \in Jobs /\ w.sending = {} BY FreshType DEF Fresh
<1>2. AtWork' BY <1>1, PutType DEF Kept
<1>3. UNCHANGED <<day, status, owing, automation, off, optout, late, messages, faults>>
  BY DEF loans, settings
<1>4. TypeOK' BY <1>2, <1>3, TypeNext DEF Kept, TypeOK
<1>5. work[r].tenant = NoTenant /\ work[r].sending = {} BY IdleType
<1> HIDE DEF Kept
<1> QED BY <1>1, <1>3, <1>4, <1>5, QuietStep

LEMMA FailStep ==
  ASSUME Kept, NEW r \in Runners, Fail(r)
  PROVE  Kept'
<1>1. work[r] \in Work BY DEF Kept, AtWork, Jobs
<1>2. Fresh(Rest(work[r])) BY <1>1, FreshJobs
<1>3. Rest(work[r]) \in Jobs /\ Rest(work[r]).sending = {} BY <1>2, FreshType DEF Fresh
<1>4. Settle({r}, "void") /\ Put(r, Rest(work[r])) BY DEF Fail
<1>5. AtWork' /\ work'[r].sending = {} /\ \A s \in Runners : s # r => work'[s] = work[s]
  BY <1>3, <1>4, PutType DEF Kept
<1>6. Len(messages') = Len(messages) BY <1>4, SettleType DEF Kept
<1>7. UNCHANGED <<day, status, owing, automation, off, optout, late, changes>>
  BY DEF Fail, loans, settings
<1>8. faults' \in 0..MaxFaults
  <2>1. faults \in 0..MaxFaults BY DEF Kept, TypeOK
  <2>2. faults' = faults \/ (faults + 1 <= MaxFaults /\ faults' = faults + 1) BY DEF Fail, Fault
  <2> QED BY <2>1, <2>2, MessagingAssumption
<1>9. TypeOK' BY <1>5, <1>6, <1>7, <1>8, TypeNext DEF Kept, TypeOK
<1>10. {r} \in SUBSET Runners /\ (\A s \in Runners : s \notin {r} => work'[s] = work[s])
       /\ \A s \in {r} : work'[s].sending = {}
  BY <1>5
<1> QED BY <1>4, <1>5, <1>7, <1>9, <1>10, EndStep

LEMMA RestartStep == Kept /\ Restart => Kept'
<1> SUFFICES ASSUME Kept, Restart PROVE Kept' OBVIOUS
<1>1. Settle(Runners, "void") /\ work' = [r \in Runners |-> Idle] BY DEF Restart
<1>2. Idle \in Jobs /\ Idle.sending = {} BY FreshJobs, FreshType DEF Fresh
<1>3. AtWork' /\ \A s \in Runners : work'[s].sending = {} BY <1>1, <1>2 DEF AtWork
<1>4. Len(messages') = Len(messages) BY <1>1, SettleType DEF Kept
<1>5. UNCHANGED <<day, status, owing, automation, off, optout, late, changes>>
  BY DEF Restart, loans, settings
<1>6. faults' \in 0..MaxFaults
  <2>1. faults \in 0..MaxFaults /\ faults + 1 <= MaxFaults /\ faults' = faults + 1
    BY DEF Restart, Fault, Kept, TypeOK
  <2> QED BY <2>1, MessagingAssumption
<1>7. TypeOK' BY <1>3, <1>4, <1>5, <1>6, TypeNext DEF Kept, TypeOK
<1>8. Runners \in SUBSET Runners /\ \A s \in Runners : s \notin Runners => work'[s] = work[s]
  OBVIOUS
<1> QED BY <1>1, <1>3, <1>5, <1>7, <1>8, EndStep

LEMMA CommitStep ==
  ASSUME Kept, NEW r \in Runners, Commit(r)
  PROVE  Kept'
<1>1. work[r] \in Work BY DEF Kept, AtWork, Jobs
<1>2. Fresh(Rest(work[r])) BY <1>1, FreshJobs
<1>3. Rest(work[r]) \in Jobs /\ Rest(work[r]).sending = {} BY <1>2, FreshType DEF Fresh
<1>4. Settle({r}, "kept") /\ Put(r, Rest(work[r])) BY DEF Commit
<1>5. AtWork' /\ work'[r].sending = {} /\ \A s \in Runners : s # r => work'[s] = work[s]
  BY <1>3, <1>4, PutType DEF Kept
<1>6. Len(messages') = Len(messages) BY <1>4, SettleType DEF Kept
<1>7. UNCHANGED <<day, owing, automation, off, optout, late, faults, changes>>
  BY DEF Commit, settings
<1>8. status' \in [Loans -> Status]
  <2> DEFINE flips == work[r].flips
  <2>1. status \in [Loans -> Status] BY DEF Kept, TypeOK
  <2>2. flips \in Statuses BY <1>1 DEF Work
  <2>3. status' = [l \in Loans |-> IF l \in DOMAIN flips THEN flips[l] ELSE status[l]] BY DEF Commit
  <2> HIDE DEF flips
  <2>4. \A l \in DOMAIN flips : flips[l] \in Status BY <2>2, StatusesAre
  <2> QED BY <2>1, <2>3, <2>4
<1>9. TypeOK' BY <1>5, <1>6, <1>7, <1>8, TypeNext DEF Kept, TypeOK
<1>10. {r} \in SUBSET Runners /\ (\A s \in Runners : s \notin {r} => work'[s] = work[s])
       /\ \A s \in {r} : work'[s].sending = {}
  BY <1>5
<1> QED BY <1>4, <1>5, <1>7, <1>9, <1>10, EndStep

(* The steps of a job that record nothing. *)
LEMMA LegStep ==
  ASSUME Kept, NEW r \in Runners,
         \/ EnterLeg(r) \/ Flush(r)
         \/ \E l \in Loans : Visit(r, l) \/ \E lookup \in {"failed", "broken"} : VisitBlind(r, l, lookup)
  PROVE  Kept'
<1>t. TypeOK /\ AtWork BY DEF Kept
<1>1. PICK w \in Jobs :
        /\ Put(r, w) /\ w.tenant = work[r].tenant
        /\ \/ w.sending = {}
           \/ w.sending = work[r].sending /\ w.lookup = work[r].lookup
           \/ \E l \in Loans : /\ w.sending = {l}
                               /\ w.lookup = "read" => ~OptedOut(w.tenant, PhoneOf[l])
  <2>1. CASE EnterLeg(r) BY <2>1, EnterLegType DEF Kept
  <2>2. CASE Flush(r) BY <2>2, FlushType DEF Kept
  <2>3. CASE \E l \in Loans : Visit(r, l) \/ \E lookup \in {"failed", "broken"} : VisitBlind(r, l, lookup)
    <3>1. PICK l \in Loans : Visit(r, l) \/ \E lookup \in {"failed", "broken"} : VisitBlind(r, l, lookup)
      BY <2>3
    <3>2. PICK w \in Jobs : /\ Put(r, w) /\ w.tenant = work[r].tenant
                            /\ w.sending # {} => /\ w.sending = {l}
                                                 /\ w.lookup = "read" => ~OptedOut(w.tenant, PhoneOf[l])
      BY <1>t, <3>1, VisitType
    <3> QED BY <3>2
  <2> QED BY <2>1, <2>2, <2>3
<1>2. UNCHANGED <<day, status, owing, automation, off, optout, late, messages, changes>>
  BY DEF EnterLeg, Flush, Visit, VisitBlind, loans, settings
<1>3. faults' \in 0..MaxFaults
  <2>1. faults \in 0..MaxFaults BY <1>t DEF TypeOK
  <2>2. faults' = faults \/ (faults + 1 <= MaxFaults /\ faults' = faults + 1)
    BY DEF EnterLeg, Flush, Visit, VisitBlind, Fault
  <2> QED BY <2>1, <2>2, MessagingAssumption
<1>4. AtWork' BY <1>1, PutType DEF Kept
<1>5. TypeOK' BY <1>2, <1>3, <1>4, TypeNext DEF Kept, TypeOK
<1>6. \/ w.sending = {}
      \/ w.sending = work[r].sending /\ w.lookup = work[r].lookup
      \/ \E l \in Loans : /\ w.sending = {l}
                          /\ w.lookup = "read" => <<w.tenant, PhoneOf[l]>> \notin optout
  BY <1>1 DEF OptedOut
<1> HIDE DEF Kept
<1> QED BY <1>1, <1>2, <1>5, <1>6, QuietStep

LEMMA ChangeType == TypeOK /\ Change => changes' \in 0..MaxChanges
<1> SUFFICES ASSUME TypeOK, Change PROVE changes' \in 0..MaxChanges OBVIOUS
<1>1. changes \in 0..MaxChanges /\ changes < MaxChanges /\ changes' = changes + 1
  BY DEF TypeOK, Change
<1> QED BY <1>1, MessagingAssumption

(* The steps of the clock, of borrowers and of settings. *)
LEMMA AroundStep ==
  ASSUME Kept, UNCHANGED <<work, messages, late, faults>>,
         day' \in 0..LastDay, status' \in [Loans -> Status], owing' \subseteq Loans,
         automation' \in [Tenants -> [enabled : BOOLEAN, hour : Hours]],
         off' \subseteq Tenants \X SUPPRESSIBLE_EVENTS,
         optout \subseteq optout', optout' \subseteq Tenants \X Phones,
         changes' \in 0..MaxChanges
  PROVE  Kept'
<1>1. AtWork' BY DEF Kept, AtWork
<1>2. TypeOK' BY <1>1, TypeNext DEF Kept, TypeOK
<1> HIDE DEF Kept
<1> QED BY <1>2, OtherStep

LEMMA KeptNext == Kept /\ [Next]_vars => Kept'
<1> SUFFICES ASSUME Kept, [Next]_vars PROVE Kept' OBVIOUS
<1>t. TypeOK BY DEF Kept
<1>1. ASSUME Tick PROVE Kept'
  <2>1. UNCHANGED <<status, owing, automation, off, optout, work, messages, late, faults, changes>>
    BY <1>1 DEF Tick, loans, settings
  <2>2. day' \in 0..LastDay
    <3>1. day \in 0..LastDay /\ day < LastDay /\ day' = day + 1 BY <1>1, <1>t DEF Tick, TypeOK
    <3> QED BY <3>1, MessagingAssumption
  <2> QED BY <1>t, <2>1, <2>2, AroundStep DEF TypeOK
<1>2. ASSUME NEW r \in Cron, NEW hour \in Hours, StartAll(r, hour) PROVE Kept'
  <2> DEFINE w == RunOf(NextDue(NoTenant, hour), hour)
  <2>1. Fresh(w) BY FreshJobs
  <2>2. Put(r, w) /\ work[r] = Idle /\ changes' = changes
        /\ UNCHANGED <<day, loans, settings, late, messages, faults>>
    BY <1>2 DEF StartAll
  <2>3. r \in Runners /\ changes' \in 0..MaxChanges BY <1>t, <2>2 DEF Runners, TypeOK
  <2> HIDE DEF w
  <2> QED BY <2>1, <2>2, <2>3, BeginStep
<1>3. ASSUME NEW r \in Staff, NEW t \in Tenants, NEW legs \in Batches, RunNow(r, t, legs) PROVE Kept'
  <2> DEFINE w == [Idle EXCEPT !.job = "one", !.tenant = t, !.legs = legs]
  <2>1. Fresh(w) BY FreshJobs
  <2>2. Put(r, w) /\ work[r] = Idle /\ Change
        /\ UNCHANGED <<day, loans, settings, late, messages, faults>>
    BY <1>3 DEF RunNow
  <2>3. r \in Runners /\ changes' \in 0..MaxChanges BY <1>t, <2>2, ChangeType DEF Runners
  <2> HIDE DEF w
  <2> QED BY <2>1, <2>2, <2>3, BeginStep
<1>4. ASSUME NEW r \in Runners, Job(r) PROVE Kept'
  <2>1. CASE \/ EnterLeg(r) \/ Flush(r)
            \/ \E l \in Loans : Visit(r, l) \/ \E lookup \in {"failed", "broken"} : VisitBlind(r, l, lookup)
    BY <2>1, LegStep
  <2>2. CASE Commit(r) BY <2>2, CommitStep
  <2>3. ASSUME NEW first \in Attempts \cup {BadToken}, NEW second \in Attempts, Send(r, first, second)
        PROVE  Kept'
    BY <2>3, SendStep
  <2> QED BY <1>4, <2>1, <2>2, <2>3 DEF Job
<1>5. ASSUME NEW r \in Runners, Fail(r) PROVE Kept' BY <1>5, FailStep
<1>6. ASSUME Restart PROVE Kept' BY <1>6, RestartStep
<1>7. ASSUME NEW l \in Loans, NEW event \in Notices, NEW first \in Attempts \cup {BadToken},
             NEW second \in Attempts, Notice(l, event, first, second)
      PROVE  Kept'
  BY <1>7, NoticeStep
<1>8. ASSUME NEW l \in Loans, Pay(l) PROVE Kept'
  <2>1. UNCHANGED <<day, automation, off, optout, work, messages, late, faults>> /\ Change
        /\ owing' = owing \ {l} /\ status' = [status EXCEPT ![l] = "paid"]
    BY <1>8 DEF Pay, settings
  <2>2. status' \in [Loans -> Status] BY <1>t, <2>1 DEF TypeOK, Status
  <2>3. owing' \subseteq Loans BY <1>t, <2>1 DEF TypeOK
  <2>4. changes' \in 0..MaxChanges BY <1>t, <2>1, ChangeType
  <2> QED BY <1>t, <2>1, <2>2, <2>3, <2>4, AroundStep DEF TypeOK
<1>9. ASSUME NEW t \in Tenants, NEW enabled \in BOOLEAN, NEW h \in Hours, SetAutomation(t, enabled, h)
      PROVE  Kept'
  <2>1. UNCHANGED <<day, status, owing, off, optout, work, messages, late, faults>> /\ Change
        /\ automation' = [automation EXCEPT ![t] = [enabled |-> enabled, hour |-> h]]
    BY <1>9 DEF SetAutomation, loans
  <2>2. automation' \in [Tenants -> [enabled : BOOLEAN, hour : Hours]] BY <1>t, <2>1 DEF TypeOK
  <2>3. changes' \in 0..MaxChanges BY <1>t, <2>1, ChangeType
  <2> QED BY <1>t, <2>1, <2>2, <2>3, AroundStep DEF TypeOK
<1>10. ASSUME NEW l \in Loans, NEW event \in SUPPRESSIBLE_EVENTS, NEW active \in BOOLEAN,
              SetTemplate(TenantOf[l], event, active)
       PROVE  Kept'
  <2>1. UNCHANGED <<day, status, owing, automation, optout, work, messages, late, faults>> /\ Change
        /\ off' = IF active THEN off \ {<<TenantOf[l], event>>} ELSE off \cup {<<TenantOf[l], event>>}
    BY <1>10 DEF SetTemplate, loans
  <2>2. off' \subseteq Tenants \X SUPPRESSIBLE_EVENTS BY <1>t, <2>1, LoanType DEF TypeOK
  <2>3. changes' \in 0..MaxChanges BY <1>t, <2>1, ChangeType
  <2> QED BY <1>t, <2>1, <2>2, <2>3, AroundStep DEF TypeOK
<1>11. ASSUME NEW l \in Loans, OptOut(TenantOf[l], PhoneOf[l]) PROVE Kept'
  <2>1. UNCHANGED <<day, status, owing, automation, off, work, messages, late, faults, changes>>
        /\ optout' = optout \cup {<<TenantOf[l], PhoneOf[l]>>}
    BY <1>11 DEF OptOut, loans
  <2>2. optout \subseteq optout' /\ optout' \subseteq Tenants \X Phones
    BY <1>t, <2>1, LoanType DEF TypeOK
  <2> QED BY <1>t, <2>1, <2>2, AroundStep DEF TypeOK
<1>12. ASSUME NEW l \in Loans, OptIn(TenantOf[l], PhoneOf[l]) PROVE Kept' BY <1>12, OptInStep
<1>13. ASSUME NEW i \in DOMAIN messages, NEW delivery \in Deliveries, Report(i, delivery) PROVE Kept'
  BY <1>13, ReportStep
<1>14. CASE UNCHANGED vars
  <2>1. UNCHANGED <<day, status, owing, automation, off, optout, late, work, messages, faults, changes>>
    BY <1>14 DEF vars, loans, settings
  <2> QED BY <1>t, <2>1, AroundStep DEF TypeOK
<1> QED
  BY <1>1, <1>2, <1>3, <1>4, <1>5, <1>6, <1>7, <1>8, <1>9, <1>10, <1>11, <1>12, <1>13, <1>14
  DEF Next
---------------------------------------------------------------------------
(* What the code keeps is inductive: every handler, run by any number of   *)
(* jobs at once, leaves the rows, the register and the jobs as Kept says.  *)
THEOREM Keeps == Spec => []Kept
<1>1. Init => Kept BY KeptInit
<1>2. Kept /\ [Next]_vars => Kept' BY KeptNext
<1> QED BY <1>1, <1>2, PTL DEF Spec

(* The state is of its type: what a job holds it has changed, its loans    *)
(* and its DCP are known, and faults and changes stay in their bounds.     *)
THEOREM TypeCorrect == Spec => []TypeOK
<1>1. Kept => TypeOK BY DEF Kept
<1> QED BY <1>1, Keeps, PTL

(* sms.py, sms_usage: however many jobs, reports, refused tokens, lost     *)
(* answers and restarts, no message is handed to the provider twice, and   *)
(* the usage a DCP is told and billed adds up.                             *)
THEOREM BillIsTrue == Spec => []UsageAddsUp
<1>1. ASSUME MessagesTrue PROVE UsageAddsUp
  <2>1. messages \in Seq(Rows) BY <1>1 DEF MessagesTrue
  <2>2. \A i \in DOMAIN messages : messages[i] \in Rows BY <2>1
  <2>3. DOMAIN messages = 1..Len(messages) /\ Len(messages) \in Nat BY <2>1, LenProperties
  <2>4. IsFiniteSet(DOMAIN messages) BY <2>3, FS_Interval
  <2>5. \A i \in DOMAIN messages : messages[i].taken <= 1 BY <2>2 DEF Rows
  <2>6. ASSUME NEW t \in Tenants
        PROVE  /\ Usage(t).delivered <= Usage(t).sent /\ Usage(t).sent = Usage(t).billable
               /\ Usage(t).billable <= Cardinality({i \in DOMAIN messages :
                    messages[i].tenant = t /\ messages[i].taken > 0})
    <3> DEFINE rows == {i \in DOMAIN messages : messages[i].tenant = t /\ messages[i].row = "kept"}
               sent == {i \in rows : messages[i].status = "sent"}
               delivered == {i \in rows : messages[i].delivery = "delivered"}
               billable == {i \in rows : messages[i].billable}
               taken == {i \in DOMAIN messages : messages[i].tenant = t /\ messages[i].taken > 0}
    <3>1. Usage(t) = [sent |-> Cardinality(sent), delivered |-> Cardinality(delivered),
                      billable |-> Cardinality(billable)]
      BY DEF Usage
    <3>2. delivered \subseteq sent BY <2>2 DEF Rows
    <3>3. sent = billable BY <2>2 DEF Rows
    <3>4. sent \subseteq taken BY <2>2 DEF Rows
    <3>5. IsFiniteSet(sent) /\ IsFiniteSet(taken)
      <4>1. sent \subseteq DOMAIN messages /\ taken \subseteq DOMAIN messages OBVIOUS
      <4> QED BY <2>4, <4>1, FS_Subset
    <3> HIDE DEF sent, delivered, billable, taken
    <3>6. Cardinality(delivered) <= Cardinality(sent) BY <3>2, <3>5, FS_Subset
    <3>7. Cardinality(sent) <= Cardinality(taken) BY <3>4, <3>5, FS_Subset
    <3> QED BY <3>1, <3>3, <3>6, <3>7 DEF taken
  <2> QED BY <2>5, <2>6 DEF UsageAddsUp
<1>2. Kept => UsageAddsUp BY <1>1 DEF Kept
<1> QED BY <1>2, Keeps, PTL

(* _fire reads the register for every message: a borrower who opts out     *)
(* during any jobs gets from each at most the message under way, but for   *)
(* those that a failed lookup lets through (is_opted_out fails open).      *)
THEOREM OptOutHeld == Spec => []QuietAfterOptOut
<1>1. ASSUME Kept PROVE QuietAfterOptOut
  <2> SUFFICES ASSUME NEW r \in Runners, NEW x \in Tenants \X Phones
               PROVE  late[r][x] <= 1
    BY DEF QuietAfterOptOut
  <2>1. late[r][x] = 0 \/ late[r][x] = 1 BY <1>1 DEF Kept, LateOnce
  <2> QED BY <2>1
<1> QED BY <1>1, Keeps, PTL

(* run_all_jobs commits per DCP: a row is undone only by the failure of    *)
(* the transaction it was written in, for the DCP that this was about.     *)
THEOREM FailuresApart == Spec => FailuresStayApart
<1> DEFINE OwnOnly == \A i \in DOMAIN messages :
             (messages'[i].row = "void" /\ messages[i].row # "void")
               => \E r \in Runners : /\ messages[i].by = r
                                     /\ messages[i].tenant = work[r].tenant
<1>1. Kept /\ [Next]_vars => [OwnOnly]_vars
  <2> SUFFICES ASSUME Kept, Next, NEW i \in DOMAIN messages,
                      messages'[i].row = "void", messages[i].row # "void"
               PROVE  messages[i].row = "open"
    BY DEF Kept, OpenRows
  <2>1. ASSUME UNCHANGED messages PROVE FALSE BY <2>1
  <2>2. ASSUME NEW rs, NEW row \in {"kept", "void"}, Settle(rs, row), messages[i].row # "open"
        PROVE  FALSE
    BY <2>2, SettleType DEF Kept
  <2>3. ASSUME NEW m \in Rows, Record(m) PROVE FALSE
    BY <2>3, RecordType DEF Kept, TypeOK
  <2>4. ASSUME NEW r \in Runners, NEW first \in Attempts \cup {BadToken}, NEW second \in Attempts,
               Send(r, first, second)
        PROVE  FALSE
    <3>1. PICK m \in Rows : Record(m) BY <2>4, SentType DEF Kept
    <3> QED BY <2>3, <3>1
  <2>5. ASSUME NEW l \in Loans, NEW event \in Notices, NEW first \in Attempts \cup {BadToken},
               NEW second \in Attempts, Notice(l, event, first, second)
        PROVE  FALSE
    <3>1. PICK m \in Rows : Record(m) BY <2>5, NoticeType
    <3> QED BY <2>3, <3>1
  <2>6. ASSUME NEW j \in DOMAIN messages, NEW delivery \in Deliveries, Report(j, delivery) PROVE FALSE
    BY <2>6, ReportType DEF Kept
  <2>7. ASSUME NEW r \in Runners,
               \/ EnterLeg(r) \/ Flush(r)
               \/ \E l \in Loans : Visit(r, l) \/ \E lookup \in {"failed", "broken"} : VisitBlind(r, l, lookup)
        PROVE  FALSE
    BY <2>1, <2>7 DEF EnterLeg, Flush, Visit, VisitBlind
  <2>8. CASE Restart \/ \E r \in Runners : Commit(r) \/ Fail(r)
    BY <2>2, <2>8 DEF Restart, Commit, Fail
  <2> QED
    BY <2>1, <2>4, <2>5, <2>6, <2>7, <2>8
    DEF Next, Job, Tick, StartAll, RunNow, Pay, SetAutomation, SetTemplate, OptOut, OptIn
<1> QED BY <1>1, Keeps, PTL DEF Spec, FailuresStayApart
=============================================================================
