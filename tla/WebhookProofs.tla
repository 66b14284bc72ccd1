--------------------------- MODULE WebhookProofs ---------------------------
(***************************************************************************)
(* Proofs about Webhook, for any events, messages, attempts and crashes.   *)
(* The invariant is WebhookInv: that the two workers never hold one event  *)
(* (HeldApart) is what makes a settled event final.                        *)
(***************************************************************************)
EXTENDS Webhook, TLAPS

(* Whose paybill it is, is one of the DCPs or nobody. *)
LEMMA OwnerType == shortcode_to_tenant \in MaybeTenant
<1>1. \A owners : TheOne(owners) \in MaybeTenant BY DEF TheOne, MaybeTenant
<1> QED BY <1>1 DEF shortcode_to_tenant

LEMMA LabelType == \A m \in Messages : resolve_tenant_for_webhook(m) \in MaybeTenant
BY OwnerType, WebhookAssumption DEF resolve_tenant_for_webhook, WebhookAssumption, MaybeTenant

LEMMA InvInit == Init => WebhookInv
<1> SUFFICES ASSUME Init PROVE WebhookInv OBVIOUS
<1> USE WebhookAssumption DEF WebhookAssumption, Init, MaybeTenant
<1>1. TypeOK
  <2>1. [status : {"none"}, msg : Messages, attempts : {0}, body : {"kept"}, tenant : {NoTenant}]
          \subseteq [status : Status, msg : Messages, attempts : 0..MaxAttempts,
                     body : {"kept", "null"}, tenant : MaybeTenant]
    BY DEF Status
  <2>2. [step : {"idle"}, event : Events, tenant : {NoTenant}]
          \subseteq [step : Step, event : Events, tenant : MaybeTenant]
    BY DEF Step
  <2>3. event \in [Events -> [status : Status, msg : Messages, attempts : 0..MaxAttempts,
                            body : {"kept", "null"}, tenant : MaybeTenant]]
    <3> HIDE WebhookAssumption DEF WebhookAssumption
    <3> QED BY <2>1
  <2>4. work \in [Workers -> [step : Step, event : Events, tenant : MaybeTenant]] BY <2>2
  <2>5. bookings \in [Messages -> [Tenants -> Nat]] OBVIOUS
  <2> QED BY <2>3, <2>4, <2>5 DEF TypeOK
<1>2. BookedOnce BY DEF BookedOnce
<1>3. \A e \in Events : event[e].status = "none" /\ event[e].attempts = 0 OBVIOUS
<1>4. \A w \in Workers : At(w, "idle") BY DEF At
<1>5. NothingForgotten /\ AttemptsCounted BY <1>3 DEF NothingForgotten, AttemptsCounted
<1>6. HeldApart /\ OkIsBooked BY <1>4 DEF HeldApart, OkIsBooked, At, Workers
<1> QED BY <1>1, <1>2, <1>5, <1>6 DEF WebhookInv

Row  == [status : Status, msg : Messages, attempts : 0..MaxAttempts,
         body : {"kept", "null"}, tenant : MaybeTenant]
Hand == [step : Step, event : Events, tenant : MaybeTenant]

LEMMA TypeParts ==
  TypeOK <=> /\ event \in [Events -> Row] /\ work \in [Workers -> Hand]
             /\ bookings \in [Messages -> [Tenants -> Nat]]
             /\ claims \in SUBSET Tenants /\ restarts \in 0..MaxRestarts
BY DEF TypeOK, Row, Hand

(* What a worker's next step leaves alone. *)
LEMMA GoToFacts ==
  ASSUME TypeOK, NEW w \in Workers, NEW step \in Step, NEW t \in MaybeTenant, GoTo(w, step, t)
  PROVE  /\ work' \in [Workers -> Hand]
         /\ work'[w].step = step /\ work'[w].tenant = t /\ work'[w].event = work[w].event
         /\ \A v \in Workers : v # w => work'[v] = work[v]
<1>1. work \in [Workers -> Hand] /\ work[w] \in Hand BY TypeParts
<1> DEFINE hand == [work[w] EXCEPT !.step = step, !.tenant = t]
<1>2. hand \in Hand /\ hand.step = step /\ hand.tenant = t /\ hand.event = work[w].event
  BY <1>1 DEF Hand
<1>3. work' = [work EXCEPT ![w] = hand] BY <1>1 DEF GoTo, Hand
<1> HIDE DEF hand
<1> QED BY <1>1, <1>2, <1>3

(* A row that is replaced. *)
LEMMA RowFacts ==
  ASSUME TypeOK, NEW e \in Events, NEW row \in Row, event' = [event EXCEPT ![e] = row]
  PROVE  /\ event' \in [Events -> Row] /\ event'[e] = row
         /\ \A x \in Events : x # e => event'[x] = event[x]
BY TypeParts

(* What holds of each row, and of each worker's hand. *)
RowKept(e) ==
  /\ event[e].status = "processed" => Booked(event[e].msg) /\ event[e].tenant # NoTenant
  /\ event[e].status # "processed" => event[e].body = "kept"
  /\ event[e].status \in {"none", "received"} => event[e].attempts = 0
  /\ event[e].status = "failed" => event[e].attempts < MaxAttempts
  /\ event[e].status = "dead" => event[e].attempts = MaxAttempts

HandKept(w) ==
  /\ work[w].step # "idle"
       => event[work[w].event].status = IF w = "live" THEN "received" ELSE "failed"
  /\ work[w].step \in {"apply", "ok"} => work[w].tenant \in Tenants
  /\ work[w].step = "ok" => bookings[event[work[w].event].msg][work[w].tenant] > 0

LEMMA InvParts ==
  WebhookInv <=> /\ TypeOK /\ BookedOnce
                 /\ \A e \in Events : RowKept(e)
                 /\ \A w \in Workers : HandKept(w)
<1>1. (\A e \in Events : RowKept(e)) <=> NothingForgotten /\ AttemptsCounted
  BY DEF RowKept, NothingForgotten, AttemptsCounted
<1>2. (\A w \in Workers : HandKept(w)) <=> HeldApart /\ OkIsBooked
  BY DEF HandKept, HeldApart, OkIsBooked, At, InHand, Workers
<1> QED BY <1>1, <1>2 DEF WebhookInv

LEMMA InvPartsNext ==
  /\ TypeOK' /\ BookedOnce'
  /\ \A e \in Events : RowKept(e)'
  /\ \A w \in Workers : HandKept(w)'
  => WebhookInv'
<1> SUFFICES ASSUME TypeOK', BookedOnce', \A e \in Events : RowKept(e)',
                    \A w \in Workers : HandKept(w)'
             PROVE  WebhookInv'
  OBVIOUS
<1>1. NothingForgotten' /\ AttemptsCounted' BY DEF RowKept, NothingForgotten, AttemptsCounted
<1>2. HeldApart' /\ OkIsBooked' BY DEF HandKept, HeldApart, OkIsBooked, At, InHand, Workers
<1> QED BY <1>1, <1>2 DEF WebhookInv

(* A worker takes its next step, the rows and bookings as they are. *)
LEMMA WorkStep ==
  ASSUME WebhookInv, NEW w \in Workers, NEW step \in Step, NEW t \in MaybeTenant,
         GoTo(w, step, t), UNCHANGED <<event, bookings, claims, restarts>>,
         work[w].step # "idle",
         step \in {"apply", "ok"} => t \in Tenants,
         step = "ok" => bookings[event[work[w].event].msg][t] > 0
  PROVE  WebhookInv'
<1>1. TypeOK /\ BookedOnce BY DEF WebhookInv
<1>2. /\ work' \in [Workers -> Hand]
      /\ work'[w].step = step /\ work'[w].tenant = t /\ work'[w].event = work[w].event
      /\ \A v \in Workers : v # w => work'[v] = work[v]
  BY <1>1, GoToFacts
<1>3. TypeOK' BY <1>1, <1>2, TypeParts DEF TypeOK, Hand
<1>4. BookedOnce' BY <1>1 DEF BookedOnce
<1>5. \A e \in Events : RowKept(e)' BY InvParts DEF RowKept, Booked
<1>6. ASSUME NEW v \in Workers PROVE HandKept(v)'
  <2>1. HandKept(v) /\ HandKept(w) BY InvParts
  <2>2. CASE v = w BY <1>2, <2>1, <2>2 DEF HandKept
  <2>3. CASE v # w BY <1>2, <2>1, <2>3 DEF HandKept
  <2> QED BY <2>2, <2>3
<1> QED BY <1>3, <1>4, <1>5, <1>6, InvPartsNext

(* The end of an attempt: the row that was in hand is replaced. *)
LEMMA MarkStep ==
  ASSUME WebhookInv, NEW w \in Workers, NEW row \in Row, work[w].step # "idle",
         event' = [event EXCEPT ![work[w].event] = row],
         GoTo(w, "idle", NoTenant), UNCHANGED <<bookings, claims, restarts>>,
         row.status = "processed" => Booked(row.msg) /\ row.tenant # NoTenant,
         row.status # "processed" => row.body = "kept",
         row.status \in {"processed", "failed", "dead"},
         row.status = "failed" => row.attempts < MaxAttempts,
         row.status = "dead" => row.attempts = MaxAttempts
  PROVE  WebhookInv'
<1> DEFINE e == work[w].event
<1>1. TypeOK /\ BookedOnce /\ e \in Events BY TypeParts DEF WebhookInv, Hand
<1>2. "idle" \in Step /\ NoTenant \in MaybeTenant BY DEF Step, MaybeTenant
<1>3. /\ work' \in [Workers -> Hand]
      /\ work'[w].step = "idle" /\ work'[w].event = work[w].event
      /\ \A v \in Workers : v # w => work'[v] = work[v]
  BY <1>1, <1>2, GoToFacts
<1>4. /\ event' \in [Events -> Row] /\ event'[e] = row
      /\ \A x \in Events : x # e => event'[x] = event[x]
  BY <1>1, RowFacts
<1>5. TypeOK' BY <1>1, <1>3, <1>4, TypeParts DEF TypeOK, Hand, Row
<1>6. BookedOnce' BY <1>1 DEF BookedOnce
<1>7. ASSUME NEW x \in Events PROVE RowKept(x)'
  <2>1. CASE x = e BY <1>4, <2>1 DEF RowKept, Booked
  <2>2. CASE x # e
    <3>1. RowKept(x) /\ event'[x] = event[x] BY <1>4, <2>2, InvParts
    <3> QED BY <3>1 DEF RowKept, Booked
  <2> QED BY <2>1, <2>2
<1>8. ASSUME NEW v \in Workers PROVE HandKept(v)'
  <2>1. HandKept(v) /\ HandKept(w) BY InvParts
  <2>2. CASE v = w BY <1>3, <2>2 DEF HandKept
  <2>3. CASE v # w /\ work[v].step # "idle"
    <3>1. work'[v] = work[v] /\ work[v].event \in Events
      BY <1>1, <1>3, <2>3, TypeParts DEF Hand
    <3>2. work[v].event # e BY <2>1, <2>3 DEF HandKept, Workers
    <3>3. event'[work[v].event] = event[work[v].event] BY <1>4, <3>1, <3>2
    <3> QED BY <2>1, <3>1, <3>3 DEF HandKept
  <2>4. CASE v # w /\ work[v].step = "idle" BY <1>3, <2>4 DEF HandKept
  <2> QED BY <2>2, <2>3, <2>4
<1> QED BY <1>5, <1>6, <1>7, <1>8, InvPartsNext

LEMMA InvStep == WebhookInv /\ [Next]_vars => WebhookInv'
<1> SUFFICES ASSUME WebhookInv, [Next]_vars PROVE WebhookInv' OBVIOUS
<1>0. /\ TypeOK /\ BookedOnce
      /\ \A e \in Events : RowKept(e)
      /\ \A w \in Workers : HandKept(w)
  BY InvParts
<1>a. NoTenant \in MaybeTenant /\ Tenants \subseteq MaybeTenant /\ NoTenant \notin Tenants
  BY WebhookAssumption DEF MaybeTenant, WebhookAssumption
<1>b. \A w \in Workers : /\ work[w] \in Hand /\ work[w].event \in Events
                         /\ event[work[w].event] \in Row
                         /\ event[work[w].event].msg \in Messages
  BY <1>0, TypeParts DEF Hand, Row
<1>1. ASSUME NEW e \in Events, Receive(e) PROVE WebhookInv'
  <2> DEFINE row == [event[e] EXCEPT !.status = "received",
                                     !.tenant = resolve_tenant_for_webhook(event[e].msg)]
             hand == [step |-> "check", event |-> e, tenant |-> NoTenant]
  <2>1. event[e] \in Row /\ event[e].msg \in Messages BY <1>0, TypeParts DEF Row
  <2>2. resolve_tenant_for_webhook(event[e].msg) \in MaybeTenant BY <2>1, LabelType
  <2>3. /\ row \in Row /\ row.status = "received" /\ row.body = event[e].body
        /\ row.attempts = event[e].attempts
    <3> HIDE DEF resolve_tenant_for_webhook
    <3> QED BY <2>1, <2>2 DEF Row, Status
  <2>4. event' = [event EXCEPT ![e] = row] BY <1>0, <1>1, TypeParts DEF Receive
  <2>5. work' = [work EXCEPT !["live"] = hand] /\ hand \in Hand
    BY <1>a, <1>1 DEF Receive, Hand, Step
  <2>6. event[e].status = "none" /\ work["live"].step = "idle"
        /\ UNCHANGED <<bookings, claims, restarts>>
    BY <1>1 DEF Receive, At
  <2> HIDE DEF row
  <2>7. /\ event' \in [Events -> Row] /\ event'[e] = row
        /\ \A x \in Events : x # e => event'[x] = event[x]
    BY <1>0, <2>3, <2>4, RowFacts
  <2>8. /\ work' \in [Workers -> Hand] /\ work'["live"] = hand
        /\ work'["retry"] = work["retry"]
    BY <1>0, <2>5, TypeParts DEF Workers
  <2>9. TypeOK' BY <1>0, <2>6, <2>7, <2>8, TypeParts DEF TypeOK, Hand, Row
  <2>10. BookedOnce' BY <1>0, <2>6 DEF BookedOnce
  <2>11. ASSUME NEW x \in Events PROVE RowKept(x)'
    <3>1. RowKept(x) /\ RowKept(e) BY <1>0
    <3>2. CASE x = e BY <2>3, <2>6, <2>7, <3>1, <3>2 DEF RowKept
    <3>3. CASE x # e BY <2>6, <2>7, <3>1, <3>3 DEF RowKept, Booked
    <3> QED BY <3>2, <3>3
  <2>12. HandKept("live")' BY <2>3, <2>7, <2>8 DEF HandKept
  <2>13. HandKept("retry")'
    <3>1. HandKept("retry") BY <1>0 DEF Workers
    <3>2. CASE work["retry"].step = "idle" BY <2>8, <3>2 DEF HandKept
    <3>3. CASE work["retry"].step # "idle"
      <4>1. work["retry"].event \in Events /\ work["retry"].event # e
        BY <1>b, <2>6, <3>1, <3>3 DEF HandKept, Workers
      <4>2. event'[work["retry"].event] = event[work["retry"].event] BY <2>7, <4>1
      <4> QED BY <2>6, <2>8, <3>1, <4>2 DEF HandKept
    <3> QED BY <3>2, <3>3
  <2> QED BY <2>9, <2>10, <2>11, <2>12, <2>13, InvPartsNext DEF Workers
<1>2. ASSUME NEW e \in Events, PickDue(e) PROVE WebhookInv'
  <2> DEFINE hand == [step |-> "check", event |-> e, tenant |-> NoTenant]
  <2>1. work' = [work EXCEPT !["retry"] = hand] /\ hand \in Hand
    BY <1>a, <1>2 DEF PickDue, Hand, Step
  <2>2. event[e].status = "failed" /\ UNCHANGED <<event, bookings, claims, restarts>>
    BY <1>2 DEF PickDue
  <2>3. /\ work' \in [Workers -> Hand] /\ work'["retry"] = hand
        /\ work'["live"] = work["live"]
    BY <1>0, <2>1, TypeParts DEF Workers
  <2>4. TypeOK' BY <1>0, <2>2, <2>3, TypeParts DEF TypeOK, Hand
  <2>5. BookedOnce' BY <1>0, <2>2 DEF BookedOnce
  <2>6. \A x \in Events : RowKept(x)' BY <1>0, <2>2 DEF RowKept, Booked
  <2>7. HandKept("retry")' BY <2>2, <2>3 DEF HandKept
  <2>8. HandKept("live")' BY <1>0, <2>2, <2>3 DEF HandKept, Workers
  <2> QED BY <2>4, <2>5, <2>6, <2>7, <2>8, InvPartsNext DEF Workers
<1>3. ASSUME NEW e \in Events, Purge(e) PROVE WebhookInv'
  <2> DEFINE row == [event[e] EXCEPT !.body = "null"]
  <2>1. event[e] \in Row BY <1>0, TypeParts
  <2>2. /\ row \in Row /\ row.status = event[e].status /\ row.msg = event[e].msg
        /\ row.attempts = event[e].attempts /\ row.tenant = event[e].tenant
    BY <2>1 DEF Row
  <2>3. event' = [event EXCEPT ![e] = row] /\ event[e].status = "processed"
        /\ UNCHANGED <<work, bookings, claims, restarts>>
    BY <1>0, <1>3, TypeParts DEF Purge
  <2> HIDE DEF row
  <2>4. /\ event' \in [Events -> Row] /\ event'[e] = row
        /\ \A x \in Events : x # e => event'[x] = event[x]
    BY <1>0, <2>2, <2>3, RowFacts
  <2>5. TypeOK' BY <1>0, <2>3, <2>4, TypeParts DEF TypeOK, Row
  <2>6. BookedOnce' BY <1>0, <2>3 DEF BookedOnce
  <2>7. ASSUME NEW x \in Events PROVE RowKept(x)'
    <3>1. RowKept(x) BY <1>0
    <3>2. CASE x = e BY <2>2, <2>3, <2>4, <3>1, <3>2 DEF RowKept, Booked
    <3>3. CASE x # e BY <2>3, <2>4, <3>1, <3>3 DEF RowKept, Booked
    <3> QED BY <3>2, <3>3
  <2>8. \A x \in Events : event'[x].status = event[x].status /\ event'[x].msg = event[x].msg
    BY <2>2, <2>4
  <2>9. ASSUME NEW w \in Workers PROVE HandKept(w)'
    <3>1. HandKept(w) /\ work[w].event \in Events BY <1>0, <1>b
    <3> QED BY <2>3, <2>8, <3>1 DEF HandKept
  <2> QED BY <2>5, <2>6, <2>7, <2>9, InvPartsNext
<1>4. ASSUME NEW w \in Workers, Check(w) PROVE WebhookInv'
  <2> DEFINE t == shortcode_to_tenant
  <2>1. t \in MaybeTenant BY OwnerType
  <2>2. work[w].step # "idle" /\ UNCHANGED <<event, bookings, claims, restarts>>
    BY <1>4 DEF Check, At
  <2> HIDE DEF t
  <2>3. CASE t = NoTenant
    <3>1. GoTo(w, "error", NoTenant) BY <1>4, <2>3 DEF Check, Fails, t
    <3>2. "error" \in Step BY DEF Step
    <3> QED BY <1>a, <2>2, <3>1, <3>2, WorkStep
  <2>4. CASE t # NoTenant /\ bookings[event[work[w].event].msg][t] > 0
    <3>1. GoTo(w, "ok", t) BY <1>4, <2>4 DEF Check, InHand, t
    <3>2. "ok" \in Step /\ t \in Tenants BY <2>1, <2>4 DEF Step, MaybeTenant
    <3> QED BY <2>1, <2>2, <2>4, <3>1, <3>2, WorkStep
  <2>5. CASE t # NoTenant /\ ~(bookings[event[work[w].event].msg][t] > 0)
    <3>1. GoTo(w, "apply", t) BY <1>4, <2>5 DEF Check, InHand, t
    <3>2. "apply" \in Step /\ t \in Tenants BY <2>1, <2>5 DEF Step, MaybeTenant
    <3> QED BY <2>1, <2>2, <3>1, <3>2, WorkStep
  <2> QED BY <2>3, <2>4, <2>5
<1>5. ASSUME NEW w \in Workers, Apply(w) PROVE WebhookInv'
  <2> DEFINE t == work[w].tenant
             m == event[work[w].event].msg
  <2>1. t \in Tenants /\ m \in Messages /\ t \in MaybeTenant
    BY <1>0, <1>5, <1>a, <1>b DEF Apply, At, HandKept
  <2>2. work[w].step # "idle" /\ UNCHANGED <<event, claims, restarts>>
    BY <1>5 DEF Apply, At
  <2>3. "ok" \in Step /\ "error" \in Step BY DEF Step
  <2>4. CASE bookings[m][t] > 0
    <3>1. UNCHANGED bookings /\ (GoTo(w, "ok", t) \/ GoTo(w, "error", NoTenant))
      BY <1>5, <2>4 DEF Apply, InHand, Fails
    <3>2. CASE GoTo(w, "ok", t) BY <2>1, <2>2, <2>3, <2>4, <3>1, <3>2, WorkStep
    <3>3. CASE GoTo(w, "error", NoTenant) BY <1>a, <2>2, <2>3, <3>1, <3>3, WorkStep
    <3> QED BY <3>1, <3>2, <3>3
  <2>5. CASE ~(bookings[m][t] > 0)
    <3>1. GoTo(w, "ok", t) /\ bookings' = [bookings EXCEPT ![m][t] = @ + 1]
      BY <1>5, <2>5 DEF Apply, Book, InHand
    <3>2. bookings \in [Messages -> [Tenants -> Nat]] BY <1>0, TypeParts
    <3>3. bookings[m][t] \in Nat /\ bookings[m] \in [Tenants -> Nat] BY <2>1, <3>2
    <3>4. bookings[m][t] = 0 BY <2>5, <3>3
    <3>5. /\ bookings' \in [Messages -> [Tenants -> Nat]]
          /\ bookings'[m][t] = 1
          /\ \A n \in Messages, u \in Tenants :
               n # m \/ u # t => bookings'[n][u] = bookings[n][u]
      <4> HIDE DEF m, t
      <4> DEFINE books == [bookings[m] EXCEPT ![t] = 1]
      <4>1. books \in [Tenants -> Nat] /\ books[t] = 1
            /\ \A u \in Tenants : u # t => books[u] = bookings[m][u]
        BY <2>1, <3>3
      <4>2. bookings' = [bookings EXCEPT ![m] = books] BY <2>1, <3>1, <3>2, <3>4
      <4> HIDE DEF books
      <4> QED BY <2>1, <3>2, <4>1, <4>2
    <3> HIDE DEF m, t
    <3>6. /\ work' \in [Workers -> Hand]
          /\ work'[w].step = "ok" /\ work'[w].tenant = t /\ work'[w].event = work[w].event
          /\ \A v \in Workers : v # w => work'[v] = work[v]
      BY <1>0, <2>1, <2>3, <3>1, GoToFacts
    <3>7. \A n \in Messages, u \in Tenants : bookings[n][u] > 0 => bookings'[n][u] > 0
      BY <2>1, <3>5
    <3>8. TypeOK' BY <1>0, <2>2, <3>5, <3>6, TypeParts DEF TypeOK, Hand
    <3>9. BookedOnce'
      <4>1. ASSUME NEW n \in Messages, NEW u \in Tenants PROVE bookings'[n][u] <= 1
        <5>1. CASE n = m /\ u = t BY <3>5, <5>1
        <5>2. CASE n # m \/ u # t BY <1>0, <3>5, <5>2 DEF BookedOnce
        <5> QED BY <5>1, <5>2
      <4> QED BY <4>1 DEF BookedOnce
    <3>10. ASSUME NEW x \in Events PROVE RowKept(x)'
      <4>1. RowKept(x) /\ event[x].msg \in Messages BY <1>0, TypeParts DEF Row
      <4>2. Booked(event[x].msg) => Booked(event[x].msg)' BY <2>2, <3>7, <4>1 DEF Booked
      <4> QED BY <2>2, <4>1, <4>2 DEF RowKept
    <3>11. ASSUME NEW v \in Workers PROVE HandKept(v)'
      <4>1. HandKept(v) /\ HandKept(w) /\ event[work[v].event].msg \in Messages BY <1>0, <1>b
      <4>2. CASE v = w
        <5>1. bookings'[event[work[w].event].msg][t] > 0 BY <3>5 DEF m
        <5> QED BY <2>1, <2>2, <3>6, <4>1, <4>2, <5>1 DEF HandKept
      <4>3. CASE v # w
        <5>1. work'[v] = work[v] BY <3>6, <4>3
        <5> QED BY <2>2, <3>7, <4>1, <5>1 DEF HandKept
      <4> QED BY <4>2, <4>3
    <3> QED BY <3>8, <3>9, <3>10, <3>11, InvPartsNext
  <2> QED BY <2>4, <2>5
<1>6. ASSUME NEW w \in Workers, Raise(w) PROVE WebhookInv'
  <2>1. /\ GoTo(w, "error", NoTenant) /\ work[w].step # "idle"
        /\ UNCHANGED <<event, bookings, claims, restarts>>
    BY <1>6 DEF Raise, Fails
  <2>2. "error" \in Step BY DEF Step
  <2> QED BY <1>a, <2>1, <2>2, WorkStep
<1>7. ASSUME NEW w \in Workers, MarkFailed(w) PROVE WebhookInv'
  <2> DEFINE e == work[w].event
             st == IF event[e].attempts + 1 >= MaxAttempts THEN "dead" ELSE "failed"
             row == [event[e] EXCEPT !.attempts = event[e].attempts + 1, !.status = st]
  <2>1. /\ GoTo(w, "idle", NoTenant) /\ work[w].step # "idle"
        /\ UNCHANGED <<bookings, claims, restarts>>
    BY <1>7 DEF MarkFailed, Drop, At
  <2>2. /\ event[e].status \in {"received", "failed"} /\ event[e].body = "kept"
        /\ event[e].attempts < MaxAttempts /\ event[e] \in Row
    <3>1. RowKept(e) /\ HandKept(w) BY <1>0, <1>b
    <3> QED BY <1>b, <2>1, <3>1, WebhookAssumption DEF RowKept, HandKept, WebhookAssumption
  <2>3. event[e].attempts + 1 \in 0..MaxAttempts
    BY <2>2, WebhookAssumption DEF Row, WebhookAssumption
  <2>4. /\ st \in {"dead", "failed"}
        /\ st = "failed" => event[e].attempts + 1 < MaxAttempts
        /\ st = "dead" => event[e].attempts + 1 = MaxAttempts
    BY <2>2, <2>3, WebhookAssumption DEF Row, WebhookAssumption
  <2> HIDE DEF st
  <2>5. /\ row \in Row /\ row.status = st /\ row.attempts = event[e].attempts + 1
        /\ row.body = "kept"
    BY <2>2, <2>3, <2>4 DEF Row, Status
  <2>6. event' = [event EXCEPT ![e] = row]
    BY <1>0, <1>7, <1>b, TypeParts DEF MarkFailed, InHand, st
  <2> HIDE DEF row
  <2> QED BY <2>1, <2>4, <2>5, <2>6, MarkStep
<1>8. ASSUME NEW w \in Workers, MarkProcessed(w) PROVE WebhookInv'
  <2> DEFINE e == work[w].event
             row == [event[e] EXCEPT !.status = "processed",
                       !.tenant = IF event[e].tenant = NoTenant THEN work[w].tenant
                                  ELSE event[e].tenant]
  <2>1. /\ GoTo(w, "idle", NoTenant) /\ work[w].step = "ok"
        /\ UNCHANGED <<bookings, claims, restarts>>
    BY <1>8 DEF MarkProcessed, Drop, At
  <2>2. /\ work[w].tenant \in Tenants /\ event[e] \in Row
        /\ bookings[event[e].msg][work[w].tenant] > 0
    BY <1>0, <1>b, <2>1 DEF HandKept
  <2>3. Booked(event[e].msg) BY <2>2 DEF Booked
  <2>4. /\ row \in Row /\ row.status = "processed" /\ row.msg = event[e].msg
        /\ row.tenant # NoTenant
    BY <1>a, <2>2 DEF Row, Status, MaybeTenant
  <2>5. event' = [event EXCEPT ![e] = row]
    BY <1>0, <1>8, <1>b, TypeParts DEF MarkProcessed
  <2> HIDE DEF row
  <2> QED BY <2>1, <2>3, <2>4, <2>5, MarkStep
<1>9. ASSUME NEW t \in Tenants, ChangeRouting(t) PROVE WebhookInv'
  <2>1. TypeOK' BY <1>0, <1>9 DEF ChangeRouting, TypeOK
  <2>2. BookedOnce' BY <1>0, <1>9 DEF ChangeRouting, BookedOnce
  <2>3. \A e \in Events : RowKept(e)' BY <1>0, <1>9 DEF ChangeRouting, RowKept, Booked
  <2>4. \A w \in Workers : HandKept(w)' BY <1>0, <1>9 DEF ChangeRouting, HandKept
  <2> QED BY <2>1, <2>2, <2>3, <2>4, InvPartsNext
<1>10. CASE Restart
  <2>1. UNCHANGED <<event, bookings, claims>> /\ restarts' = restarts + 1
        /\ restarts < MaxRestarts
    BY <1>10 DEF Restart
  <2>2. ASSUME NEW w \in Workers
        PROVE  /\ [work[w] EXCEPT !.step = "idle", !.tenant = NoTenant] \in Hand
               /\ [work[w] EXCEPT !.step = "idle", !.tenant = NoTenant].step = "idle"
    BY <1>a, <1>b DEF Hand, Step
  <2>3. work' \in [Workers -> Hand] /\ \A w \in Workers : work'[w].step = "idle"
    BY <1>10, <2>2 DEF Restart
  <2>4. restarts' \in 0..MaxRestarts
    BY <1>0, <2>1, WebhookAssumption DEF TypeOK, WebhookAssumption
  <2>5. TypeOK' BY <1>0, <2>1, <2>3, <2>4, TypeParts DEF TypeOK, Hand
  <2>6. BookedOnce' BY <1>0, <2>1 DEF BookedOnce
  <2>7. \A e \in Events : RowKept(e)' BY <1>0, <2>1 DEF RowKept, Booked
  <2>8. \A w \in Workers : HandKept(w)' BY <2>3 DEF HandKept
  <2> QED BY <2>5, <2>6, <2>7, <2>8, InvPartsNext
<1>11. CASE UNCHANGED vars
  <2>1. UNCHANGED <<event, work, bookings, claims, restarts>> BY <1>11 DEF vars
  <2>2. TypeOK' BY <1>0, <2>1 DEF TypeOK
  <2>3. BookedOnce' BY <1>0, <2>1 DEF BookedOnce
  <2>4. \A e \in Events : RowKept(e)' BY <1>0, <2>1 DEF RowKept, Booked
  <2>5. \A w \in Workers : HandKept(w)' BY <1>0, <2>1 DEF HandKept
  <2> QED BY <2>2, <2>3, <2>4, <2>5, InvPartsNext
<1> QED BY <1>1, <1>2, <1>3, <1>4, <1>5, <1>6, <1>7, <1>8, <1>9, <1>10, <1>11 DEF Next, Process

(* The rows, the workers and the attempts are well typed (the attempts never *)
(* exceed MaxAttempts), for any number of events.                            *)
THEOREM TypeCorrect == Spec => []TypeOK
<1>1. WebhookInv => TypeOK BY DEF WebhookInv
<1> QED BY <1>1, InvInit, InvStep, PTL DEF Spec

(* A payment is booked at most once, over any deliveries, retries, races of *)
(* the two workers and crashes (record_event, reprocess_event).             *)
THEOREM NeverBookedTwice == Spec => []BookedOnce
<1>1. WebhookInv => BookedOnce BY DEF WebhookInv
<1> QED BY <1>1, InvInit, InvStep, PTL DEF Spec

(* What is processed is booked, and what is not keeps its body (purge).     *)
THEOREM NothingIsForgotten == Spec => []NothingForgotten
<1>1. WebhookInv => NothingForgotten BY DEF WebhookInv
<1> QED BY <1>1, InvInit, InvStep, PTL DEF Spec

LEMMA FinalStep ==
  WebhookInv /\ WebhookInv' /\ [Next]_vars =>
    \A e \in Events :
       /\ event[e].status \in {"processed", "dead"} => event'[e].status = event[e].status
       /\ event'[e].status = "dead" => event'[e].attempts = MaxAttempts
<1> SUFFICES ASSUME WebhookInv, WebhookInv', [Next]_vars, NEW e \in Events,
                    event[e].status \in {"processed", "dead"}
             PROVE  event'[e].status = event[e].status
  BY DEF WebhookInv, AttemptsCounted
<1> USE DEF WebhookInv, TypeOK
<1>1. \A w \in Workers : ~At(w, "idle") => work[w].event # e
  BY DEF HeldApart, InHand, Workers
<1>2. ASSUME NEW x \in Events, Receive(x) PROVE event'[e].status = event[e].status
  BY <1>2 DEF Receive
<1>3. ASSUME NEW x \in Events, PickDue(x) PROVE event'[e].status = event[e].status
  BY <1>3 DEF PickDue
<1>4. ASSUME NEW x \in Events, Purge(x) PROVE event'[e].status = event[e].status
  BY <1>4 DEF Purge
<1>5. ASSUME NEW w \in Workers, MarkFailed(w) PROVE event'[e].status = event[e].status
  BY <1>1, <1>5 DEF MarkFailed, At
<1>6. ASSUME NEW w \in Workers, MarkProcessed(w) PROVE event'[e].status = event[e].status
  BY <1>1, <1>6 DEF MarkProcessed, At
<1>7. ASSUME NEW w \in Workers, Check(w) \/ Apply(w) \/ Raise(w)
      PROVE  event'[e].status = event[e].status
  BY <1>7 DEF Check, Apply, Raise
<1>8. ASSUME NEW t \in Tenants, ChangeRouting(t) PROVE event'[e].status = event[e].status
  BY <1>8 DEF ChangeRouting
<1>9. CASE Restart BY <1>9 DEF Restart
<1>10. CASE UNCHANGED vars BY <1>10 DEF vars
<1> QED BY <1>2, <1>3, <1>4, <1>5, <1>6, <1>7, <1>8, <1>9, <1>10 DEF Next, Process

(* A processed or dead event is never taken up again (run_webhook_retry),   *)
(* and an event is given up only after MaxAttempts attempts (mark_failed).  *)
THEOREM SettledStays == Spec => SettledIsFinal
<1>1. Spec => []WebhookInv BY InvInit, InvStep, PTL DEF Spec
<1> QED BY <1>1, FinalStep, PTL DEF Spec, SettledIsFinal
===========================================================================
