------------------------------ MODULE Webhook ------------------------------
(***************************************************************************)
(* The durable queue between Safaricom's callbacks and the processors      *)
(* (services/webhook_security.py, routers/payments.py, the retry and purge *)
(* jobs of services/scheduler.py).  A callback is saved as an event, then  *)
(* processed, then marked; each of the three is a transaction of its own,  *)
(* so the process may die between any two.  The processor modelled is the  *)
(* C2B one: it asks which DCP the paybill belongs to, looks for the         *)
(* payment's reference among that DCP's, and books it there, under a        *)
(* unique index.  The settings that say whose paybill it is may change at   *)
(* any time.                                                                *)
(***************************************************************************)
EXTENDS Naturals

CONSTANTS
  Events,         \* rows of mpesa_webhook_events
  Messages,       \* the payments Safaricom has confirmed to one paybill, each a reference
  Tenants,        \* the DCPs
  NoTenant,
  Payers,         \* the DCPs with payments enabled, if the paybill is the platform's own
  AccountOf,      \* whose loan has the account number that was typed
  MaxAttempts,    \* WEBHOOK_MAX_ATTEMPTS
  MaxRestarts     \* how often the process dies (bound)

ASSUME WebhookAssumption ==
  /\ MaxAttempts \in Nat \ {0} /\ MaxRestarts \in Nat
  /\ Payers \subseteq Tenants /\ NoTenant \notin Tenants
  /\ AccountOf \in [Messages -> Tenants \cup {NoTenant}]

(* The event loop runs one callback from its first statement to its last;  *)
(* the retry job has max_instances=1.                                      *)
Workers == {"live", "retry"}

VARIABLES
  event,          \* the rows: processing_status, message, attempts, raw_payload kept?, tenant_id
  work,           \* for each worker: the event it has in hand, where it is, and for which DCP
  bookings,       \* how often a message has been booked, by DCP
  claims,         \* the DCPs whose Daraja settings name the paybill
  restarts

vars == <<event, work, bookings, claims, restarts>>

MaybeTenant == Tenants \cup {NoTenant}

Status == {"none", "received", "processed", "failed", "dead"}
Step   == {"idle", "check", "apply", "ok", "error"}

Init ==
  /\ event \in [Events -> [status : {"none"}, msg : Messages, attempts : {0}, body : {"kept"},
                       tenant : {NoTenant}]]
  /\ work \in [Workers -> [step : {"idle"}, event : Events, tenant : {NoTenant}]]
  /\ bookings = [m \in Messages |-> [t \in Tenants |-> 0]]
  /\ claims \in SUBSET Tenants
  /\ restarts = 0

At(w, step) == work[w].step = step

(* The next step of what is in hand, for this DCP. *)
GoTo(w, step, t) == work' = [work EXCEPT ![w].step = step, ![w].tenant = t]
Drop(w)          == GoTo(w, "idle", NoTenant)
Fails(w)         == GoTo(w, "error", NoTenant)

InHand(w) == event[work[w].event]

---------------------------------------------------------------------------
(* Two DCPs that claim one thing are not guessed between. *)
TheOne(owners) ==
  IF \E t \in Tenants : owners = {t} THEN CHOOSE t \in Tenants : owners = {t} ELSE NoTenant

(* The DCP whose settings name the paybill; if none does and it is the      *)
(* platform's own, the only one with payments enabled.                      *)
shortcode_to_tenant == TheOne(IF claims = {} THEN Payers ELSE claims)

(* Whose the event is said to be: the paybill decides, then the account. *)
resolve_tenant_for_webhook(m) ==
  IF shortcode_to_tenant # NoTenant THEN shortcode_to_tenant ELSE AccountOf[m]

(* record_event: the callback arrives, first time or again, and is saved in *)
(* a transaction of its own.                                                *)
Receive(e) ==
  /\ At("live", "idle") /\ event[e].status = "none"
  /\ event' = [event EXCEPT ![e].status = "received",
                            ![e].tenant = resolve_tenant_for_webhook(event[e].msg)]
  /\ work' = [work EXCEPT !["live"] = [step |-> "check", event |-> e, tenant |-> NoTenant]]
  /\ UNCHANGED <<bookings, claims, restarts>>

(* Seeded fault: the retry job takes the events nobody has finished. *)
PickDueFault(e) ==
  /\ At("retry", "idle") /\ event[e].status \in {"received", "failed"}
  /\ work' = [work EXCEPT !["retry"] = [step |-> "check", event |-> e, tenant |-> NoTenant]]
  /\ UNCHANGED <<event, bookings, claims, restarts>>

(* run_webhook_retry: a failed event whose next_retry_at has come. *)
PickDue(e) ==
  /\ At("retry", "idle") /\ event[e].status = "failed"
  /\ work' = [work EXCEPT !["retry"] = [step |-> "check", event |-> e, tenant |-> NoTenant]]
  /\ UNCHANGED <<event, bookings, claims, restarts>>

(* Where the processor goes from its look-ups: a paybill that is nobody's is *)
(* WebhookUnresolved, reference_already_used makes it a duplicate.          *)
Check(w) ==
  /\ At(w, "check")
  /\ LET t == shortcode_to_tenant IN
       IF t = NoTenant THEN Fails(w)
       ELSE GoTo(w, IF bookings[InHand(w).msg][t] > 0 THEN "ok" ELSE "apply", t)
  /\ UNCHANGED <<event, bookings, claims, restarts>>

Book(w) == bookings' = [bookings EXCEPT ![InHand(w).msg][work[w].tenant] = @ + 1]

(* Seeded fault: no unique index behind the look-up. *)
ApplyFault(w) ==
  /\ At(w, "apply")
  /\ GoTo(w, "ok", work[w].tenant) /\ Book(w)
  /\ UNCHANGED <<event, claims, restarts>>

(* The processor's commit, for the DCP that was found.  If the other worker  *)
(* has booked the message there meanwhile, apply_payment sees it under the   *)
(* loan's lock (a duplicate), or the unique index refuses the row.           *)
Apply(w) ==
  /\ At(w, "apply")
  /\ IF bookings[InHand(w).msg][work[w].tenant] > 0
       THEN (GoTo(w, "ok", work[w].tenant) \/ Fails(w)) /\ UNCHANGED bookings
       ELSE GoTo(w, "ok", work[w].tenant) /\ Book(w)
  /\ UNCHANGED <<event, claims, restarts>>

(* Any other exception, before the processor's commit or after it (when     *)
(* mark_processed itself fails).                                            *)
Raise(w) ==
  /\ work[w].step \in {"check", "apply", "ok"}
  /\ Fails(w)
  /\ UNCHANGED <<event, bookings, claims, restarts>>

(* Seeded fault: a failed attempt is not counted. *)
MarkFailedUncountedFault(w) ==
  /\ At(w, "error")
  /\ event' = [event EXCEPT ![work[w].event].status = "failed"]
  /\ Drop(w)
  /\ UNCHANGED <<bookings, claims, restarts>>

(* mark_failed: one attempt more, and `dead` (with an alert) at the limit. *)
MarkFailed(w) ==
  /\ At(w, "error")
  /\ event' = [event EXCEPT
       ![work[w].event].attempts = @ + 1,
       ![work[w].event].status =
         IF InHand(w).attempts + 1 >= MaxAttempts THEN "dead" ELSE "failed"]
  /\ Drop(w)
  /\ UNCHANGED <<bookings, claims, restarts>>

(* mark_processed: the row that was nobody's gets the DCP that was found. *)
MarkProcessed(w) ==
  /\ At(w, "ok")
  /\ event' = [event EXCEPT
       ![work[w].event].status = "processed",
       ![work[w].event].tenant = IF @ = NoTenant THEN work[w].tenant ELSE @]
  /\ Drop(w)
  /\ UNCHANGED <<bookings, claims, restarts>>

(* Seeded fault: the purge looks at the age of an event only. *)
PurgeFault(e) ==
  /\ event[e].status # "none" /\ event[e].body = "kept"
  /\ event' = [event EXCEPT ![e].body = "null"]
  /\ UNCHANGED <<work, bookings, claims, restarts>>

(* run_webhook_purge. *)
Purge(e) ==
  /\ event[e].status = "processed" /\ event[e].body = "kept"
  /\ event' = [event EXCEPT ![e].body = "null"]
  /\ UNCHANGED <<work, bookings, claims, restarts>>

(* The process dies and comes back, or loses the database before it can mark *)
(* an event: what is committed stays.                                        *)
Restart ==
  /\ restarts < MaxRestarts
  /\ restarts' = restarts + 1
  /\ work' = [w \in Workers |-> [work[w] EXCEPT !.step = "idle", !.tenant = NoTenant]]
  /\ UNCHANGED <<event, bookings, claims>>

(* A DCP saves or clears the paybill in its Daraja settings. *)
ChangeRouting(t) ==
  /\ claims' = IF t \in claims THEN claims \ {t} ELSE claims \cup {t}
  /\ UNCHANGED <<event, work, bookings, restarts>>

---------------------------------------------------------------------------
Process(w) == Check(w) \/ Apply(w) \/ Raise(w) \/ MarkFailed(w) \/ MarkProcessed(w)

Next ==
  \/ \E e \in Events : Receive(e) \/ PickDue(e) \/ Purge(e)
  \/ \E w \in Workers : Process(w)
  \/ \E t \in Tenants : ChangeRouting(t)
  \/ Restart

Spec == Init /\ [][Next]_vars

(* Both workers go on with what they have in hand, and the retry job, which *)
(* takes due events oldest first, comes to each of them.                    *)
FairSpec ==
  /\ Spec
  /\ \A w \in Workers : WF_vars(Process(w))
  /\ \A e \in Events : SF_vars(PickDue(e))

---------------------------------------------------------------------------
(* The types of the rows and of what is in hand. *)
TypeOK ==
  /\ event \in [Events -> [status : Status, msg : Messages, attempts : 0..MaxAttempts,
                           body : {"kept", "null"}, tenant : MaybeTenant]]
  /\ work \in [Workers -> [step : Step, event : Events, tenant : MaybeTenant]]
  /\ bookings \in [Messages -> [Tenants -> Nat]]
  /\ claims \in SUBSET Tenants
  /\ restarts \in 0..MaxRestarts

(* DARAJA_GO_LIVE 7.2: "a retry can never double-credit a loan": however    *)
(* often a payment is delivered and retried, no DCP books it twice.         *)
BookedOnce == \A m \in Messages, t \in Tenants : bookings[m][t] <= 1

Booked(m) == \E t \in Tenants : bookings[m][t] > 0

(* What is marked processed has been booked and says for whom, and every    *)
(* other event still has the body it would be booked (or looked into) from. *)
NothingForgotten ==
  \A e \in Events : /\ event[e].status = "processed"
                         => Booked(event[e].msg) /\ event[e].tenant # NoTenant
                    /\ event[e].status # "processed" => event[e].body = "kept"

(* "Never silently misrouting" (webhook_security): a payment is booked by   *)
(* one DCP.  It does not hold: references are unique within a DCP, so when   *)
(* the paybill changes hands between two deliveries of one payment, both     *)
(* DCPs book it.                                                             *)
CreditedInOneDcp ==
  \A m \in Messages, t, u \in Tenants : bookings[m][t] > 0 /\ bookings[m][u] > 0 => t = u

(* "A retry can never double-credit": an event that is settled is never taken *)
(* up again, and one that gives up has had its MaxAttempts attempts.         *)
SettledIsFinal ==
  [][\A e \in Events :
       /\ event[e].status \in {"processed", "dead"} => event'[e].status = event[e].status
       /\ event'[e].status = "dead" => event'[e].attempts = MaxAttempts]_vars

Settled(e) == event[e].status \in {"processed", "dead"}

(* "persisted ... before any processing, so no delivery is ever lost": what *)
(* was received is in the end booked or reported dead.                      *)
EventSettles == \A e \in Events : event[e].status = "received" ~> Settled(e)

(* The process died with the first delivery of the event in hand. *)
CutOff(e) == /\ restarts > 0 /\ event[e].status = "received"
             /\ At("live", "idle") \/ work["live"].event # e

(* Only such an event is lost; every other one, and every one that is       *)
(* waiting for a retry, whatever dies, is in the end booked or reported.    *)
EventSettlesUnlessCutOff ==
  \A e \in Events : event[e].status \in {"received", "failed"} ~> Settled(e) \/ CutOff(e)

---------------------------------------------------------------------------
(* The inductive invariant of WebhookProofs.                               *)

(* The live callback works on a row it has just received, the retry job on  *)
(* a failed one: they never hold the same event.                            *)
HeldApart ==
  /\ ~At("live", "idle") => InHand("live").status = "received"
  /\ ~At("retry", "idle") => InHand("retry").status = "failed"

(* A worker past its look-ups has a DCP, and past its commit a booking. *)
OkIsBooked ==
  \A w \in Workers :
    /\ work[w].step \in {"apply", "ok"} => work[w].tenant \in Tenants
    /\ At(w, "ok") => bookings[InHand(w).msg][work[w].tenant] > 0

(* How many attempts a row has had, by its status. *)
AttemptsCounted ==
  \A e \in Events : /\ event[e].status \in {"none", "received"} => event[e].attempts = 0
                    /\ event[e].status = "failed" => event[e].attempts < MaxAttempts
                    /\ event[e].status = "dead" => event[e].attempts = MaxAttempts

WebhookInv == TypeOK /\ BookedOnce /\ NothingForgotten /\ HeldApart /\ OkIsBooked
              /\ AttemptsCounted
===========================================================================
