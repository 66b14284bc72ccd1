---------------------------- MODULE Collections ----------------------------
(***************************************************************************)
(* Collections (services/ptp.py, ratiba.py, collection_analytics.py and    *)
(* their jobs): promises to pay and their reminders, the officers' monthly *)
(* efficiency, and M-Pesa Ratiba standing orders.  A request and each row  *)
(* a job works on is a transaction of its own.                             *)
(***************************************************************************)
EXTENDS Naturals, Sequences, FiniteSets, FiniteSetsExt

CONSTANTS
  Promises,   \* the rows of promise_to_pay that may be inserted
  Loans,      \* the loans of one DCP
  Reachable,  \* those of them whose borrower has a phone
  Officers,   \* the users who log promises
  Amounts,    \* what is promised and what is collected
  LastDay,    \* bound: the days go 0..LastDay
  MonthOf,    \* the month of each day, in the order of the days
  MaxOrders   \* bound: consents, and standing orders, of a loan

Days == 0..LastDay
Months == {MonthOf[d] : d \in Days}

VARIABLES
  day,
  reminded,   \* has the job of 08:00 run today?
  ptp,        \* the promises
  efficiency, \* of an officer and a month: the row of collection_efficiency, if any
  consent,    \* of a loan: its rows of mpesa_ratiba_consents, oldest first
  orders      \* of a loan: the standing orders placed with M-Pesa

vars == <<day, reminded, ptp, efficiency, consent, orders>>

PTP_STATUSES == {"pending", "honored", "broken", "partial", "rescheduled"}
Legs == {"d_minus_1", "d_plus_1"}
PromiseToPay == [loan : Loans, by : Officers, date : Days, amount : Amounts,
                 status : PTP_STATUSES, honored : Amounts \cup {0}, sent : SUBSET Legs]
Efficiency == [logged : Nat, honored : Nat, broken : Nat, partial : Nat, promised : Nat, collected : Nat]
Consent == [given : BOOLEAN, status : {"none", "pending", "active"}]

\* No row yet.
Absent == [loan |-> CHOOSE l \in Loans : TRUE, by |-> CHOOSE o \in Officers : TRUE, date |-> 0,
           amount |-> 0, status |-> "none", honored |-> 0, sent |-> {}]
Logged == {p \in Promises : ptp[p] # Absent}

Init ==
  /\ day = 0 /\ reminded = FALSE
  /\ ptp = [p \in Promises |-> Absent]
  /\ efficiency = [o \in Officers |-> [m \in Months |-> {}]]
  /\ consent = [l \in Loans |-> <<>>]
  /\ orders = [l \in Loans |-> 0]
----------------------------------------------------------------------------
(* Promises to pay.                                                        *)

create(l, o, date, amount) ==
  [loan |-> l, by |-> o, date |-> date, amount |-> amount,
   status |-> "pending", honored |-> 0, sent |-> {}]

\* On any loan, for any day, whatever other promises it has.
create_ptp(p, l, o, date, amount) ==
  /\ p \notin Logged
  /\ ptp' = [ptp EXCEPT ![p] = create(l, o, date, amount)]
  /\ UNCHANGED <<day, reminded, efficiency, consent, orders>>

\* The amount is taken with an honored or a partial promise and stays when
\* the status changes again.
update_status(row, status, honored, date) ==
  [row EXCEPT !.status = status, !.date = date,
              !.honored = IF status \in {"honored", "partial"} THEN honored ELSE @]

\* Any status after any other; what the request leaves out keeps its value.
update_ptp(p, status, honored, date) ==
  /\ p \in Logged
  /\ ptp' = [ptp EXCEPT ![p] = update_status(@, status, honored, date)]
  /\ UNCHANGED <<day, reminded, efficiency, consent, orders>>

\* What run_ptp_reminders has to send today.
Leg(p) == IF ptp[p].date = day + 1 THEN "d_minus_1" ELSE "d_plus_1"
Due(p) ==
  /\ p \in Logged /\ ptp[p].status = "pending"
  /\ ptp[p].date = day + 1 \/ ptp[p].date + 1 = day
  /\ Leg(p) \notin ptp[p].sent /\ ptp[p].loan \in Reachable

\* send_sms has no parameter `category`: the call raises a TypeError and the
\* row is rolled back.
Sends(p) == FALSE

RunPtpReminders ==
  /\ ~reminded /\ reminded' = TRUE
  /\ ptp' = [p \in Promises |-> IF Due(p) /\ Sends(p)
                                THEN [ptp[p] EXCEPT !.sent = @ \cup {Leg(p)}] ELSE ptp[p]]
  /\ UNCHANGED <<day, efficiency, consent, orders>>
----------------------------------------------------------------------------
(* The officers' efficiency, computed on the first of a month at 02:00 in  *)
(* Nairobi.  It is still the last day of the month for a server in UTC.    *)

RowsOf(o, month) == {p \in Logged : ptp[p].by = o /\ MonthOf[ptp[p].date] = month}

compute_efficiency(o, month) ==
  LET rows == RowsOf(o, month)
      With(status) == Cardinality({p \in rows : ptp[p].status = status})
  IN [logged |-> Cardinality(rows), honored |-> With("honored"), broken |-> With("broken"),
      partial |-> With("partial"),
      promised |-> MapThenSumSet(LAMBDA p : ptp[p].amount, rows),
      collected |-> MapThenSumSet(LAMBDA p : ptp[p].honored, rows)]

\* compute_all_officers: those with a promise in the month; another row stays.
compute_all_officers(month) ==
  [o \in Officers |-> IF RowsOf(o, month) = {} THEN efficiency[o]
                      ELSE [efficiency[o] EXCEPT ![month] = {compute_efficiency(o, month)}]]

RunCollectionEfficiency ==
  efficiency' = IF MonthOf[day + 1] = MonthOf[day] THEN efficiency
                ELSE compute_all_officers(MonthOf[day])

NextDay ==
  /\ reminded /\ day < LastDay
  /\ day' = day + 1 /\ reminded' = FALSE
  /\ RunCollectionEfficiency
  /\ UNCHANGED <<ptp, consent, orders>>
----------------------------------------------------------------------------
(* M-Pesa Ratiba.                                                          *)

record_consent(given) == [given |-> given, status |-> IF given THEN "pending" ELSE "none"]

ratiba_consent(l, given) ==
  /\ Len(consent[l]) < MaxOrders
  /\ consent' = [consent EXCEPT ![l] = Append(@, record_consent(given))]
  /\ UNCHANGED <<day, reminded, ptp, efficiency, orders>>

\* _call_ratiba_api accepts every order.
RatibaAccepts(l) == orders[l] < MaxOrders /\ orders' = [orders EXCEPT ![l] = @ + 1]

\* The newest row with a consent, even if it has been used or a newer row
\* withdraws it.
initiate(l) ==
  \E i \in DOMAIN consent[l] :
    /\ consent[l][i].given
    /\ \A j \in DOMAIN consent[l] : consent[l][j].given => j <= i
    /\ consent' = [consent EXCEPT ![l][i].status = "active"]

ratiba_initiate(l) ==
  /\ RatibaAccepts(l) /\ initiate(l)
  /\ UNCHANGED <<day, reminded, ptp, efficiency>>
----------------------------------------------------------------------------
OfPromises ==
  \E p \in Promises, date \in Days :
    \/ \E l \in Loans, o \in Officers, amount \in Amounts : create_ptp(p, l, o, date, amount)
    \/ \E status \in PTP_STATUSES, honored \in Amounts \cup {ptp[p].honored} :
         update_ptp(p, status, honored, date)

OfRatiba == \E l \in Loans : ratiba_initiate(l) \/ \E given \in BOOLEAN : ratiba_consent(l, given)

Next == OfPromises \/ OfRatiba \/ RunPtpReminders \/ NextDay
Spec == Init /\ [][Next]_vars
----------------------------------------------------------------------------
TypeOK ==
  /\ day \in Days /\ reminded \in BOOLEAN
  /\ ptp \in [Promises -> PromiseToPay \cup {Absent}]
  /\ efficiency \in [Officers -> [Months -> SUBSET Efficiency]]
  /\ \A o \in Officers, m \in Months : Cardinality(efficiency[o][m]) <= 1
  /\ consent \in [Loans -> Seq(Consent)]
  /\ orders \in [Loans -> 0..MaxOrders]

(* The docstring at scheduler.py:172: a promise still pending on the eve   *)
(* of its day is reminded once the job has run.                            *)
PromisesReminded ==
  [][~reminded /\ reminded' =>
       \A p \in Promises : Due(p) => Leg(p) \in ptp'[p].sent]_vars
=============================================================================
