--------------------------- MODULE PayoutPromise ---------------------------
(***************************************************************************)
(* What services/disbursement.py promises of a loan's payout, without      *)
(* requests, rows or callbacks: money leaves only while the loan is        *)
(* `processing`, at most one transfer is ever paid for it, the loan goes   *)
(* back to `approved` only if none was, and becomes `active` only if one   *)
(* was.                                                                    *)
(***************************************************************************)
CONSTANTS Loans, Payouts

VARIABLES loan,   \* Loan.status
          paid    \* the transfers paid for the loan

promiseVars == <<loan, paid>>

Init == /\ loan = [l \in Loans |-> "approved"]
        /\ paid = [l \in Loans |-> {}]

Move(l, from, to) == loan[l] = from /\ loan' = [loan EXCEPT ![l] = to]

Reserve(l) == Move(l, "approved", "processing") /\ UNCHANGED paid

Transfer(l) ==
  /\ loan[l] = "processing" /\ paid[l] = {}
  /\ \E p \in Payouts : paid' = [paid EXCEPT ![l] = {p}]
  /\ UNCHANGED loan

Release(l) == paid[l] = {} /\ Move(l, "processing", "approved") /\ UNCHANGED paid

(* The transfer is known by now; a simulated one counts from this step on. *)
Activate(l) ==
  /\ Move(l, "processing", "active")
  /\ \E p \in Payouts : paid[l] \subseteq {p} /\ paid' = [paid EXCEPT ![l] = {p}]

Close(l) == Move(l, "active", "paid") /\ UNCHANGED paid

Next == \E l \in Loans : Reserve(l) \/ Transfer(l) \/ Release(l) \/ Activate(l) \/ Close(l)

Spec == Init /\ [][Next]_promiseVars
===========================================================================
