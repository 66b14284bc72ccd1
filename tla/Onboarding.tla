---------------------------- MODULE Onboarding ----------------------------
(***************************************************************************)
(* From a lead to a client with a KYC decision: the branch manager's gate  *)
(* and the conversion of a lead (routers/crm.py), the checks of a client   *)
(* (routers/clients.py, face_validation.py, guarantors.py), the policy of  *)
(* the DCP (routers/validation_prefs.py) and the engine that decides       *)
(* (services/kyc_decisions.py).                                            *)
(*                                                                         *)
(* A request that calls a provider, or commits twice, is several steps.    *)
(* What it has read of a client it does not read again: the session keeps  *)
(* the row it loaded, whatever others commit meanwhile.                    *)
(***************************************************************************)
EXTENDS Naturals, FiniteSets

CONSTANTS Clients, Leads, Wallets, Numbers,
          Staff,       \* whose requests run
          Policies,    \* bound: what a DCP may choose to demand
          MaxChecks,   \* bound: checks of clients and changes of their data
          Nobody

CHECKS == {"age", "mpesa", "face", "alt_phone", "crb", "guarantor"}
Default == {"age", "mpesa"}
FaceResults == {"pass", "manual_review", "fail"}
KycStatus == {"draft", "validated", "escalation", "rejected"}

ASSUME OnboardingAssumption ==
  /\ Policies \subseteq SUBSET CHECKS
  /\ Nobody \notin Clients \cup Leads \cup Numbers /\ MaxChecks \in Nat

VARIABLES
  client,       \* of each client: its status, what it has passed, its data
  lead,         \* of each lead: the manager's word, the client, its decision
  wallet,       \* of each wallet: whose, which number, locked
  escalation,   \* of each client: its mismatch, as logged
  prefs,        \* the checks the DCP demands
  work,         \* what each member of staff has asked for
  window,       \* history: what was so at some moment of the request
  checks

stored == <<client, lead, wallet, escalation, prefs>>
onboarding == <<stored, work, window, checks>>

Absent == [kyc |-> "none", adult |-> FALSE, mpesa |-> FALSE, alt |-> "none",
           face |-> "not_run", crb |-> FALSE, guarantor |-> "none"]
Client == [kyc : KycStatus \cup {"none"}, adult : BOOLEAN, mpesa : BOOLEAN,
           alt : {"none", "stored", "validated"},
           face : FaceResults \cup {"not_run"}, crb : BOOLEAN,
           guarantor : {"none", "pending", "validated"}]
Decisions == {"none", "pass", "fail", "escalate"}
Lead == [approval : {"none", "new", "approved", "rejected"},
         client : Clients \cup {Nobody}, decision : Decisions]
Wallet == [client : Clients \cup {Nobody}, number : Numbers \cup {Nobody}, locked : BOOLEAN]
Idle == [step |-> "idle", client |-> Nobody, lead |-> Nobody, copy |-> Absent]
Work == [step : {"idle", "ekyc", "convert", "cascade"}, client : Clients \cup {Nobody},
         lead : Leads \cup {Nobody}, copy : Client]
NoRow == [client |-> Nobody, number |-> Nobody, locked |-> FALSE]

OnboardingInit ==
  /\ client = [c \in Clients |-> Absent]
  /\ lead = [l \in Leads |-> [approval |-> "none", client |-> Nobody, decision |-> "none"]]
  /\ wallet = [w \in Wallets |-> NoRow]
  /\ escalation = [c \in Clients |-> "none"]
  /\ prefs = Default
  /\ work = [s \in Staff |-> Idle]
  /\ window = [s \in Staff |-> [held |-> {}, missed |-> {}, open |-> FALSE, ready |-> FALSE]]
  /\ checks = 0

Known(c) == client[c].kyc # "none"
Check == checks < MaxChecks /\ checks' = checks + 1
----------------------------------------------------------------------------
(* The engine.                                                             *)

\* What a client's row says, and what the tables of faces, of bureau checks
\* and of guarantors say.
FromRow(row) == {k \in {"age"} : row.adult} \cup {k \in {"mpesa"} : row.mpesa}
                \cup {k \in {"alt_phone"} : row.alt = "validated"}
FromTables(c) == {k \in {"face"} : client[c].face = "pass"}
                 \cup {k \in {"guarantor"} : client[c].guarantor = "validated"}

Held(c) == FromRow(client[c]) \cup FromTables(c)

\* evaluate: a check that fails outweighs a face to be looked at.
Evaluate(c, row) ==
  LET missing == prefs \ (FromRow(row) \cup FromTables(c))
  IN CASE missing = {} -> "pass"
       [] missing = {"face"} /\ client[c].face = "manual_review" -> "escalate"
       [] OTHER -> "fail"

\* The query for the bureau's check names a column the table does not have.
Raises == "crb" \in prefs

KYC_STATUS_BY_DECISION ==
  [pass |-> "validated", escalate |-> "escalation", fail |-> "rejected"]
----------------------------------------------------------------------------
(* Leads.                                                                  *)

CreateLead(l) ==
  /\ lead[l].approval = "none"
  /\ lead' = [lead EXCEPT ![l].approval = "new"]
  /\ UNCHANGED <<client, wallet, escalation, prefs, work, checks>>

\* bm_approve_lead, bm_reject_lead: at any time, the last word stands.
BmSays(l, word) ==
  /\ lead[l].approval \notin {"none", word}
  /\ lead' = [lead EXCEPT ![l].approval = word]
  /\ UNCHANGED <<client, wallet, escalation, prefs, work, checks>>

BmApprove(l) == BmSays(l, "approved")
BmReject(l) == BmSays(l, "rejected")

Begin(s, step, c, l) ==
  /\ work[s] = Idle
  /\ work' = [work EXCEPT ![s] = [step |-> step, client |-> c, lead |-> l,
                                  copy |-> IF c = Nobody THEN Absent ELSE client[c]]]
End(s) == work' = [work EXCEPT ![s] = Idle]

ConvertibleFault(l) == lead[l].approval = "approved"   \* a fault: also once more

Convertible(l) == lead[l].approval = "approved" /\ lead[l].client = Nobody

\* convert_to_onboarding: the lead is looked at ...
BeginConvert(s, l) ==
  /\ Convertible(l)
  /\ Begin(s, "convert", Nobody, l)
  /\ UNCHANGED <<stored, checks>>

\* ... the client and the link are committed ...
Convert(s, c, adult) ==
  /\ work[s].step = "convert" /\ ~Known(c)
  /\ client' = [client EXCEPT ![c] = [Absent EXCEPT !.kyc = "draft", !.adult = adult]]
  /\ lead' = [lead EXCEPT ![work[s].lead].client = c]
  /\ work' = [work EXCEPT ![s].step = "cascade", ![s].client = c]
  /\ UNCHANGED <<wallet, escalation, prefs, checks>>

\* ... and the decision is noted on the lead, unless the engine raises.
Cascade(s) ==
  /\ work[s].step = "cascade"
  /\ lead' = IF Raises THEN lead
             ELSE [lead EXCEPT ![work[s].lead].decision =
                     Evaluate(work[s].client, client[work[s].client])]
  /\ End(s)
  /\ UNCHANGED <<client, wallet, escalation, prefs, checks>>
----------------------------------------------------------------------------
(* Clients and their checks.  A request is one step here.                  *)

Unmoved == UNCHANGED <<lead, escalation, prefs, work>>

\* create_client, with a date of birth of age or none.
CreateClient(c, adult) ==
  /\ ~Known(c)
  /\ client' = [client EXCEPT ![c] = [Absent EXCEPT !.kyc = "draft", !.adult = adult]]
  /\ Unmoved /\ UNCHANGED <<wallet, checks>>

AppliedFault(row, body) == [row EXCEPT !.adult = body.adult, !.kyc = body.kyc]   \* a fault

\* _apply_scalars: the fields of trust in the body are not taken.
Applied(row, body) == [row EXCEPT !.adult = body.adult]

\* _sync_nested: each row of the body is inserted, changed or missing.
Synced(c, rows) ==
  [w \in Wallets |->
     CASE wallet[w].client \notin {c, Nobody} -> wallet[w]
       [] rows[w] = Nobody -> NoRow
       [] OTHER -> [wallet[w] EXCEPT !.client = c, !.number = rows[w]]]

\* update_client, by somebody who may, of a client without a running loan.
UpdateClient(c, body, rows) ==
  /\ Known(c) /\ Check
  /\ client' = [client EXCEPT ![c] = Applied(@, body)]
  /\ wallet' = Synced(c, rows)
  /\ Unmoved

\* An approved edit request; the verdict on an alternate phone is kept.
ApproveEdit(c, adult) ==
  /\ Known(c) /\ Check
  /\ client' = [client EXCEPT ![c].adult = adult,
                              ![c].alt = IF @ = "none" THEN "stored" ELSE @]
  /\ Unmoved /\ UNCHANGED wallet

DeleteWallet(w) ==
  /\ wallet[w] # NoRow /\ Check
  /\ wallet' = [wallet EXCEPT ![w] = NoRow]
  /\ Unmoved /\ UNCHANGED client

\* validate_mpesa: a number that matches locks the wallets that carry it.
ValidateMpesa(c, number, matched) ==
  /\ Known(c) /\ Check
  /\ client' = [client EXCEPT ![c].mpesa = matched]
  /\ wallet' = [w \in Wallets |->
       [wallet[w] EXCEPT !.locked = @ \/ (matched /\ wallet[w].client = c
                                                  /\ wallet[w].number = number)]]
  /\ Unmoved

\* validate_alt_phone: the form decides, no name comes back.
ValidateAltPhone(c, wellFormed) ==
  /\ client[c].alt # "none" /\ Check
  /\ client' = [client EXCEPT ![c].alt = IF wellFormed THEN "validated" ELSE "stored"]
  /\ Unmoved /\ UNCHANGED wallet

\* face_validate: the latest log counts.
FaceValidate(c, result) ==
  /\ Known(c) /\ Check
  /\ client' = [client EXCEPT ![c].face = result]
  /\ Unmoved /\ UNCHANGED wallet

CrbCheck(c) ==
  /\ Known(c) /\ Check
  /\ client' = [client EXCEPT ![c].crb = TRUE]
  /\ Unmoved /\ UNCHANGED wallet

\* One guarantor of each client is followed.
AddGuarantor(c) ==
  /\ Known(c) /\ client[c].guarantor = "none" /\ Check
  /\ client' = [client EXCEPT ![c].guarantor = "pending"]
  /\ Unmoved /\ UNCHANGED wallet

DeleteGuarantor(c) ==
  /\ client[c].guarantor # "none" /\ Check
  /\ client' = [client EXCEPT ![c].guarantor = "none"]
  /\ Unmoved /\ UNCHANGED wallet

\* services/mpesa.py has neither validate_name nor name_check.
NameCheck == FALSE

ValidateGuarantor(c) ==
  /\ client[c].guarantor # "none" /\ Check
  /\ client' = [client EXCEPT ![c].guarantor = IF NameCheck THEN "validated" ELSE "pending"]
  /\ Unmoved /\ UNCHANGED wallet

LogEscalation(c) ==
  /\ Known(c) /\ escalation[c] = "none" /\ Check
  /\ escalation' = [escalation EXCEPT ![c] = "open"]
  /\ UNCHANGED <<client, lead, wallet, prefs, work>>

\* Any status, whatever the one before; the client's own stays what it is.
UpdateEscalation(c, status) ==
  /\ escalation[c] # "none" /\ Check
  /\ escalation' = [escalation EXCEPT ![c] = status]
  /\ UNCHANGED <<client, lead, wallet, prefs, work>>

UpdatePrefs(policy) ==
  /\ policy # prefs /\ Check
  /\ prefs' = policy
  /\ UNCHANGED <<client, lead, wallet, escalation, work>>
----------------------------------------------------------------------------
(* The decision.                                                           *)

\* ekyc_verify loads the client and calls the provider ...
BeginEkyc(s, c) ==
  /\ Known(c)
  /\ Begin(s, "ekyc", c, Nobody)
  /\ UNCHANGED <<stored, checks>>

OpenFault(status) == status \in KycStatus   \* a fault: what is decided is decided again

Open(status) == status \in {"draft", "escalation"}

\* ... whose answer is noted and decides nothing: the engine does, of the
\* row as it was loaded.  A column that keeps its value is not written.
Decide(s) ==
  LET c == work[s].client
      copy == work[s].copy
      status == KYC_STATUS_BY_DECISION[Evaluate(c, copy)]
  IN /\ work[s].step = "ekyc"
     /\ client' = IF Raises \/ ~Open(copy.kyc) \/ status = copy.kyc THEN client
                  ELSE [client EXCEPT ![c].kyc = status]
     /\ End(s)
     /\ UNCHANGED <<lead, wallet, escalation, prefs, checks>>

\* The provider refuses or does not answer: nothing is written.
ProviderFails(s) ==
  /\ work[s].step = "ekyc" /\ End(s)
  /\ UNCHANGED <<stored, checks>>

Restart ==
  /\ work' = [s \in Staff |-> Idle]
  /\ UNCHANGED <<stored, checks>>
----------------------------------------------------------------------------
\* What can be seen of a request's client and lead at this moment.
Look(s) ==
  LET c == work[s].client
      l == work[s].lead
      ekyc == work[s].step = "ekyc"
  IN [held   |-> IF ekyc THEN Held(c) ELSE {},
      missed |-> IF ekyc THEN CHECKS \ Held(c) ELSE {},
      open   |-> ekyc /\ client[c].kyc \notin {"validated", "rejected"},
      ready  |-> work[s].step = "convert" /\ lead[l].approval = "approved"
                                          /\ lead[l].client = Nobody]

\* History only: nothing reads it but the properties.
Watch == window' = [s \in Staff |->
  IF work[s].step # work'[s].step THEN Look(s)'
  ELSE [held   |-> window[s].held \cup Look(s)'.held,
        missed |-> window[s].missed \cup Look(s)'.missed,
        open   |-> window[s].open \/ Look(s)'.open,
        ready  |-> window[s].ready \/ Look(s)'.ready]]

OnLead(l) == CreateLead(l) \/ BmApprove(l) \/ BmReject(l)

OnClient(c) ==
  \/ \E adult \in BOOLEAN : CreateClient(c, adult) \/ ApproveEdit(c, adult)
  \/ \E body \in [adult : BOOLEAN, kyc : KycStatus], rows \in [Wallets -> Numbers \cup {Nobody}] :
       UpdateClient(c, body, rows)
  \/ \E number \in Numbers, matched \in BOOLEAN : ValidateMpesa(c, number, matched)
  \/ \E wellFormed \in BOOLEAN : ValidateAltPhone(c, wellFormed)
  \/ \E result \in FaceResults : FaceValidate(c, result)
  \/ CrbCheck(c)
  \/ AddGuarantor(c) \/ DeleteGuarantor(c) \/ ValidateGuarantor(c)
  \/ LogEscalation(c)
  \/ \E status \in {"open", "resolved", "overridden"} : UpdateEscalation(c, status)

OnRequest(s) ==
  \/ \E l \in Leads : BeginConvert(s, l)
  \/ \E c \in Clients, adult \in BOOLEAN : Convert(s, c, adult)
  \/ Cascade(s)
  \/ \E c \in Clients : BeginEkyc(s, c)
  \/ Decide(s) \/ ProviderFails(s)

OnboardingNext ==
  /\ \/ \E l \in Leads : OnLead(l)
     \/ \E c \in Clients : OnClient(c) /\ stored' # stored   \* else nothing happens
     \/ \E s \in Staff : OnRequest(s)
     \/ \E w \in Wallets : DeleteWallet(w)
     \/ \E policy \in Policies : UpdatePrefs(policy)
     \/ Restart
  /\ Watch

OnboardingSpec == OnboardingInit /\ [][OnboardingNext]_onboarding
----------------------------------------------------------------------------
OnboardingTypeOK ==
  /\ client \in [Clients -> Client]
  /\ lead \in [Leads -> Lead]
  /\ wallet \in [Wallets -> Wallet]
  /\ escalation \in [Clients -> {"none", "open", "resolved", "overridden"}]
  /\ prefs \in SUBSET CHECKS
  /\ work \in [Staff -> Work]
  /\ window \in [Staff -> [held : SUBSET CHECKS, missed : SUBSET CHECKS,
                           open : BOOLEAN, ready : BOOLEAN]]
  /\ checks \in 0..MaxChecks

(* A request that is deciding on a client. *)
Deciding(c) == {s \in Staff : work[s].step = "ekyc" /\ work[s].client = c}

(* The verdict of a client's KYC is the engine's: it becomes `validated`   *)
(* only by a request during which every check demanded was held at some    *)
(* moment, and `rejected` only by one during which one was missed.  The    *)
(* moments may differ: the row is older than the policy (ekyc_verify,      *)
(* authoritative_decision, _TRUST_FIELDS).                                 *)
DecisionsGrounded ==
  [][\A c \in Clients : client[c].kyc \notin {"none", client'[c].kyc} =>
       \E s \in Deciding(c) :
         CASE client'[c].kyc = "validated"  -> prefs \subseteq window[s].held
           [] client'[c].kyc = "escalation" -> prefs \subseteq window[s].held \cup {"face"}
           [] client'[c].kyc = "rejected"   -> prefs \cap window[s].missed # {}
           [] OTHER -> FALSE]_onboarding

(* A decision stands, rejected or validated, except against a request that *)
(* was already under way when it was taken (ekyc_verify, clients.py:588).  *)
DecidedStands ==
  [][\A c \in Clients :
       client[c].kyc \in {"validated", "rejected"} /\ client'[c].kyc # client[c].kyc =>
         \E s \in Deciding(c) : window[s].open]_onboarding

(* A lead becomes a client once and with the manager's word: a link is     *)
(* made, or made anew, only by a request during which the lead was         *)
(* approved and not yet converted (convert_to_onboarding).                 *)
ConvertedOnApproval ==
  [][\A l \in Leads : lead'[l].client # lead[l].client =>
       \E s \in Staff : work[s].step = "convert" /\ work[s].lead = l /\ window[s].ready]_onboarding

(* The comment at clients.py:629: once the M-Pesa check has locked a       *)
(* wallet its number cannot be swapped.                                    *)
LockedNumberFrozen ==
  [][\A w \in Wallets : wallet[w].locked => wallet'[w].number = wallet[w].number]_onboarding
=============================================================================
