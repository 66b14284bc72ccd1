---------------------------- MODULE MCMessaging ----------------------------
(* Two DCPs, two loans of one borrower with the first, the hourly call and   *)
(* one member of staff.                                                      *)
EXTENDS Messaging

MCTenantOf == [l \in Loans |-> 1]
MCPhoneOf == [l \in Loans |-> "phone"]
MCBatches == {<<"defaulted">>}
MCDue == [l \in Loans |-> 0]
============================================================================
