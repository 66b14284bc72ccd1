----------------------------- MODULE MCWebhook -----------------------------
(* Small instances of Webhook for TLC. *)
EXTENDS Webhook

CONSTANTS e1, e2, m1, m2, t1, t2

(* One payment names a loan of the first DCP, the other no loan. *)
Accounts == [m \in Messages |-> IF m = m1 THEN t1 ELSE NoTenant]
===========================================================================
