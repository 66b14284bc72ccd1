\* One payment, delivered twice while the paybill changes hands.
SPECIFICATION Spec
CONSTANTS
  e1 = e1
  e2 = e2
  m1 = m1
  m2 = m2
  t1 = t1
  t2 = t2
  NoTenant = NoTenant
  Tenants = {t1, t2}
  Payers = {}
  AccountOf <- Accounts
  Events = {e1, e2}
  Messages = {m1}
  MaxAttempts = 2
  MaxRestarts = 0
CHECK_DEADLOCK FALSE
INVARIANTS
  CreditedInOneDcp
