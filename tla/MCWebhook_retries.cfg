\* Redeliveries, retries, races of the two workers, a crash, and a paybill that changes hands.
SPECIFICATION FairSpec
CONSTANTS
  e1 = e1
  e2 = e2
  m1 = m1
  m2 = m2
  t1 = t1
  t2 = t2
  NoTenant = NoTenant
  Tenants = {t1, t2}
  Payers = {t1}
  AccountOf <- Accounts
  Events = {e1, e2}
  Messages = {m1, m2}
  MaxAttempts = 2
  MaxRestarts = 1
CHECK_DEADLOCK FALSE
INVARIANTS
  BookedOnce
  NothingForgotten
PROPERTIES
  SettledIsFinal
  EventSettlesUnlessCutOff
