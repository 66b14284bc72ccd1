\* Two settling threads, lost callbacks, a restart, and credentials that come and go.
SPECIFICATION FairSpec
CONSTANTS
  l1 = l1
  p1 = p1
  p2 = p2
  p3 = p3
  s1 = s1
  s2 = s2
  Loans = {l1}
  Payouts = {p1, p2}
  Settlers = {s1, s2}
  LoanOf <- OneLoan
  Due = 2
  EarlyResolve = FALSE
  CredsChange = "idle"
  MaxRestarts = 1
CHECK_DEADLOCK FALSE
INVARIANTS
  DurableIntent
  RecordIsTrue
PROPERTIES
  RepeatDeliveryIsNoOp
  PayoutDecided
