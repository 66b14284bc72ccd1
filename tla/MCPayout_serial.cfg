\* One settlement at a time, three attempts to pay out one loan.
SPECIFICATION Spec
CONSTANTS
  l1 = l1
  p1 = p1
  p2 = p2
  p3 = p3
  s1 = s1
  s2 = s2
  Loans = {l1}
  Payouts = {p1, p2, p3}
  Settlers = {s1}
  LoanOf <- OneLoan
  Due = 2
  EarlyResolve = FALSE
  CredsChange = "idle"
  MaxRestarts = 1
SYMMETRY Symmetry
CHECK_DEADLOCK FALSE
INVARIANTS
  NoDoublePayout
PROPERTIES
  PromiseSpec
