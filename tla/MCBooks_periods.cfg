\* The tenure unit of the product is changed while a loan runs.
SPECIFICATION Spec
CONSTANTS
  r1 = r1
  r2 = r2
  r3 = r3
  Refs = {r1, r2}
  Products <- Terms
  Principal = 10050
  Amounts <- Sums
  Threshold = 20000
  Weeks = 7
  Months = 30
  Grace = 0
  LastDay = 3
  LastSend = 0
  Late = 0
  MaxChanges = 1
  FirstOrder = "principal_fees_interest"
  FirstMethod = "daily"
CHECK_DEADLOCK FALSE
INVARIANTS
  NeverMoreThanDaily
