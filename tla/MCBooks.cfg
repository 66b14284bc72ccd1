\* Two payments of any size and date, two products, one change of the settings.
SPECIFICATION Spec
CONSTANTS
  r1 = r1
  r2 = r2
  r3 = r3
  Refs = {r1, r2}
  Products <- Terms
  Principal = 10050
  Amounts <- Sums
  Threshold = 20000
  Weeks = 1
  Months = 2
  Grace = 0
  LastDay = 3
  LastSend = 0
  Late = 1
  MaxChanges = 1
  FirstOrder = "principal_fees_interest"
  FirstMethod = "daily"
SYMMETRY Symmetry
CHECK_DEADLOCK FALSE
INVARIANTS
  Accounted
  InDuplum
  BooksAddUp
  CashIsReal
PROPERTIES
  EarlyIsFair
