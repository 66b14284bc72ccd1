\* Two threads: callbacks, staff, allocations and both sweeps at the same time, early payoffs of nothing included.
SPECIFICATION Spec
CONSTANTS
  NoLoan = NoLoan
  l1 = l1
  l2 = l2
  Loans = {l1, l2}
  r1 = r1
  r2 = r2
  r3 = r3
  Receipts = {r1, r3}
  Amount <- MCAmount
  Target <- MCTarget
  Named <- MCNamed
  Early = {r1}
  Prompted = {r1}
  Due = 1
  Unearned = 1
  Penalty = 1
  Channels = {"c2b", "stk", "manual", "allocate"}
  Sweeps = {"overdue", "default"}
  t1 = t1
  t2 = t2
  Threads = {t1, t2}
SYMMETRY Symmetry
CHECK_DEADLOCK FALSE
INVARIANTS
  BookedOnce
PROPERTIES
  PaidIsFinal
