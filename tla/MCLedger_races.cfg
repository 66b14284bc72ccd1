\* Three threads: STK and approved payments of one loan, and what was parked of them moved to any.
SPECIFICATION Spec
CONSTANTS
  NoLoan = NoLoan
  l1 = l1
  l2 = l2
  Loans = {l1, l2}
  r1 = r1
  r2 = r2
  r3 = r3
  t1 = t1
  t2 = t2
  Receipts = {r1, r2}
  Amount <- MCAmount
  Target <- OneTarget
  Named <- NoNames
  Early = {r1, r2}
  Prompted = {r1, r2}
  Due = 3
  Unearned = 2
  Penalty = 1
  Channels = {"stk", "approved", "moved"}
  Sweeps = {}
  Threads = {"live", "retry", "staff"}
CHECK_DEADLOCK FALSE
INVARIANTS
  BalanceAgrees
PROPERTIES
  AccountSpec
