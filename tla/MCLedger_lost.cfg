\* A paybill payment and a manual entry for one loan at the same time.
SPECIFICATION Spec
CONSTANTS
  NoLoan = NoLoan
  l1 = l1
  l2 = l2
  Loans = {l1}
  r1 = r1
  r2 = r2
  r3 = r3
  t1 = t1
  t2 = t2
  Receipts = {r1, r2}
  Amount <- MCAmount
  Target <- MCTarget
  Named <- NoNames
  Early = {}
  Prompted = {}
  Due = 3
  Unearned = 0
  Penalty = 1
  Channels = {"c2b", "manual"}
  Sweeps = {}
  Threads = {"live", "staff"}
CHECK_DEADLOCK FALSE
INVARIANTS
  BalanceAgrees
