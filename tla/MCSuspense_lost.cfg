\* A reversal Safaricom has taken and whose answer is lost.
SPECIFICATION Spec
CONSTANTS
  NoEntry = NoEntry
  e1 = e1
  q1 = q1
  q2 = q2
  q3 = q3
  t1 = t1
  t2 = t2
  t3 = t3
  t4 = t4
  Entries = {e1}
  Requests = {q1, q2, q3}
  EntryOf <- MCEntryOf
  Transfers = {t1, t2, t3, t4}
  RequestOf <- MCRequestOf
  Reversible = {e1}
  Excess = 0
  Settlers = {"settler"}
  EarlyResolve = FALSE
  LostReversals = TRUE
  MaxRestarts = 0
CHECK_DEADLOCK FALSE
INVARIANTS
  LeavesOnce
