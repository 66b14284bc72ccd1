\* One settlement at a time: two requests about one entry, one refund of a loan approved twice.
SPECIFICATION Spec
CONSTANTS
  NoEntry = NoEntry
  e1 = e1
  q1 = q1
  q2 = q2
  q3 = q3
  t1 = t1
  t2 = t2
  t3 = t3
  t4 = t4
  Entries = {e1}
  Requests = {q1, q2, q3}
  EntryOf <- MCEntryOf
  Transfers = {t1, t2, t3, t4}
  RequestOf <- MCRequestOf
  Reversible = {e1}
  Excess = 1
  Settlers = {"settler"}
  EarlyResolve = FALSE
  LostReversals = FALSE
  MaxRestarts = 1
SYMMETRY Symmetry
CHECK_DEADLOCK FALSE
INVARIANTS
  LeavesOnce
  EntryMatchesMoney
  RefundsWithinExcess
PROPERTIES
  ResolvedIsFinal
