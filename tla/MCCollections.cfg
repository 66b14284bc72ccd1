\* Two promises of one officer on one loan.
CONSTANTS
  Promises = {p1, p2}
  Loans = {l1}
  Reachable = {l1}
  Officers = {o1}
  Amounts = {1}
  LastDay = 2
  MonthOf <- MCMonthOf
  MaxOrders = 2
SPECIFICATION Spec
CHECK_DEADLOCK FALSE
PROPERTIES PromisesReminded
