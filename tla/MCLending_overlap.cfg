\* Two officers take applications at once, two of the staff decide, edit and review, one cashier settles.
SPECIFICATION Spec
CONSTANTS
  l1 = l1
  l2 = l2
  u1 = u1
  u2 = u2
  Nobody = Nobody
  Clients = {"c1"}
  Loans = {l1, l2}
  Principal <- MCPrincipal
  Edits = {"r1"}
  Users = {u1, u2}
  RoleOf <- MCRoleOf
  Enabled <- MCEnabled
  Limit <- MCLimit
  o1 = o1
  o2 = o2
  s1 = s1
  s2 = s2
  Officers = {o1, o2}
  Staff = {s1, s2}
  Cashiers = {"cashier"}
SYMMETRY Symmetry
CHECK_DEADLOCK FALSE
INVARIANTS
  CyclesDistinct
  ApprovedByRight
  LockFollowsLoans
PROPERTIES
  IdentityFrozen
  ReviewedForGood
  DecidedForGood
