\* One member of staff, one client, one wallet.
CONSTANTS
  c1 = c1
  c2 = c2
  s1 = s1
  s2 = s2
  Clients = {c1}
  Leads = {l1}
  Wallets = {w1}
  Numbers = {n1, n2}
  Staff = {s1}
  Policies <- MCPolicies
  MaxChecks = 3
  Nobody = Nobody
SPECIFICATION OnboardingSpec
PROPERTIES LockedNumberFrozen
CHECK_DEADLOCK FALSE
