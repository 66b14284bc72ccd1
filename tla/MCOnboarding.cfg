\* Two members of staff, two clients, one lead, one wallet.
CONSTANTS
  c1 = c1
  c2 = c2
  s1 = s1
  s2 = s2
  Clients = {c1, c2}
  Leads = {l1}
  Wallets = {w1}
  Numbers = {n1}
  Staff = {s1, s2}
  Policies <- MCPolicies
  MaxChecks = 2
  Nobody = Nobody
SPECIFICATION OnboardingSpec
PROPERTIES DecisionsGrounded DecidedStands ConvertedOnApproval
CHECK_DEADLOCK FALSE
SYMMETRY Symmetry
