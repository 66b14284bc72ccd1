SPECIFICATION FairSpec
CONSTANTS
  Tenants = {1, 2}
  Loans = {l1, l2}
  TenantOf <- MCTenantOf
  PhoneOf <- MCPhoneOf
  Due <- MCDue
  Hours = {1, 2}
  DefaultHour = 1
  LastDay = 1
  ReminderDays = 1
  GraceDays = 0
  Cron = {cron}
  Staff = {staff}
  Batches <- MCBatches
  MaxMessages = 1
  MaxFaults = 1
  MaxChanges = 1
INVARIANTS
  UsageAddsUp
  QuietAfterOptOut
PROPERTIES
  EndsDefaulted
  FailuresStayApart
