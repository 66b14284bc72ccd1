\* Two DCPs, one of which files by hand too; a day before the window, two in it.
CONSTANTS
  t1 = t1
  t2 = t2
  Tenants = {t1, t2}
  Staff = {s1}
  Job = Job
  Window = {1, 2}
  LastDay = 2
  Books <- MCBooks
  MaxEvents = 2
  ByHand = {t1}
  Nil = {"overdue", "complaint"}
  Nobody = Nobody
SPECIFICATION Spec
CHECK_DEADLOCK FALSE
INVARIANTS LogTells JobFilesOnce ReferencesResolve
PROPERTIES EndsFiled
