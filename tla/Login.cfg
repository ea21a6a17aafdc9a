SPECIFICATION Spec
CONSTANTS
  Threads = {t1, t2}
  Kids = {k1, k2}
  NoKid = NoKid
  Interval = 2
  FetchTime = 1
  MaxTime = 0
  Logins = {l1, l2, l3}
  Users = {alice, bob}
  Members = {alice}
  None = None
  Keep = Keep
SYMMETRY Symmetry
INVARIANTS LoginTypeOK CodeMeetsItsVerifier OneSessionPerLogin
CHECK_DEADLOCK FALSE
