SPECIFICATION Spec
CONSTANTS
  Threads = {t1, t2}
  MaxTime = 4
  Kids = {k1, k2}
  NoKid = NoKid
  Interval = 2
  FetchTime = 1
  Certs = {c1, c2}
  Failure = Failure
  SuccessTtl = 3
  FailureTtl = 1
  Builds = {b1, b2}
  NoFile = NoFile
  Partial = Partial
  Downloads = {d1}
  Typed = {0, 1, 8, 10, 11}
  MaxTyped = 5
  MaxDigits = 4
  MaxSpend = 150
  Caps = {0, 1, 3, 7}
  Tokens = {a, b}
  Odd = {odd}
  Absent = absent
  MaxEntries = 2
  MaxTeams = 2
SYMMETRY Symmetry
INVARIANTS KeyTypeOK KeyPickup FingerprintSettles DownloadTypeOK InstalledAsAudited RefusedOnlyIfTorn AmountExact UsageHonest OfferedIsAccepted
PROPERTIES RefetchThrottled
CHECK_DEADLOCK FALSE
