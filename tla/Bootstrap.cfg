SPECIFICATION BFairSpec
CONSTANTS
  Tokens = {t1, t2}
  Seeds = {s1, s2, s3, s4}
  NoVersion = none
  Workers = {w1}
  Tasks = {k1}
  MaxFaults = 2
  RollFirst = TRUE
  AllowAbandon = TRUE
INVARIANTS BTypeOK SuccessMeansReady SecretUsable NoDeadCredential
PROPERTIES LivePasswordKept RequestAnswered
