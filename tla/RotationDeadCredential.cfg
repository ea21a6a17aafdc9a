SPECIFICATION Spec
CONSTANTS
  Tokens = {t1, t2}
  Seeds = {seed}
  NoVersion = none
  Workers = {w1}
  Tasks = {k1}
  MaxFaults = 1
  RollFirst = FALSE
  AllowAbandon = FALSE
INVARIANT NoDeadCredential
