SPECIFICATION Spec
CONSTANTS
  Tokens = {t1}
  Seeds = {seed}
  NoVersion = none
  Workers = {w1}
  Tasks = {k1}
  MaxFaults = 0
  RollFirst = TRUE
  AllowAbandon = TRUE
PROPERTY OnlyPendingPromoted
