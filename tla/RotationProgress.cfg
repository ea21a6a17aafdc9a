SPECIFICATION FairSpec
CONSTANTS
  Tokens = {t1, t2}
  Seeds = {seed}
  NoVersion = none
  Workers = {w1, w2}
  Tasks = {k1}
  MaxFaults = 2
  RollFirst = TRUE
  AllowAbandon = FALSE
PROPERTIES RotationCompletes ServiceCatchesUp
