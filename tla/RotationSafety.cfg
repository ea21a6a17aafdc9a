SPECIFICATION Spec
CONSTANTS
  Tokens = {t1, t2, t3}
  Seeds = {seed}
  NoVersion = none
  Workers = {w1, w2}
  Tasks = {k1}
  MaxFaults = 2
  RollFirst = TRUE
  AllowAbandon = TRUE
SYMMETRY Symmetry
INVARIANTS TypeOK CurrentUsable PreviousUsable 
PROPERTIES Alternates RetiredStaysRetired RaisesHarmlessly KeepsPromise
