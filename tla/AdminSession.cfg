SPECIFICATION Spec
CONSTANTS
  Tabs = {t1, t2}
  Codes = {c1}
  Tokens = {k1, k2}
  Keyed = {k1}
  None = none
  Keep = keep
INVARIANTS TypeOK PairedBeforeUse
PROPERTIES ConnectionKept GrantNeverSilent PendingEnds
