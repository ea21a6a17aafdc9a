SPECIFICATION Spec
CONSTANTS
  Requests = {r1}
  Principals = {p1}
  Emails = {mail}
  BareSubs = {}
  Groups = {}
  Amounts = {a1}
  Unlimited = unlimited
  NoCap = nocap
  PageSize = 9
  SearchFits = TRUE
  MaxRows = 2
CHECK_DEADLOCK FALSE
INVARIANT EveryChangeAudited
