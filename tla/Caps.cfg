SPECIFICATION Spec
CONSTANTS
  Requests = {r1, r2}
  Principals = {p1, p2}
  Emails = {mail}
  BareSubs = {bare}
  Groups = {}
  Amounts = {a1}
  Unlimited = unlimited
  NoCap = nocap
  PageSize = 5
  SearchFits = TRUE
  MaxRows = 2
SYMMETRY Symmetry
CHECK_DEADLOCK FALSE
INVARIANTS TypeOK AnswerHonest OneAddressOnePerson
PROPERTIES OnlyLiveCaps SetTakesEffect LegacyRowFirst ClearRemovesNamed
