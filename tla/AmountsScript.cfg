SPECIFICATION AmountSpec
CONSTANTS
  Typed = {0, 1, 8, 10}
  MaxTyped = 3
  MaxDigits = 6
  MaxSpend = 0
  Caps = {}
CHECK_DEADLOCK FALSE
INVARIANT ScriptExact
