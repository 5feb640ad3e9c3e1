\* Two callers, one identifier and slot, two operators: three entries and
\* two keys ({o1} and {o2} share a key).  Four calls let both callers miss
\* one key before either stores it, a key expire while a caller is between
\* Get and Send, and a key be stored again after it expired.
CONSTANTS
  i1 = i1  s1 = s1  o1 = o1  o2 = o2  c1 = c1  c2 = c2
  NoEntry = NoEntry
  Identifiers <- MCIdentifiers
  Slots <- MCSlots
  Operators <- MCOperators
  Callers <- MCCallers
  UseNewAPI = FALSE
  MaxCalls = 4
SPECIFICATION Spec
PROPERTIES ExactDedup
\* The handler calls stop after MaxCalls; expiry then empties the cache.
CHECK_DEADLOCK FALSE
