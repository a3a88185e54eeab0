\* The same, without the assumption that no ::send is partial.
CONSTANTS
  Size = 2
  Capacity = 3
  MaxResponses = 3
  NBytes = {0, 2, 3, 7}
  MaxCalls = 3
SPECIFICATION Spec
INVARIANTS
  SentOnce
