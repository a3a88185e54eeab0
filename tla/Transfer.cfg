\* Three responses of two bytes through buffers that hold three.
CONSTANTS
  Size = 2
  Capacity = 3
  MaxResponses = 3
  NBytes = {0, 2, 3, 7}
  MaxCalls = 3
SPECIFICATION Spec
INVARIANTS
  SentOnceUnlessPartial
  ExactLength
  WholeResponses
