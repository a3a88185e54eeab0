\* epoll, two workers, three clients over three descriptors (numbers are
\* reused, two of them share a worker), resets,
\* batches shorter than the ready list.
CONSTANTS
  c1 = c1  c2 = c2  c3 = c3
  Conn = {c1, c2, c3}
  NoConn = NoConn
  Fd = {4, 5, 6}
  RecvMax = 1
  Window = 1
  MaxSend = 1
  MayReset = {c1, c2, c3}
  Plain = {}
  Backends = {"epoll"}
  EVENT_BUFFER_SZ = 2
  NThreads = 2
  Single = FALSE
  MaxQueue = 4
SPECIFICATION Spec
SYMMETRY Symmetry
INVARIANTS
  TypeOK
  SessionOwnsFd
  NoLeakedDescriptor
  IteratingSessionExists
  NoMissedEdge
  CleanExit
PROPERTIES
  OnlyLeaversClosed
  ImplementsService
