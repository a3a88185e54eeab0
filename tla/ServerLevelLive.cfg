\* kqueue or WSAPoll, one ThreadSingle; c1 may reset and speaks no TLS, c2 sends more
\* than one recv() takes.
CONSTANTS
  c1 = c1  c2 = c2  c3 = c3
  Conn = {c1, c2}
  NoConn = NoConn
  Fd = {4, 5}
  RecvMax = 1
  Window = 2
  MaxSend = 2
  MayReset = {c1}
  Plain = {c1}
  Backends = {"kqueue", "wsapoll"}
  EVENT_BUFFER_SZ = 3
  NThreads = 1
  Single = TRUE
  MaxQueue = 4
SPECIFICATION FairSpec
INVARIANTS
  SessionOwnsFd
  NoLeakedDescriptor
PROPERTIES
  RequestAnswered
  LeaverReaped
