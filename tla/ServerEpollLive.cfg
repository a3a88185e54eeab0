\* epoll, two clients of one worker: everything a client sends ahead of its replies fits in
\* one recv(), and one wait() can report every descriptor.
CONSTANTS
  c1 = c1  c2 = c2  c3 = c3
  Conn = {c1, c2}
  NoConn = NoConn
  Fd = {4, 5}
  RecvMax = 2
  Window = 2
  MaxSend = 2
  MayReset = {}
  Plain = {}
  Backends = {"epoll"}
  EVENT_BUFFER_SZ = 3
  NThreads = 1
  Single = FALSE
  MaxQueue = 4
SPECIFICATION FairSpec
PROPERTIES
  RequestAnswered
  LeaverReaped
  StopEnds
  ImplementsService
