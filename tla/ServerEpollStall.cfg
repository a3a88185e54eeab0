\* epoll, and a client that sends more than one recv() takes.
CONSTANTS
  c1 = c1  c2 = c2  c3 = c3
  Conn = {c1}
  NoConn = NoConn
  Fd = {4}
  RecvMax = 1
  Window = 2
  MaxSend = 2
  MayReset = {}
  Plain = {}
  Backends = {"epoll"}
  EVENT_BUFFER_SZ = 3
  NThreads = 1
  Single = FALSE
  MaxQueue = 4
SPECIFICATION FairSpec
PROPERTIES
  RequestAnswered
