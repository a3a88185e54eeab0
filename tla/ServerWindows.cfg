\* WSAPoll, one ThreadSingle; the second client is given the number of the
\* descriptor of the first.
CONSTANTS
  c1 = c1  c2 = c2  c3 = c3
  Conn = {c1, c2}
  NoConn = NoConn
  Fd = {4}
  RecvMax = 1
  Window = 1
  MaxSend = 1
  MayReset = {}
  Plain = {}
  Backends = {"wsapoll"}
  EVENT_BUFFER_SZ = 3
  NThreads = 1
  Single = TRUE
  MaxQueue = 4
SPECIFICATION FairSpec
PROPERTIES
  OnlyLeaversClosed
