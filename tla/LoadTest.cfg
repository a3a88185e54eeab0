\* Two threads, a host with two addresses.
CONSTANTS
  t1 = t1  t2 = t2
  Thread = {t1, t2}
  NoThread = NoThread
  NAddrs = 2
  NListenAddrs = 2
  NAttempts = 2
  MaxArgs = 2
SPECIFICATION FairSpec
INVARIANTS
  VerdictTrue
  AllRecorded
  NoSocketLeft
  ContextLoaded
  OneListener
PROPERTIES
  Ends
