\* The same, with the question whether --run-server is honoured.
CONSTANTS
  t1 = t1  t2 = t2
  Thread = {t1, t2}
  NoThread = NoThread
  NAddrs = 2
  NListenAddrs = 2
  NAttempts = 2
  MaxArgs = 2
SPECIFICATION FairSpec
INVARIANTS
  RunServerHonoured
