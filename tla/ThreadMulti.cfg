\* Two descriptors routed to one worker.
CONSTANTS
  Fd = {4, 6}
  NoFd = NoFd
  MaxQueue = 3
SPECIFICATION FairSpec
INVARIANTS
  NoUseAfterDestroy
PROPERTIES
  Implements
  QueueServed
  DestructorEnds
