SPECIFICATION Spec
CONSTANTS
  t1 = t1
  t2 = t2
  NoThread = NoThread
  Threads = {t1, t2}
  CallsOf <- All
  FirstRequest = 14
  NumberMod = 16
  MaxRequests = 3
  MaxEvents = 2
CHECK_DEADLOCK FALSE
SYMMETRY Symmetry
INVARIANT
  InSequence
