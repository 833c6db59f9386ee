SPECIFICATION Spec
CONSTANTS
  a1 = a1
  a2 = a2
  c1 = c1
  w1 = w1
  w2 = w2
  NoWindow = NoWindow
  NoProcess = NoProcess
  NoClient = NoClient
  Thread = {a1, c1}
  Process = {a1, c1}
  ProcessOf <- SingleThreaded
  CommandsOf <- Admins
  Windows = {w1}
  MaxLockImages = 1
  CountMod = 8
  IdMod = 2
  Faults = {}
  Grabbers = {}
INVARIANT
  NoBusError
