SPECIFICATION Spec
CONSTANTS
  t1 = t1
  t2 = t2
  xclient = xclient
  w1 = w1
  Thread = {t1, t2}
  Process = {t1, t2}
  ProcessOf <- SingleThreaded
  CallsOf <- SplitCalls
  AdminCommands = {"lock", "unlock", "changed_bg"}
  QueryMayFail = TRUE
  Windows = {w1}
  MaxLockImages = 1
  IdMod = 3
  MaxVersion = 4
INVARIANTS
  TypeOK
  ReplacedWhileLocked
  PixmapRefused
  ImageFresh
