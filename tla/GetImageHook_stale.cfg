SPECIFICATION Spec
CONSTANTS
  t1 = t1
  t2 = t2
  xclient = xclient
  w1 = w1
  Thread = {t1}
  Process = {t1}
  ProcessOf <- SingleThreaded
  CallsOf <- GetImages
  AdminCommands = {"lock", "unlock", "reset", "changed_bg"}
  QueryMayFail = FALSE
  Windows = {w1}
  MaxLockImages = 1
  IdMod = 3
  MaxVersion = 4
INVARIANT
  ImageFresh
