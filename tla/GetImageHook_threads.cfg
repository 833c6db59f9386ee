SPECIFICATION Spec
CONSTANTS
  t1 = t1
  t2 = t2
  xclient = xclient
  w1 = w1
  Thread = {t1, t2}
  Process = {xclient}
  ProcessOf <- OneClient
  CallsOf <- GetImages
  AdminCommands = {"lock", "changed_bg"}
  QueryMayFail = FALSE
  Windows = {w1}
  MaxLockImages = 1
  IdMod = 3
  MaxVersion = 4
INVARIANT
  NoUseAfterFree
