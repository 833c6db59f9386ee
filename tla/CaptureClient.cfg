SPECIFICATION Spec
CHECK_DEADLOCK FALSE
INVARIANTS
  TypeOK
  PictureArrived
  AttachedBeforeRemoved
  NothingLeft
