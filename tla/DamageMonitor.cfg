SPECIFICATION FairSpec
CONSTANTS
  Rects = {1, 2}
  MaxChanges = 4
CHECK_DEADLOCK FALSE
INVARIANTS
  TypeOK
  NothingForgotten
  DamageAnnounced
PROPERTY
  CatchesUp
