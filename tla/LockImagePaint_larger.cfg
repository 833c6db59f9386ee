SPECIFICATION Spec
CONSTANT
  Sizes = {1, 2, 3}
CHECK_DEADLOCK FALSE
INVARIANT
  AlwaysCentred
