SPECIFICATION Spec
CONSTANT
  Sizes = {1, 2, 3, 4, 5}
CHECK_DEADLOCK FALSE
INVARIANTS
  PaintInBounds
  NoScreenLeft
  CentredWhenItFits
  LostRightAndBelow
