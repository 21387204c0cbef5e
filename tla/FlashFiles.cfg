SPECIFICATION Spec
CONSTANTS
  N = 4
  Names = {a, b}
  Sizes = {2, 4}
  HeadRoom = 1
  BodyRoom = 2
  EraseSteps = {1, 2, 4}
  WorkAfterCut = FALSE
SYMMETRY MCSymmetry
INVARIANTS Inv FixReclaims
PROPERTIES ImplementsFileStore
