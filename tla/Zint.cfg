SPECIFICATION Spec
CONSTANTS
  Dur = 6
  InstrMax = 4
  BeforeIo = 2
  AfterIo = 2
  AckDelay = 2
  Masks <- MCMasks
INVARIANTS Inv
PROPERTIES FrameTaken
