SPECIFICATION Spec
CONSTANTS
  Streams <- Written
  JsonTexts <- Texts
INVARIANTS Framed EndsForCause
PROPERTIES ReadsStream EventuallyYielded
CHECK_DEADLOCK FALSE
