CONSTANTS
  ToleranceUnit = 2
  Digits = {"0", "1", "2"}
SPECIFICATION AlgorithmsSpec
CHECK_DEADLOCK FALSE
INVARIANT StudyColumnsFill
