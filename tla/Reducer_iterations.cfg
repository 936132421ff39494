SPECIFICATION Spec
CONSTANTS
  Ranks = {"p", "q"}
  Models <- AllModels
  Limits <- SmallThenLarge
  MaxForwards = 2
  Passes = 1
  OutsideUse = {"q"}
  Failures = {"q"}
  Retry = FALSE
INVARIANTS AssignmentSound SameBucket AssertionsHold GradAveraged
  OutsideUseDetected ReductionComplete
PROPERTIES PriorReductionFinished
CHECK_DEADLOCK FALSE
