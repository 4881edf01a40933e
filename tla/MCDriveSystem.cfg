SPECIFICATION DriveFairSpec
CONSTANTS
  Period = 4
  Gens = {"a", "b", "c"}
  HallCodes <- SomeCodes
  ResetLevels = {TRUE, FALSE}
INVARIANTS OneLoop DutyExact
PROPERTIES ChopsAsOne StoppedMeansOff ThrottleArrives
