SPECIFICATION FairSpec
CONSTANTS
  PowerUp = {0}
  HallCodes <- AnyCode
  ResetLevels = {TRUE, FALSE}
  HallSkew = TRUE
INVARIANTS OnePhasePair
PROPERTIES AdvanceMovesOneSwitch TornOnlyBetweenDAndE SettlesOnRotor
