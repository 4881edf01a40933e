SPECIFICATION MCSpec
CONSTANTS
  MAX_VALUE = 6
  Wrap = 4
  RstLevels = {TRUE, FALSE}
  DecodeGlitch = TRUE
  MaxEdges = 5
  Counts = {0, 1, 123, 200, 255}
  ResetLevels = {TRUE, FALSE}
  Speeds = {0, 70, 491, 1023}
  ALT_CPU_FREQ = 50
  cycles_per_loop = 9
  INT_MAX = 2147483647
  Recovery = 100000
INVARIANTS HandsOverTheGate GlitchLosesBounded MeanWithinOne NoOvershoot NothingMissed ShowsOneReading
PROPERTY ShowsTheSpeed
