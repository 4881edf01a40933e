SPECIFICATION AdcFairSpec
CONSTANTS
  Words <- SomeWords
  iCH = 5
INVARIANTS ChannelHeard
PROPERTIES WholeReadings TracksInput
