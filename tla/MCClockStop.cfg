SPECIFICATION FairSpec
CONSTANTS
  Alarms = {a1, a2, a3}
  Head = Head
  Null = Null
  Modulus = 4
  ALT_US = 3
  Rates = {1, 2}
  Delays = {0, 2}
  Periods = {1, 3}
  Times = {4}
PROPERTY StoppedIsSilent
