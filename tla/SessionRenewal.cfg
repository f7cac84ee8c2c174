CONSTANTS
  b1 = b1
  s1 = s1
  NoPair = NoPair
  Browsers = {b1}
  Scripts = {s1}
  Tabs = {1}
  Loads = {1, 2}
  MaxPairs = 3
  Passwords = {"old", "new"}
  MaxEpoch = 1
  Races = {}
  Requests <- Slots
  Asked <- Asks
SPECIFICATION BrowserSpec
INVARIANT LiveRestsOnPassword
PROPERTY RefusalMeansOver
CHECK_DEADLOCK FALSE
