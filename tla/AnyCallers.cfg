CONSTANTS
  r1 = r1
  r2 = r2
  NoPair = NoPair
  Requests = {r1, r2}
  MaxPairs = 3
  Passwords = {"old"}
  MaxEpoch = 0
  Races = {"change", "purge", "signout"}
  Askable <- Asks
SPECIFICATION LateSpec
INVARIANTS SpentBuysNothing SignedOutBuysNothing
CHECK_DEADLOCK FALSE
