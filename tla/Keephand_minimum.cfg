CONSTANTS
  alice = alice
  bob = bob
  Accounts = {self, alice, bob}
  Self = self
  NoName = noname
  Pubkeys = {key}
  NoKey = nokey
  MaxFinite = 14
  FeeDen = 2
  Precision = 6
  Dense = 7
  FeeMin = 2
  Round <- MCRound
  NameArgs <- MCNameArgs
  KeyArgs <- MCKeyArgs
  FundsArgs <- SmallArgs
  Signers <- MCSigners
SYMMETRY Users
SPECIFICATION Spec
PROPERTIES TakeReachesMinimum
