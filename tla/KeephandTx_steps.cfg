CONSTANTS
  alice = alice
  bob = bob
  Accounts = {self, alice, bob}
  Self = self
  NoName = noname
  Pubkeys = {key}
  NoKey = nokey
  MaxFinite = 4
  FeeDen = 2
  Precision = 3
  FeeMin = 1
  Round <- MCRound
  NameArgs = {self, alice, bob}
  KeyArgs = {key}
  FundsArgs <- MCFundsArgs
  Signers <- MCSigners
SYMMETRY Users
SPECIFICATION TxSpec
INVARIANTS TxTypeOK LateChecksHold
PROPERTIES AtomicContract
