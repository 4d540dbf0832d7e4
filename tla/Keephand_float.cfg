CONSTANTS
  alice = alice
  bob = bob
  Accounts = {self, alice, bob}
  Self = self
  NoName = noname
  Pubkeys = {key}
  NoKey = nokey
  MaxFinite = 16
  FeeDen = 4
  Precision = 3
  Dense = 7
  FeeMin = 1
  Round <- MCRound
  NameArgs <- MCNameArgs
  KeyArgs <- MCKeyArgs
  FundsArgs <- FloatArgs
  Signers <- MCSigners
SYMMETRY Users
SPECIFICATION Spec
INVARIANTS TypeOK TablesAgree FundsValid
PROPERTIES DebitAuthorised FrozenWithoutOwner SenderNeverGains TransferConserves OnlySavingMints
