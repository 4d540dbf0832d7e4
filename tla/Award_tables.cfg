CONSTANTS
  Long = 2
  Accounts = {self, alice, bob, carol}
  Self = self
  NoName = noname
  Pubkeys <- MCPubkeys
  NoKey <- MCNoKey
  Codes <- MCCodes
  Code <- MCCode
  Reports = {zero, busy}
  NoReport = zero
  NameArgs <- MCNameArgs
  KeyArgs <- MCKeyArgs
  Signers <- MCSigners
SPECIFICATION Spec
INVARIANTS TypeOK OneDepositPerNode
PROPERTIES ReportsAreTheNodes ReportWritten
