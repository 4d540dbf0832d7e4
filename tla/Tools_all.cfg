CONSTANTS
  Long = 2
  Texts <- MCTexts
  Base = 8
  Digits = 5
  CheckBytes = 1
  KeyBytes = 2
  PubBytes = 2
  MainNet = 4
  Blank = 5
  LetterO = 6
  LetterU = 3
  LetterS = 1
  Hash <- MCHash
  PublicOf <- MCPublicOf
  Secrets <- MCSecrets
\* A run of a tool ends.
CHECK_DEADLOCK FALSE
SPECIFICATION ToolsSpec
INVARIANTS TypeOK NameRoundTrip TextRoundTrip SymbolsStayApart KeysReadBack
