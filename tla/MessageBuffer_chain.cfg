CONSTANTS
  buffer_len = 2
  Byte <- MCByte
  Junk = junk
  MaxChain = 3
  MaxBlocks = 3
  Arrivals <- MCArrivals
  NoIndex = noindex
\* The process ends when reset finds the chain too long.
CHECK_DEADLOCK FALSE
SPECIFICATION Spec
INVARIANTS TypeOK ChainIsSound
PROPERTIES IsByteQueue
