CONSTANTS
  Files <- MCFiles
  BadEscape = badescape
  Texts <- MCTexts
  Unset = ""
  Long <- MCLong
  Blanked <- MCBlanked
  Order <- MCOrder
  CounterMax = 4
  Taken <- MCTaken
  MaxRuns = 3
\* The loader ends, and after MaxRuns runs nobody starts it again.
CHECK_DEADLOCK FALSE
SPECIFICATION Spec
INVARIANTS TypeOK LoadAccountsForAll PaysTheLine PaidOncePerRun PaidKeyIsListed
PROPERTIES RefusedIsSaved
