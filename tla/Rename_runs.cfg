CONSTANTS
  Trees <- MCTrees
  Renaming <- MCRenaming
  Orders <- MCOrders
  MaxRuns = 3
\* The tool ends, and after MaxRuns runs nobody starts it again.
CHECK_DEADLOCK FALSE
SPECIFICATION Spec
INVARIANTS TypeOK PendingPathsExist FinishedAsDescribed NothingElseLost PlainTreesFinish
