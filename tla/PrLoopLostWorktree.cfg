CONSTANTS
  HumanPatches = {h1, h2}
  FirstPatch = h1
  NoCommit = NoCommit
  MaxLocalRounds = 1
  MaxReviewRounds = 1
  MaxCiRounds = 1
  MaxBase = 1
  MaxStarts = 2
  SharedFetches = FALSE
  WorktreesLost = TRUE
SPECIFICATION Spec
CHECK_DEADLOCK FALSE
INVARIANT PushedWorkVetted
