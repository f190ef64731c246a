CONSTANTS
  HumanPatches = {h1, h2}
  FirstPatch = h1
  NoCommit = NoCommit
  MaxLocalRounds = 1
  MaxReviewRounds = 2
  MaxCiRounds = 2
  MaxBase = 1
  MaxStarts = 1
  SharedFetches = TRUE
  WorktreesLost = TRUE
SPECIFICATION Spec
CHECK_DEADLOCK FALSE
INVARIANT TypeOK
INVARIANT PushedWorkVetted
INVARIANT NoStrayWork
INVARIANT PushReviewed
PROPERTY MergeVetted
PROPERTY Terminates
PROPERTY Progress
