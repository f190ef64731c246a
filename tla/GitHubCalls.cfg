CONSTANTS
  Comments = {c1, c2}
  MaxShown = 3
  MaxAttempts = 3
  MaxRounds = 2
  MaxLines = 4
SPECIFICATION Spec
CHECK_DEADLOCK FALSE
INVARIANT TypeOK
INVARIANT RepliesHonest
INVARIANT MergedApproved
INVARIANT ExitTrue
INVARIANT RetriesTransparent
PROPERTY AnswerHonoured
