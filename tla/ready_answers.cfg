CONSTANTS
  Probes = {db, kafka}
  MaxChecks = 2
SPECIFICATION FairSpec
INVARIANTS TypeOK AnswerIsTrue
PROPERTY Answered
