CONSTANTS
    Weights <- MCWeights
    MaxItems = 2
    MaxQuestions = 2
    MaxRetries = 1
    Null = Null
SPECIFICATION AssessmentSpec
INVARIANTS
    AssessmentTypeOK
    PassIsEarned
    FullMarksAreExact
    CommitIsAccepted
PROPERTY
    GradingEnds
