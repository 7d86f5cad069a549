\* Nine pairs of limits; a call without rate limit gets at most five answers.
SPECIFICATION Spec
CONSTANTS
    Limits <- FewRetries
    InitialDelay = 15
    MinDelay = 6
    MaxDelay = 100
    MaxAnswers = 5
INVARIANTS
    TypeOK
    EndsAsDecided
    OneTempFile
PROPERTY PaceFollowsApi
