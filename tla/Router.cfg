CONSTANTS
    Patterns <- MCPatterns
    Urls <- MCUrls
    MaxRouters = 3
    MaxItems = 2
SPECIFICATION Spec
INVARIANTS DeletedOnce MatchIsPrefix ShadowedIsNeverCalled
PROPERTIES OnlyThrowsLose
CHECK_DEADLOCK FALSE
