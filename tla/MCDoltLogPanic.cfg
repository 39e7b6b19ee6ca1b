CONSTANTS
    Commits     <- MCCommits
    Parents     <- MCParents
    RefCommit   <- MCRefCommit
    SessionHead <- MCSessionHead
    Tokens      <- RangeArgTokens

SPECIFICATION Spec

INVARIANT ArgumentsNeverPanic
