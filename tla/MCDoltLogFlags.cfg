CONSTANTS
    Commits     <- MCCommits
    Parents     <- MCParents
    RefCommit   <- MCRefCommit
    SessionHead <- MCSessionHead
    Tokens      <- AllArgTokens

SPECIFICATION Spec

INVARIANT LogMatchesGitRange
