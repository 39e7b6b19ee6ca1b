CONSTANTS
    Sessions     <- MCSessions
    SuperUser    <- MCSuperUser
    SuperHost    <- MCSuperHost
    BranchInputs <- MCBranchInputs
    UserInputs   <- MCUserInputs
    HostInputs   <- MCHostInputs
    PermInputs   <- MCPermInputs
    BranchNames  <- MCBranchNames
    MaxExprLen   <- MCMaxExprLen
    MaxRows      <- MCMaxRows

SPECIFICATION Spec

INVARIANT MatchNeverPanics
