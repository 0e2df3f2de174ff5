SPECIFICATION Spec
CONSTANTS
    None = None
    Token = TRUE
    Suites <- MCSuites
    Mixes <- MCMixes
    LongLived <- MCLongLived
INVARIANT TypeOK
INVARIANT ListsAreWhole
INVARIANT WhatIsMissingIsTold
INVARIANT RowsAccounted
INVARIANT PublicationsDoNotMix
CHECK_DEADLOCK FALSE
