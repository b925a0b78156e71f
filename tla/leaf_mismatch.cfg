CONSTANTS
    Serve = serve
    CertCmds = {}
    AdminCmds = {}
    Databases <- NewOrOld
    MaxCrashes = 2
    MaxLeafEvents = 1
SPECIFICATION USpec
CHECK_DEADLOCK FALSE
INVARIANT ServedPairMatches
