CONSTANTS
    Serve = serve
    CertCmds = {cert}
    AdminCmds = {admin}
    Databases <- NewOrOld
    MaxCrashes = 1
    MaxLeafEvents = 1
SPECIFICATION USpec
CHECK_DEADLOCK FALSE
INVARIANTS OpenMeansCurrent PinIsStable
PROPERTIES LoadedIsAccepted ServerComesUp
