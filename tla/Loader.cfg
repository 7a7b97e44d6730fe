\* Interfaces recreated, filters removed, the daemon restarted, calls that fail.
SPECIFICATION FairSpec
CONSTANTS
    Ifaces = {eth, wg}
    Unstable = {wg}
    MaxHandle = 2
    OtherHandles = {9}
    MaxIndex = 2
    MayFail = TRUE
    NoIface = NoIface
INVARIANTS TypeOK OneProgramEach HandlesMatchKernel
PROPERTIES  Attaches AdoptedForGood
