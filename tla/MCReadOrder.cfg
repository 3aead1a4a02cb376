SPECIFICATION Spec
CONSTANTS
    Images = {i1, i2}
    ServiceNames = {svc1}
    NoService = NoService
    NoSts = NoSts
    NoPod = NoPod
    NoTC = NoTC
    Main = Main
    Replica = Replica
    s1 = s1
    i1 = i1
    i2 = i2
    svc1 = svc1
    Secondaries = {s1}
    StaleReads = FALSE
    InitSpecs <- MixedOld
    Specs <- MixedSpecs
    EditsFrom <- MixedEdits
    Forward = {}
    HasFinalizer = TRUE
    EditsDuringUpgrade = FALSE
    StatusBetweenReads = TRUE
    LongLag = FALSE
    FaultKinds = {"checkpoint", "replica", "error"}
    MaxEdits = 3
    MaxCrashes = 0
    MaxFaults = 0

PROPERTIES AvailabilityKept
CHECK_DEADLOCK FALSE
