SPECIFICATION Spec
CONSTANTS
    Images = {i1, i2}
    ServiceNames = {svc1}
    NoService = NoService
    NoSts = NoSts
    NoPod = NoPod
    NoTC = NoTC
    Main = Main
    Replica = Replica
    s1 = s1
    i1 = i1
    i2 = i2
    svc1 = svc1
    Secondaries = {s1}
    StaleReads = FALSE
    InitSpecs <- SingleOld
    Specs <- SingleSpecs
    EditsFrom <- SingleEdits
    Forward = {}
    HasFinalizer = TRUE
    EditsDuringUpgrade = FALSE
    StatusBetweenReads = FALSE
    LongLag = FALSE
    FaultKinds = {"checkpoint", "replica", "error"}
    MaxEdits = 1
    MaxCrashes = 1
    MaxFaults = 0

PROPERTIES AvailabilityKept
CHECK_DEADLOCK FALSE
