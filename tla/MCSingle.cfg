SPECIFICATION Spec
CONSTANTS
    Images = {i1, i2}
    ServiceNames = {svc1}
    NoService = NoService
    NoSts = NoSts
    NoPod = NoPod
    NoTC = NoTC
    Main = Main
    Replica = Replica
    s1 = s1
    i1 = i1
    i2 = i2
    svc1 = svc1
    Secondaries = {}
    StaleReads = FALSE
    InitSpecs <- SingleOld
    Specs <- SingleSpecs
    EditsFrom <- SingleEdits
    Forward = {}
    HasFinalizer = TRUE
    EditsDuringUpgrade = TRUE
    StatusBetweenReads = TRUE
    LongLag = FALSE
    FaultKinds = {"checkpoint", "replica", "error"}
    MaxEdits = 3
    MaxCrashes = 1
    MaxFaults = 1
INVARIANTS UpgradeInv ReplicaWithinUpgrade RestMeansApplied NoStalledUpgrade NoCheckpointLeft CoverInv
PROPERTIES UpgradeProtocolImplemented MainChangeCoveredByUnchanged
CHECK_DEADLOCK FALSE
