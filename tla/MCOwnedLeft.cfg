SPECIFICATION Spec
CONSTANTS
    Messages = "CAN_PROCESS_BUILD_MESSAGES"
    Changes = "CAN_CHECK_FOR_CHANGES"
    Triggers = "CAN_PROCESS_BUILD_TRIGGERS"
    UserData = "CAN_PROCESS_USER_DATA_MODIFICATION_REQUESTS"
    MainNode = "MAIN_NODE"
    a = a
    b = b
    claim = claim
    claim2 = claim2
    account = account
    service = service
    ingress = ingress
    n1 = n1
    n2 = n2
    Instances = {a, b}
    Claims = {claim, claim2}
    Accounts = {account}
    Services = {service}
    Ingresses = {ingress}
    NodeNames = {n1, n2}
    NoName = NoName
    NoOwner = NoOwner
    Absent = Absent
    NoTC = NoTC
    Extends <- MCExtends
    LabelPairs <- MCLabelPairs
    Initially <- MCInitiallySingle
    Requests <- MCRenamed
    Strangers = {service}
    StrangerLabels = {{}}
    FaultKinds = {}
    MaxEdits = 1
    MaxTampers = 0
    MaxFaults = 0
    MaxDisturbances = 2
    MaxBehind = 2
INVARIANTS RestMeansReflected
CHECK_DEADLOCK FALSE
