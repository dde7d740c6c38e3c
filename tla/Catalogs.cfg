SPECIFICATION Spec
CONSTANTS
    Parts = {"core", "tap", "generation"}
    Hosting = {TRUE, FALSE}
    Versioned = {3, 8, 50}
    DisabledIdents = {9}
    MaxClosureNodes = 4
    MaxTaps = 3
    CoreTime = 1
    PublishTime = 2
    MaxDocument = 5
    MaxAggregate = 9
    Policy <- PrebuiltPolicy
INVARIANTS
    DocumentsKeepMeaning
    ClosureSound
    SidesAgree
PROPERTY
    EveryRoundIngests
CHECK_DEADLOCK FALSE
