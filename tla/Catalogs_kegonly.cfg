SPECIFICATION Spec
CONSTANTS
    Parts = {"tap"}
    Hosting = {TRUE, FALSE}
    Versioned = {3, 8, 50}
    DisabledIdents = {9}
    MaxClosureNodes = 4
    MaxTaps = 3
    CoreTime = 1
    PublishTime = 2
    MaxDocument = 5
    MaxAggregate = 9
    Policy <- PrebuiltPolicy
INVARIANT
    HonestTapAccepted
CHECK_DEADLOCK FALSE
