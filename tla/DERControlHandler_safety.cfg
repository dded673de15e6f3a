\* Every kind of control and a default control, two events, one of them tracked.
SPECIFICATION HandlerSpec
CONSTANTS
    caller = caller
    scheduler = scheduler
    ctrl1 = ctrl1
    ctrl2 = ctrl2
    fallback = fallback
    Requesters <- MCRequesters
    Scheduler = scheduler
    Ids <- MCIds
    Values <- MCValues
    Zero = 0
    DryRun = FALSE
    Controls <- MCAllControls
    Defaults <- MCDefaults
    DefaultId = fallback
    NoControl = NoControl
    Lists <- MCNoLists
    NoPower = NoPower
    Free = Free
    MaxTracked = 1
    MaxEvents = 2
SYMMETRY MCSymmetry
INVARIANTS HandlerTypeOK ActiveMatchesDevice OneInForce
CHECK_DEADLOCK FALSE
