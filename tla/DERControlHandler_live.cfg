\* Lists and single controls under fair scheduling.
SPECIFICATION HandlerFairSpec
CONSTANTS
    caller = caller
    scheduler = scheduler
    ctrl1 = ctrl1
    ctrl2 = ctrl2
    fallback = fallback
    Requesters <- MCRequesters
    Scheduler = scheduler
    Ids <- MCIds
    Values <- MCThreeValues
    Zero = 0
    DryRun = FALSE
    Controls <- MCSetControls
    Defaults <- MCNoDefaults
    DefaultId = fallback
    NoControl = NoControl
    Lists <- MCLists
    NoPower = NoPower
    Free = Free
    MaxTracked = 2
    MaxEvents = 2
PROPERTY ScheduledEventsRun
CHECK_DEADLOCK FALSE
