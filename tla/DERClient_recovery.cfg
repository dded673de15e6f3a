\* A set-point and a reconnection, and a local emergency stop.
SPECIFICATION ClientSpec
CONSTANTS
    poller = poller
    scheduler = scheduler
    fsaTask = fsaTask
    ctrl1 = ctrl1
    ctrl2 = ctrl2
    ctrl3 = ctrl3
    fallback = fallback
    prog1 = prog1
    prog2 = prog2
    fsa1 = fsa1
    fsa2 = fsa2
    Requesters <- MCRequesters
    Poller = poller
    Scheduler = scheduler
    FsaTask = fsaTask
    Ids <- MCIds
    Values <- MCValues
    Zero = 0
    DryRun = FALSE
    Controls <- MCSwitches
    Defaults <- MCNone
    DefaultId = fallback
    NoControl = NoControl
    Lists <- MCNone
    NoPower = NoPower
    Free = Free
    MaxTracked = 3
    MaxEvents = 3
    Fsas <- MCOneFsa
    Programs <- MCOneProgram
    ProgramsOf <- MCFsaOfOne
    Primacy <- MCPrimacy
    DefaultPower <- MCNoDefault
    ProgramOf <- MCProgramOfBoth
    ControlOf <- MCSetAndReconnect
    Creation <- MCCreation
    Indefinite <- MCNone
    Starts <- MCOpen
    Happenings <- MCStops
    None = None
INVARIANT RecoveryNeverBlocked
CHECK_DEADLOCK FALSE
