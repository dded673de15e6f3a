\* An assignment that comes and goes under fair scheduling, in dry-run mode.
SPECIFICATION ClientFairSpec
CONSTANTS
    poller = poller
    scheduler = scheduler
    fsaTask = fsaTask
    ctrl1 = ctrl1
    ctrl2 = ctrl2
    ctrl3 = ctrl3
    fallback = fallback
    prog1 = prog1
    prog2 = prog2
    fsa1 = fsa1
    fsa2 = fsa2
    Requesters <- MCRequesters
    Poller = poller
    Scheduler = scheduler
    FsaTask = fsaTask
    Ids <- MCOneId
    Values <- MCValues
    Zero = 0
    DryRun = TRUE
    Controls <- MCSwitches
    Defaults <- MCNone
    DefaultId = fallback
    NoControl = NoControl
    Lists <- MCNone
    NoPower = NoPower
    Free = Free
    MaxTracked = 3
    MaxEvents = 3
    Fsas <- MCOneFsa
    Programs <- MCOneProgram
    ProgramsOf <- MCFsaOfOne
    Primacy <- MCPrimacy
    DefaultPower <- MCDefault
    ProgramOf <- MCProgramOfOne
    ControlOf <- MCSetPoint
    Creation <- MCCreationOfOne
    Indefinite <- MCNone
    Starts <- MCTimed
    Happenings <- MCChurn
    None = None
INVARIANT ProgramsComeFromFsas
PROPERTIES CancellationsAreSeen ScheduledControlsStart ExecutionsEnd
CHECK_DEADLOCK FALSE
