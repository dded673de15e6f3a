\* Two programs with one set-point each, of different priority; local emergency stops.
SPECIFICATION ClientSpec
CONSTANTS
    poller = poller
    scheduler = scheduler
    fsaTask = fsaTask
    ctrl1 = ctrl1
    ctrl2 = ctrl2
    ctrl3 = ctrl3
    fallback = fallback
    prog1 = prog1
    prog2 = prog2
    fsa1 = fsa1
    fsa2 = fsa2
    Requesters <- MCRequesters
    Poller = poller
    Scheduler = scheduler
    FsaTask = fsaTask
    Ids <- MCIds
    Values <- MCThreeValues
    Zero = 0
    DryRun = FALSE
    Controls <- MCSetPoints
    Defaults <- MCNone
    DefaultId = fallback
    NoControl = NoControl
    Lists <- MCNone
    NoPower = NoPower
    Free = Free
    MaxTracked = 3
    MaxEvents = 3
    Fsas <- MCOneFsa
    Programs <- MCTwoPrograms
    ProgramsOf <- MCFsaOfBoth
    Primacy <- MCPrimacies
    DefaultPower <- MCNoDefaults
    ProgramOf <- MCProgramOfEach
    ControlOf <- MCTwoSetPoints
    Creation <- MCCreation
    Indefinite <- MCNone
    Starts <- MCTimed
    Happenings <- MCStops
    None = None
INVARIANTS ClientTypeOK CompletedIsTrue
PROPERTY ImplementsLife
CHECK_DEADLOCK FALSE
