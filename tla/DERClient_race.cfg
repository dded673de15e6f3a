\* Two programs, future intervals: both tasks execute.
SPECIFICATION ClientSpec
CONSTANTS
    poller = poller
    scheduler = scheduler
    fsaTask = fsaTask
    ctrl1 = ctrl1
    ctrl2 = ctrl2
    ctrl3 = ctrl3
    fallback = fallback
    prog1 = prog1
    prog2 = prog2
    fsa1 = fsa1
    fsa2 = fsa2
    Requesters <- MCRequesters
    Poller = poller
    Scheduler = scheduler
    FsaTask = fsaTask
    Ids <- MCIds
    Values <- MCThreeValues
    Zero = 0
    DryRun = FALSE
    Controls <- MCSetPoints
    Defaults <- MCNone
    DefaultId = fallback
    NoControl = NoControl
    Lists <- MCNone
    NoPower = NoPower
    Free = Free
    MaxTracked = 3
    MaxEvents = 3
    Fsas <- MCOneFsa
    Programs <- MCTwoPrograms
    ProgramsOf <- MCFsaOfBoth
    Primacy <- MCPrimacies
    DefaultPower <- MCNoDefaults
    ProgramOf <- MCProgramOfEach
    ControlOf <- MCTwoSetPoints
    Creation <- MCCreation
    Indefinite <- MCNone
    Starts <- MCTimed
    Happenings <- MCCalm
    None = None
PROPERTY HigherPriorityWins
CHECK_DEADLOCK FALSE
