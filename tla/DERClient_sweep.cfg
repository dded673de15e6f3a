\* A set-point, a disconnection and a control of duration 0, of one program.
SPECIFICATION ClientSpec
CONSTANTS
    poller = poller
    scheduler = scheduler
    fsaTask = fsaTask
    ctrl1 = ctrl1
    ctrl2 = ctrl2
    ctrl3 = ctrl3
    fallback = fallback
    prog1 = prog1
    prog2 = prog2
    fsa1 = fsa1
    fsa2 = fsa2
    Requesters <- MCRequesters
    Poller = poller
    Scheduler = scheduler
    FsaTask = fsaTask
    Ids <- MCThreeIds
    Values <- MCValues
    Zero = 0
    DryRun = FALSE
    Controls <- MCSwitches
    Defaults <- MCNone
    DefaultId = fallback
    NoControl = NoControl
    Lists <- MCNone
    NoPower = NoPower
    Free = Free
    MaxTracked = 4
    MaxEvents = 4
    Fsas <- MCOneFsa
    Programs <- MCOneProgram
    ProgramsOf <- MCFsaOfOne
    Primacy <- MCPrimacy
    DefaultPower <- MCNoDefault
    ProgramOf <- MCProgramOfThree
    ControlOf <- MCTwoSetsAndDisconnect
    Creation <- MCCreationOfThree
    Indefinite <- MCThird
    Starts <- MCThirdOpen
    Happenings <- MCCalm
    None = None
INVARIANTS HandedOnce NeverActiveWhenIdle
CHECK_DEADLOCK FALSE
