\* Two callers in production mode under fair scheduling, the SOC not reported.
SPECIFICATION FairSpec
CONSTANTS
    r1 = r1
    r2 = r2
    Nobody = Nobody
    Requesters <- MCRequesters
    Powers <- MCPowers
    SocReadings <- MCNoSoc
    MaxCharge = 200
    MaxDischarge = 200
    MinSoc = 10
    MaxSoc = 90
    Mode = "production"
    HasWriter = TRUE
    MaxRetries = 2
    BusRetries = 2
INVARIANTS TypeOK SetpointWithinLimits ReportMatchesDevice BusExclusive SetpointDelivered
PROPERTIES EmergencyStopHolds ImplementsService EmergencyStopQuiesces EveryCallEnds
