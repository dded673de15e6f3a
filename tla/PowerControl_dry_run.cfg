\* Two callers in dry-run mode with a writer injected.
SPECIFICATION Spec
CONSTANTS
    r1 = r1
    r2 = r2
    Nobody = Nobody
    Requesters <- MCRequesters
    Powers <- MCPowers
    SocReadings <- MCSoc
    MaxCharge = 200
    MaxDischarge = 200
    MinSoc = 10
    MaxSoc = 90
    Mode = "dry_run"
    HasWriter = TRUE
    MaxRetries = 2
    BusRetries = 2
SYMMETRY MCSymmetry
PROPERTY DryRunNeverWrites
