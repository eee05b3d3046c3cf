SPECIFICATION FairSpec
CONSTANTS
    Requests = {r1, r2}
    NHosts = 2
    BatchSize = 1
    MinWorkers = 2
    MaxWorkers = 100
    ReportEvery = 2
    NoRequest = NoRequest
INVARIANTS
    ScanControl
    ReportCoherent
PROPERTY ScansReturn
