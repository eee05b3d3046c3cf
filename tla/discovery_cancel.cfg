SPECIFICATION Spec
CONSTANTS
    Requests = {r1, r2}
    NHosts = 1
    BatchSize = 1
    MinWorkers = 1
    MaxWorkers = 100
    ReportEvery = 1
    NoRequest = NoRequest
SYMMETRY Symmetry
INVARIANT CancelFuncIsCurrentScan
