SPECIFICATION ConsoleSpec
CONSTANTS
    Handlers = {h1, h2}
    None = None
    Blank = Blank
    DbFails = TRUE
    Requests = {q1, q2}
    Files = {f1}
    Users = {u1, u2}
    Actions = {"UPLOAD"}
    Dests = {d1, d2}
    Ask <- MCAsk
    Events <- MCEvents
    Like <- MCLike
    MatchSets <- MCMatchSets
    StoredClass <- MCStoredClass
    StoredRules <- MCStoredRules
    IncidentIds = {i1, i2}
    GivenStatuses = {"ESCALATED"}
    Batch <- MCBatch
    DlpRules <- MCDlpRules
    IncidentRequests = 3
    KeywordIds = {i1, i2}
    KeywordInputs <- MCKeywordInputs
    Csv <- MCCsv
    KeywordWrites = 3
    Samples <- MCSamples
    Answers <- MCAnswers
    RuleIds = {i1, i2}
    RuleInputs <- MCRuleInputs
    RuleWrites = 2
    UserIds = {i1, i2}
    RoleIds = {r1, r2}
    SystemRoles = {r1}
    Names = {u1, u2}
    Admin = u1
    AdminRole = r1
    Perms = {p1}
    Lists <- MCLists
    PolicyIds = {i3}
    PolicyFields = {"enabled", "rules"}
    PolicyValues = {0, 1}
    Addrs = {a1}
    SignIns = {u1}
    Burst = 1
    StaleAfter = 2
    TokenLife = 1
    Window = 2
    BucketNames <- MCBucketNames
    Keys <- MCKeys
    AccountID = acc
    Label <- MCLabel
    Extractor <- MCExtractor
    NameSays <- MCNameSays
    Placeholders = {"dir/"}
    Initial <- MCInitial
    Versions <- MCVersions
    Settings <- MCSettings
    Scans <- MCScans
    MaxBuckets = 2
    MaxObjects = 2
    MaxObject = 2
    MaxSample = 1
    ConcurrentBuckets = 2
    ConcurrentObjects = 1
    CloudFaults = 1
    CloudWrites = 1
    q1 = q1
    q2 = q2
    f1 = f1
    u1 = u1
    u2 = u2
    d1 = d1
    d2 = d2
    i1 = i1
    i2 = i2
    r2 = r2
    acc = acc
SYMMETRY Symmetry
INVARIANTS
    PartsTypeOK
    AllowJustified
    LastingIsCached
    StatusExplained
    AckedIsStored
    TestsAnswer
    ProviderBounded
    MoreEvidenceNeverLowers
    OwnRuleApplies
    RolesExact
    ChangesLast
    AttemptsBounded
    
    VerdictsTrue
    AllAccounted
PROPERTY ImplementsLifecycle
CHECK_DEADLOCK FALSE
