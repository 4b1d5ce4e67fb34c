SPECIFICATION MCSpec
CONSTANTS
    c1 = c1
    c2 = c2
    c3 = c3
    e1 = e1
    e2 = e2
    s1 = s1
    s2 = s2
    s3 = s3
    \* Discovery
    DiscoveryRuns = {"r1", "r2"}
    Existing <- MCExisting
    Answers <- MCAnswers
    HasClient = TRUE
    Threshold = 25
    BACKOFF = 2
    CONSECUTIVE_FAILURE_THRESHOLD = 3
    MAX_RECOVERY_ATTEMPTS = 3
    MaxTime = 3
    MaxCalls = 8
    \* DomainThrottle
    Callers = {c1, c2, c3}
    RATE = 2
    FALLBACK = 4
    TTL = 5
    MaxTicks = 2
    \* ScoreRecomputation
    Prospects <- MCProspects
    Facts <- MCFacts
    FirstFacts <- MCFirstFacts
    ScoreJobs = {"j1", "j2", "j3"}
    Single <- MCSingle
    WeightsOf <- MCWeights
    Terminal = {"p3"}
    SCORE_BATCH = 2
    MaxUpdates = 1
    MaxLosses = 1
    \* ApolloClient
    ApolloCalls = {"k1", "k2"}
    CallKind <- MCKind
    People <- MCPeople
    Signals <- MCSignals
    Keywords = {"cloud", "ai"}
    MAX_CONTACTS = 2
    MAX_SIGNALS = 2
    APOLLO_TRIES = 2
    Domains = 4
    BATCH_THRESHOLD = 2
    RATE_LIMIT = 2
    WINDOW = 2
    RETRY_DELAY = 3
    MaxClock = 7
    \* EnrichmentCycle
    Oldest <- MCOldest
    ProspectOf <- MCProspectOf
    Cycles = {"y1", "y2"}
    CYCLE_LIMIT = 3
    Columns = {"size", "industry"}
    Found <- MCFound
    FirstFound <- MCFirstFound
    \* RelevanceCache
    Evaluations = {e1, e2}
    Texts = {1, 2}
    Replies <- MCReplies
    MATCHING_TRIES = 2
    CACHE_TTL = 1
    \* GapAnalysis
    Recency <- MCRecency
    Skills = {"go", "sql"}
    Consultants = {"ann", "bob"}
    Demands = {{}, {"go"}, {"go", "sql"}}
    Standings <- MCStandings
    Profiles <- MCProfiles
    FirstStanding <- MCFirstStanding
    FirstProfile <- MCFirstProfile
    EXTRACTIONS = 1
    ENTRIES = 1
    BLOCKER_WEIGHT = 2
    TIMEOUT_TRIES = 2
    LIMIT_TRIES = 2
    MaxNights = 2
    MaxChanges = 1
    \* Dashboard
    Users = {"u1", "u2"}
    Sockets = {s1, s2, s3}
    UserOf <- MCUserOf
    Messages = {"m1", "h1"}
    Heatmaps = {"h1"}
INVARIANTS
    ThrottleSafety
    ScoringSafety
    ApolloSafety
    GapSafety
    DashboardSafety
PROPERTIES
    DiscoverySafety
    CycleSafety
    CacheSafety
SYMMETRY Symmetry
\* The components end.
CHECK_DEADLOCK FALSE
