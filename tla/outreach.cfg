SPECIFICATION MCSpec
CONSTANTS
    a = a
    b = b
    g = g
    x = x
    t1 = t1
    t2 = t2
    va = va
    vb = vb
    Passages = {a, b, g, x}
    Pending <- MCPending
    Configured = {"m1", "m2"}
    Draft <- MCDraft
    DRAFT_SCORE = 60
    WordsOf <- MCWords
    Significant = {"python", "kafka", "rust", "team"}
    Assets = {"resume"}
    Holds <- MCHolds
    Critiques <- MCCritiques
    Revisions <- MCRevisions
    Batches = {"b1"}
    Pipelines = {"p1"}
    BATCH_SIZE = 2
    BATCH_CONCURRENCY = 1
    MAX_RETRIES = 1
    MAX_CYCLES = 2
    Jobs = {"j1", "j2", "j3", "j4"}
    MaterialOf <- MCMaterial
    ChannelOf <- MCChannel
    RulesOf <- MCRules
    KnownRecord = {"j1", "j2"}
    HasIds = {"j3", "j4"}
    MaxRuns <- MCRuns
    EngineTasks = {t1, t2}
    Versions = {{1, 2, 3}, {1, 3}}
    TestedStep = 1
    Variants = {va, vb}
    MAX_FOLLOWUPS = 2
    RANDOM_SENDS = 1
    Kinds = {"reply", "open"}
    MaxActivities = 1
    MaxSends = 2
    MaxSlips = 2
INVARIANTS
    SendSafety
PROPERTIES
    ReviewSafety
    SequenceSafety
SYMMETRY Symmetry
\* The components end.
CHECK_DEADLOCK FALSE
