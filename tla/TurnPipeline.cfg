\* A slot for requests of every kind, one after the other, and changes around them.
CONSTANTS
    d1 = d1
    d2 = d2
    d3 = d3
    Docs = {d1, d2, d3}
    access_level <- MCAccess
    similarity <- MCSimilarity
    minimum_similarity = 2
    MaxMissed = 1
    passage <- MCPassages
    Tools <- MCTools
    Unknown = Unknown
    c1 = c1
    c2 = c2
    Changes = {c1, c2}
    None = None
    r1 = r1
    r2 = r2
    Requests = {r1, r2}
    PathsOf <- MCPaths
    UserRoles = {"analyst", "admin"}
    Texts <- MCTexts
    ModelOutputs <- MCOutputs
    Histories <- MCHistories
    Indexes <- MCIndexes
    Configurations <- MCConfigurations
    TopKs = {1, 2}
    MaxChanges = 1
    max_messages = 2
    max_characters = 4
    max_chunks = 2
    max_chars_per_chunk = 2
    max_total_chars = 3
SPECIFICATION Spec
CONSTRAINT MCBounds
INVARIANTS
    TypeOK
    CitationsAuthorized
    GroundedAnswersCite
    CachedAnswersComplete
    ActionsHaveEvidence
    SwitchedOffMeansOff
    SwitchesExplained
    BestResults
    ContextIsHonest
    ReportPredicts
