\* Two overlapping refreshes of two sources, edits, failures, restarts and new settings,
\* with the statements of their index transactions.
CONSTANTS
    s1 = s1
    s2 = s2
    c1 = c1
    blank = blank
    g1 = g1
    Sources = {s1, s2}
    Contents = {c1, blank}
    Blank = blank
    Configs = {g1, g2}
    Manifests <- MCManifests
    Runs = {r1, r2}
    None = None
    paragraphs <- MCParagraphs
    chunk_size = 8
    Texts <- MCTexts
SPECIFICATION IndexSpec
CONSTRAINT MCVersions
SYMMETRY MCRunSymmetry
INVARIANTS
    OneRefreshAtATime
    LedgerExplainsIndex
    TextMatchesFingerprint
    AuditedSuccessIsReal
    IndexIsWhole
PROPERTIES
    OutcomeIsFinal
