\* Three refreshes of one source that nobody edits and that is not blank.
CONSTANTS
    s1 = s1
    Sources = {s1}
    Contents = {c1}
    Blank = blank
    Configs = {g1}
    Manifests <- MCOneManifest
    Runs = {r1, r2, r3}
    None = None
SPECIFICATION Spec
INVARIANTS
    UnchangedIsNoOp
