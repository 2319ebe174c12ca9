\* One refresh and a restart.
CONSTANTS
    s1 = s1
    Sources = {s1}
    Contents = {c1, blank}
    Blank = blank
    Configs = {g1}
    Manifests <- MCOneManifest
    Runs = {r1, r2}
    None = None
SPECIFICATION FairSpec
PROPERTIES
    RefreshCanBeRerun
