SPECIFICATION Spec
CONSTANTS
    sh1 = sh1
    sh2 = sh2
    Procs <- TwoShells
    MaxVersion = 2
    MaxKills = 1
    FoundArchives <- NoneFound
SYMMETRY Shells
INVARIANTS
    TypeOK
    SelectedIsUnpacked
    CachedIsWhole
    RecordedIsUpstream
