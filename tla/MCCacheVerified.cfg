SPECIFICATION Spec
CONSTANTS
    sh1 = sh1
    sh2 = sh2
    Procs <- OneShell
    MaxVersion = 1
    MaxKills = 0
    FoundArchives <- AnyFound
INVARIANT
    VerifiedIsUpstream
