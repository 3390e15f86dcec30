SPECIFICATION Spec
CONSTANTS
    sh1 = sh1
    sh2 = sh2
    Procs <- OneShell
    MaxVersion = 1
    MaxKills = 1
    FoundArchives <- NoneFound
PROPERTY
    PinsPreserved
