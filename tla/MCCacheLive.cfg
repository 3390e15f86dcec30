SPECIFICATION LiveSpec
CONSTANTS
    sh1 = sh1
    sh2 = sh2
    Procs <- OneShell
    MaxVersion = 2
    MaxKills = 2
    FoundArchives <- NoneFound
PROPERTY
    ReleaseGetsCached
