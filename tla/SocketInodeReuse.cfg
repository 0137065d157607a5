\* Two daemons, one after the other, on one path.
CONSTANTS
    Daemons = {d1, d2}
    Inodes = {i1, i2, i3}
    File = File
    Nothing = Nothing
SPECIFICATION DaemonsOnly
PROPERTY SerialCleanupSparesOthers
