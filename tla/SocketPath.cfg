\* Three daemons on one path.
CONSTANTS
    Daemons = {d1, d2, d3}
    Inodes = {i1, i2, i3, i4}
    File = File
    Nothing = Nothing
SPECIFICATION Spec
SYMMETRY Symmetry
PROPERTIES
    StartsRemoveOnlyStale
    CleanupSparesElders
