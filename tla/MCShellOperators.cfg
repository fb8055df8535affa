CONSTANTS
    Lines <- MCLines
    Files <- MCFiles
    Dirs <- MCDirs
    Volume <- MCVolume
    OnDisk <- MCOnDisk
    Virtual <- MCVirtual
    MaxHistory = 1
    MaxLines = 1
    Subjects = {}
SPECIFICATION Spec
INVARIANT
    OperatorGovernsNext
