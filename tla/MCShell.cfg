CONSTANTS
    Lines <- MCLines
    Files <- MCFiles
    Dirs <- MCDirs
    Volume <- MCVolume
    OnDisk <- MCOnDisk
    Virtual <- MCVirtual
    MaxHistory = 1
    MaxLines = 4
    Subjects <- MCSubjects
SPECIFICATION Spec
INVARIANTS
    RegexFindsMatches
    WordsKeepQuotes
    OutputIsRouted
    NothingLeftBehind
