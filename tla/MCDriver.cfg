SPECIFICATION Spec
CONSTANTS
    CommandLines <- MCCommandLines
    Files <- MCFiles
    FileSystems <- MCFileSystems
INVARIANTS
    ExitTellsTruth
    OnlyNamedFiles
