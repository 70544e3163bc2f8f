SPECIFICATION Spec
CONSTANTS
    Plugins = {p1, p2}
    Archives <- MCArchives
    MaxExpanded = 3
    MaxUploads = 4
    NoArchive = NoArchive
SYMMETRY Symmetric
INVARIANTS
    
    NothingWrittenUnlessSound
    ExpandedWithinLimit
