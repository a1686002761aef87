SPECIFICATION Spec
CONSTANTS
    a = a
    b = b
    author = author
    title = title
    track = track
    Uploads = {a, b}
    Author <- SameAuthor
    Title <- SameTitle
    File <- SameFile
    Recorded = {a}
    Blank = Blank
    NoFile = NoFile
    MaxSuffix = 5
    MaxMishaps = 1
INVARIANTS
    TypeOK
    NothingLost
    NothingStray
PROPERTIES
    LibraryKept
    
    EventuallyMoved
