SPECIFICATION FairSpec
CONSTANTS
    a = a
    b = b
    c1 = c1
    c2 = c2
    s1 = s1
    s2 = s2
    s3 = s3
    NoObj = NoObj
    Obj = {a, b}
    Legacy = {{a}, {b}}
    NameOf <- OwnName
    Slice = {s1, s2}
    DataSlices = 1
    Deleter = {c1, c2}
    ReplyLost = {b}
INVARIANTS TypeOK NoLivePhantom RowSurvivesRestore FuneralIsReal
PROPERTIES ImplementsStore SlicesOutliveRow 
