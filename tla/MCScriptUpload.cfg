SPECIFICATION Spec
CONSTANTS
    f1 = f1
    f2 = f2
    t1 = t1
    t2 = t2
    handler = handler
    own = own
    Files <- TwoFiles
    Texts <- TwoTexts
    Others <- OneOther
    Handler = handler
    NoName = noname
    Absent = absent
    Empty = empty
    Parts = 2
    Closed = closed
    Here = here
    MaxChanges = 1
    MaxSockets = 2
    MaxUploads = 2
SYMMETRY FileAndTextSymmetry
INVARIANT TypeOK
INVARIANT ScriptOfFile
INVARIANT CutIsReported
PROPERTY UploadedAsRead
