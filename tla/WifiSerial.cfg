SPECIFICATION Spec
CONSTANTS
    s1 = s1
    s2 = s2
    s3 = s3
    Ssid = {s1, s2, s3}
    Blank = Blank
    Hdr = Hdr
    InitNets <- MCInitNets
    Conn = {c1, c2, c3}
    Inode = {i1, i2, i3}
    NoInode = NoInode
    Serial = TRUE
    Faults = TRUE
SYMMETRY Symmetry
INVARIANTS
    TypeOK
    AddAppends
    OthersSurvive
    NoDuplicates
PROPERTIES
    ImplementsStore
