SPECIFICATION Spec
CONSTANTS
    s1 = s1
    s2 = s2
    s3 = s3
    Ssid = {s1, s2}
    Blank = Blank
    Hdr = Hdr
    InitNets <- MCOneNet
    Conn = {c1, c2, c3}
    Inode = {i1, i2, i3, i4}
    NoInode = NoInode
    Serial = FALSE
    Faults = TRUE
SYMMETRY Symmetry
INVARIANTS
    ConfigAlone
    OnlyRequested
    NoStrayTemp
