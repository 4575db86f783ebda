SPECIFICATION Spec
CONSTANTS
    Seg <- Segs
    Dir <- Dirs
    DirOf <- Asset
    s1 = s1 s2 = s2 d1 = d1
    Client = {c1, c2}
    Build = {b1, b2}
    None = None
    SegCap = 1
    GateCap = 1
    MaxBytes = 1
SYMMETRY Alike
INVARIANTS TypeOK WholeSegmentsOnly SlotsAccounted RegisteredBuildIsLive
