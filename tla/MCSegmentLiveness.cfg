SPECIFICATION FairSpec
CONSTANTS
    Seg <- OneSeg
    Dir <- Dirs
    DirOf <- OneAsset
    s1 = s1 s2 = s2 d1 = d1
    Client = {c1, c2}
    Build = {b1}
    None = None
    SegCap = 1
    GateCap = 1
    MaxBytes = 1
PROPERTY CallersAnswered
