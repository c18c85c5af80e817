\* What a copy that fails half-way leaves behind.
SPECIFICATION Spec
CONSTANTS
    Slots = {s1}
    Tags = {t1}
    i1 = i1
    i2 = i2
    bc = bc
    b1 = b1
    b2 = b2
    Images <- TwoImages
    Blobs <- ThreeBlobs
    RefsOf <- SharedConfig
    Copies = {c1, c2}
    CacheTTL = 0
    MaxTime = 1
    Absent = Absent
SYMMETRY SymmetricCopies
INVARIANT EveryBlobExpires
