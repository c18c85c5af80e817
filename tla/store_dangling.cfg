\* A client that pulls what a second copy stored while the cleanup was about to
\* delete its blobs.
SPECIFICATION PullFairSpec
CONSTANTS
    Slots = {s1}
    Tags = {t1}
    i1 = i1
    bc = bc
    b1 = b1
    Images <- OneImage
    Blobs <- OneBlob
    RefsOf <- OneRef
    Copies = {c1}
    Pulls = {p1}
    CacheTTL = 1
    MaxTime = 2
    Absent = Absent
PROPERTY PullsEndWithAllBlobs
