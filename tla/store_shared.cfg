\* One chart in two slots that expire on their own, a client that pulls it, and
\* a cleanup that gets its turns.
SPECIFICATION PullFairSpec
CONSTANTS
    Slots = {s1, s2}
    Tags = {t1}
    i1 = i1
    bc = bc
    b1 = b1
    Images <- OneImage
    Blobs <- TwoBlobs
    RefsOf <- TwoRefs
    Copies = {c1}
    Pulls = {p1}
    CacheTTL = 0
    MaxTime = 1
    Absent = Absent
INVARIANTS CleanManifestsComplete BlobsAccountedFor PullsFindTheirBlobs
PROPERTIES ExpiredIsSwept GarbageIsCollected
