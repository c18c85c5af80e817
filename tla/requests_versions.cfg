\* Two versions, asked for by name; goroutines run.
SPECIFICATION RequestsFairSpec
CONSTANTS
    v1 = v1
    v2 = v2
    v1_ = v1_
    part = part
    latest = latest
    empty = empty
    i1 = i1
    bc = bc
    Slots = {s1}
    Tags <- TwoVersions
    Images <- OneImage
    Blobs <- OneBlob
    RefsOf <- OneRef
    Copies = {r1, r2}
    CacheTTL = 0
    MaxTime = 1
    Absent = Absent
    Targets <- VersionTargets
    Latest = empty
    Key <- Plain
    Norm <- Plain
    ChosenBy <- VersionChoice
PROPERTIES NotFoundIsExplained StoredIsNotRebuilt RequestsAnswered
