\* One version and the ways to ask for it.
SPECIFICATION RequestsSpec
CONSTANTS
    v1 = v1
    v2 = v2
    v1_ = v1_
    part = part
    latest = latest
    empty = empty
    i1 = i1
    bc = bc
    Slots = {s1}
    Tags <- OneVersion
    Images <- OneImage
    Blobs <- OneBlob
    RefsOf <- OneRef
    Copies = {r1, r2}
    CacheTTL = 0
    MaxTime = 1
    Absent = Absent
    Targets <- AliasTargets
    Latest = empty
    Key <- AliasKey
    Norm <- AliasNorm
    ChosenBy <- AliasChoice
SYMMETRY Symmetric
INVARIANTS RequestsTypeOK FlightsConsistent
PROPERTIES NotFoundIsExplained ServiceSpec
