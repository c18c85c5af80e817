\* Two overlapping calls against an upstream that changes, fails, is malformed
\* and recovers.
SPECIFICATION FairSpec
CONSTANTS
    Requests = {r1, r2}
    good = good
    partial = partial
    bad = bad
    Contents <- AllContents
    Parses <- AllParses
    IndexTTL = 3
    ErrorTTL = 1
    CallTime = 1
    None = None
INVARIANTS TypeOK StalenessBounded CancelIsPrivate
PROPERTY RecoversAfterOutage
