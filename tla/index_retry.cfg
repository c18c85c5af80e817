\* An index that does not parse is kept for longer than the error TTL.
SPECIFICATION Spec
CONSTANTS
    Requests = {r1}
    good = good
    partial = partial
    bad = bad
    Contents <- GoodOrBad
    Parses <- GoodOrBadParses
    IndexTTL = 4
    ErrorTTL = 1
    CallTime = 1
    None = None
INVARIANT FailureIsRetried
