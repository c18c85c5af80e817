\* The process from start to exit, with two pulls, a catalog and the cleanup.
SPECIFICATION FairSpec
CONSTANTS
    Pullers = {p1, p2}
    Listers = {l1}
    k1 = k1
    Charts = {k1}
    Attempts <- TwoForms
    Cleaner = Cleaner
    DownloadTimeout = 1
    ShutdownTimeout = 1
    Nobody = Nobody
INVARIANTS TypeOK DownloadsBounded FailureIsExplained CleanExit
PROPERTIES SignalEndsProcess PullsComeToAnAnswer
