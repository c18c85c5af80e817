\* Pages of a listing that changes between them, from a handler that answers.
SPECIFICATION FairSpec
CONSTANTS
    v1 = v1
    w1 = w1
    v2 = v2
    v3 = v3
    Versions <- FourVersions
    TagOf <- FourTags
    Limits <- OneTwoAll
    NoLimit = NoLimit
INVARIANTS TypeOK NothingSkipped NothingRepeated
PROPERTIES PagesAdvance PagingEnds
