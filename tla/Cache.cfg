CONSTANTS
    r1 = r1
    c1 = c1
    c2 = c2
    Releases = {r1, r2}
    Checksums = {c1, c2}
    Requests = {q1, q2}
    Nobody = Nobody
    None = None
    Failed = Failed
    Cancelled = Cancelled
    Size <- MCSize
    Configs <- MCConfigs
SPECIFICATION FairSpec
INVARIANTS TypeOK BytesAreExact CacheIsConsistent OneLoadPerKey AnswerIsWhatWasAsked
PROPERTIES EvictsOnlyOverLimit EveryReadEnds
CHECK_DEADLOCK FALSE
