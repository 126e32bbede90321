SPECIFICATION Spec
CONSTANTS
    Session = {s1, s2, s3}
    NoSession = NoSession
    GL = "GL"
    Journal = {"GL"}
    Date <- Dates
    Year <- Years
    YearLength = 1
    Reopen = {TRUE, FALSE}
    MaxPerTx = 2
    MaxSeq = 3
    MaxClock = 2
SYMMETRY Sessions
INVARIANTS TypeOK ChainIntact GapFreeNumbers LockHolds ClosingAtomic OpeningFirst
PROPERTY AppendOnlyLog
