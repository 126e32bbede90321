SPECIFICATION Spec
CONSTANTS
    Session = {s1, s2}
    NoSession = NoSession
    GL = "GL"
    Journal = {"GL"}
    Date <- Dates
    Year <- Years
    YearLength = 1
    Reopen = {FALSE}
    MaxPerTx = 2
    MaxSeq = 3
    MaxClock = 2
INVARIANT ClosedYearStaysLocked
