SPECIFICATION SpecAudit
CONSTANTS
    Session = {s1, s2}
    NoSession = NoSession
    GL = "GL"
    Journal = {"GL"}
    Date <- Dates
    Year <- Years
    YearLength = 3
    Reopen = {}
    MaxPerTx = 2
    MaxSeq = 3
    MaxClock = 0
    MaxAnchors = 2
SYMMETRY Sessions
INVARIANTS AnchorsTell AlarmOnlyWhenOvertaken PassedIsAsHashed
