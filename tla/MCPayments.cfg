SPECIFICATION SpecPayments
CONSTANTS
    Session = {s1, s2}
    NoSession = NoSession
    Person = {p1, p2}
    NoPerson = NoPerson
    Run = {r1, r2}
    Konto = {"k"}
    Opening <- Entries
    MaxMatch = 2
    MaxItems = 2
    Amounts = {0, 1}
SYMMETRY Symmetry
INVARIANTS TypeOKPayments PaidOnce FourEyes OverpaidOnlyIfContended
