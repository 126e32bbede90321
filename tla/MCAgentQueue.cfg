SPECIFICATION Spec
CONSTANTS
    Task = {t1}
    Listener = {w1, w2}
    Sweeper = sweeper
    Human = human
    Nobody = Nobody
    NoTask = NoTask
    NoMessage = NoMessage
    Message = {m1, m2}
    Timely = TRUE
    MaxDeliver = 2
    MaxCrash = 1
    MaxHuman = 1
INVARIANTS TypeOK OneWorkerPerTask 
PROPERTY EveryTaskAttended
