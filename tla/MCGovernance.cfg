SPECIFICATION SpecGovernance
CONSTANTS
    ann = ann
    ben = ben
    robot = robot
    own = own
    w1 = w1
    w2 = w2
    s1 = s1
    q1 = q1
    NotLinked = NotLinked
    Human = {ann, ben}
    Robot = {robot}
    Founder = ann
    Company = "company"
    Firm = "firm"
    EngagementRole = "bokforing"
    OwnRole = {own}
    OwnRights <- RightsTried
    AssignedRole <- RolesTried
    Invite = {i1}
    MaxChange = 2
    MaxBeside = 1
    Person = {ann, robot}
    Machine = {robot}
    RolesOf <- RolesOfPeople
    Nobody = Nobody
    Employee = {w1}
    Terms <- TermsTried
    PayMonth = {11, 12}
    HolidayPaid = {0, 100}
    AgaRate <- AgaTried
    Zone = {"I", "Ia"}
    Minutes = {95}
    MaxPayTrouble = 1
    Asset = {s1}
    AssetTerms <- AssetRegister
    AccrualPlan = {q1}
    PlanTerms <- PlansTried
    Runner = {"job", "portal"}
    LastMonth = 2
    Consideration = {0, 5}
    GroupRate <- GroupRates
    MaxLockMove = 2
    Shareholder = {h1, h2}
    EventType = {"nyemisjon", "salg"}
    LastDayOfBook = 2
    Quantity = {2}
    PerShare = {3}
    DividendId = {v1}
    MaxShareEvent = 3
    Follower = {"cron"}
    Webhook = "webhook"
    MonthlyRun = {"cron", "hand"}
    ReminderRate <- RemindRates
    RemindedAs <- AskedFor
    ReminderAfter = 1
    StepInterval = 1
    NoticeGrace = 1
    FeeAfter = 1
    InterestYear = 3650000
    MaxReminder = 3
    Subscription = {b1}
    StripePayment = {p1}
    MonthLength = 2
    DueDays = 0
    TrialDays = 1
    GraceDays = 1
    BlockAfterDue = 2
    MonthlyGross = 100000
    LastBillingDay = 3
    MaxCoverage = 3
    MaxClaim = 2
    MaxBillingTrouble = 1
INVARIANTS TypeOKGovernance OrphanedOnlyByPlatform  GovernedByAdmins
       BilledOnce 
CHECK_DEADLOCK FALSE
