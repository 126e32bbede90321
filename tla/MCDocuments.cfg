SPECIFICATION SpecDocuments
CONSTANTS
    ada = ada
    bo = bo
    robot = robot
    Nobody = Nobody
    Person = {ada, bo, robot}
    Machine = {robot}
    RolesOf <- RolesOfPeople
    Document = {d1, d2}
    Content = {c1}
    InboxPolicy <- PoliciesTried
    BookedAmount = {1, 2}
    MaxTrail = 2
    MaxPolicy = 1
    addr1 = addr1
    addr2 = addr2
    MailAddress = {addr1, addr2}
    FirstAddress = addr1
    Envelope <- Mails
    NoEnvelope = NoEnvelope
    Domain <- Domains
    MaxMailTrouble = 1
    Claim = {k1, k2}
    ClaimAmount = {101}
    Kilometres = {7}
    KmRates <- KmRegister
    TaxFreeKmRates <- TaxFreeRegister
    ClaimDay = {0, 2}
    ContraAccount = {"2910", "2930"}
    NoContra = NoContra
    ExpenseVat = {0, 2500}
    MaxStrict = 1
    TimeEntry = {e1, e2}
    Project = {"p"}
    NoProject = NoProject
    TimeDraft <- Drafts
    ProjectRate <- RateRegister
    HoursInvoice = {i1, i2}
    NoInvoice = NoInvoice
    MaxEdit = 1
    Subject = {f1, v1}
    Invitation = {v1}
    DispatchId = {u1, u2}
    NoSubject = NoSubject
    Product = {x1, x2}
    NoProduct = NoProduct
    StockPrice = {12}
    StockMove <- StockMoves
    CountedQuantity = {1000}
    MaxDay = 2
    MaxMovement = 2
    MaxRegister = 1
    Draft <- Invoiced
    DocVatRate <- VatRegister
    ExchangeRate <- Kurser
    RegisteredFrom = 1
    MaxInvoice = 3
    MaxPaid = 2
    MaxMatchTrouble = 1
    SalesDoc = {s1, s2, s3}
    NoDoc = NoDoc
    SalesLines <- LinesWritten
    Template = {t1}
    Interval = {1}
    Today = 2
    MaxSalesEdit = 1
    MaxRunTrouble = 1
    BankAccount = {"1920"}
    Statement <- BankLines
    BankPosting <- BankPosts
    MatchWindow = 1
    OcrFile <- OcrFiles
    InvoiceKid = {"kid1", "kid2"}
    MaxBankEntry = 2
    MaxBankTrouble = 1
    Session = {q1, q2}
    Konto = {"1500"}
    Opening <- CurrencyEntries
    MaxMatch = 4
    NoCurrency = NoCurrency
    CurrencyOf <- CurrencyLines
    RateOffered <- RatesSeen
    RegulationDay = {2}
    MaxRegulation = 1
    Account = {"1500", "1510", "2050", "2400", "3000"}
    BalanceAccount = {"1500", "1510", "2050", "2400"}
    StartChart <- StartingChart
    HistoryFile <- HistoryFiles
    ItemsFile <- ItemLists
    ContactsFile <- ContactLists
    OrdinaryPosting <- PostedByHand
    ManualOpening <- EnteredOpenings
    YearDays = 2
    RenumberFrom = 90
    FirstPartyNo <- FirstNumbers
    FirstItemPartyNo <- FirstItemNumbers
    MaxMigVoucher = 6
    MaxMigTrouble = 1
INVARIANTS TypeOKDocuments AttestedByAnother  FiledOnce ClaimsAreInTheBooks
    HoursBilledOnce LoggedIsSent   AgreedIsBilled
    AutoMatchIsClear DriftIsRounding MigrationAddsUp
CHECK_DEADLOCK FALSE
