CONSTANTS
    DepositHandlers = {d1, d2}
    NgnWallets = {w1, w2}
    DepositAmounts = {1}
    MaxDeposits = 3
    MaxDepositFaults = 1
    OnboardingHandlers = {o1, o2}
    MaxOnboarding = 4
    MaxOnboardingFaults = 1
    InboxHandlers = {i1, i2}
    Notifications = {n1, n2}
    MaxMarks = 3
    MaxInboxFaults = 1
    LimitHandlers = {l1, l2}
    Points = 2
    Duration = 2
    BlockDuration = 3
    TxTypes = {"DEBIT", "DEPOSIT"}
    TxAmounts = {1}
    HistoryFilters <- MCHistoryFilters
    PageSizes = {2}
    MaxRows = 3
    LastDay = 1
    MaxRangeDays = 2
    PlaceHandlers = {g1, g2}
    PlaceTypes = {"CITY", "TOWN"}
    PlacesTtl = 2
    ProfileHandlers = {p1, p2}
    Owners = {u1, u2}
    FreeAddresses = {a1}
    NameChoices <- MCNameChoices
    PartChoices <- MCPartChoices
    MaxEdits = 3
    MaxProfileFaults = 1

SPECIFICATION ServicesSpec

INVARIANTS
    ServicesTypeOK
    BalanceBacked
    LossHasCause
    KycAgrees
    ResumeIsEarned
    SentWasPushed
    MarksStick
    LimitHolds
    PagesPartition
    StatementMatchesHistory
    GapsHaveCause
    EmailsAreOwn
    FilesAreRetrievable
    EditsStick

PROPERTY
    LimitLifts

CHECK_DEADLOCK FALSE
