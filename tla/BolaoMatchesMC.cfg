SPECIFICATION MCSpec
CONSTANTS
    Accounts = {admin}
    Deployer = admin
    Treasury = admin
    Oracles = {oracle}
    Ledgers = {ledger}
    Nobody = Nobody
    SealedAtDeploy = {TRUE}
    Times = {0, 999399, 999400, 1000000, 1120000, 1240000, 1360000}
    Prices = {}
    StalenessLimits = {}
    DEFAULT_PRICE_STALENESS_LIMIT_MS = 3600000
    MIN_BET_PLANCK = 20
    BET_TARGET = 100
    RefreshSlots = {}
    Users = {u1, u2}
    MatchIds = {1}
    PhaseNames = {RoundOf32}
    RoundOf32 = RoundOf32
    Weights = {1, 2}
    KickOffs = {1000000}
    Guesses <- SomeGuesses
    Reports <- SomeReports
    BetValues = {27}
    FreebetValues = {20}
    BET_CLOSE_WINDOW_SECONDS = 600
    CHALLENGE_WINDOW_MS = 120000
    CLAIM_DEADLINE_MS = 240000
    EarlyReports = FALSE
    LastReport = 1120000
    QuerySlots = {q1, q2}
    ReturnSlots = {r1, r2}
    NoMatch = NoMatch
    NoBet = NoBet
    NoResult = NoResult
    NoCall = NoCall
SYMMETRY Perms
INVARIANTS
    MatchesTypeOK
    BooksAreCovered
    WinnersStayCovered
    NoBetIsOverpaid
PROPERTIES
    ProposalsStand
    LockFreezesBooks
    ResultsAreFinal
    ImplementsLifecycle
CHECK_DEADLOCK FALSE
