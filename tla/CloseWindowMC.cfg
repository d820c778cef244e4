SPECIFICATION MCSpec
CONSTANTS
    Accounts = {admin}
    Deployer = admin
    Treasury = admin
    Oracles = {oracle}
    Ledgers = {ledger}
    Nobody = Nobody
    SealedAtDeploy = {TRUE}
    Times = {0, 500000, 1000000}
    Prices = {}
    StalenessLimits = {}
    DEFAULT_PRICE_STALENESS_LIMIT_MS = 3600000
    MIN_BET_PLANCK = 20
    BET_TARGET = 100
    RefreshSlots = {}
    Users = {u1}
    MatchIds = {1}
    PhaseNames = {RoundOf32}
    RoundOf32 = RoundOf32
    Weights = {1, 2}
    KickOffs = {1000000}
    Guesses <- SomeGuesses
    Reports <- SomeReports
    BetValues = {27}
    FreebetValues = {}
    BET_CLOSE_WINDOW_SECONDS = 600
    CHALLENGE_WINDOW_MS = 120000
    CLAIM_DEADLINE_MS = 240000
    EarlyReports = FALSE
    LastReport = 1120000
    QuerySlots = {}
    ReturnSlots = {}
    NoMatch = NoMatch
    NoBet = NoBet
    NoResult = NoResult
    NoCall = NoCall
PROPERTY
    BetsCloseTenMinutesAhead
CHECK_DEADLOCK FALSE
