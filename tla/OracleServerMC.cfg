SPECIFICATION ServerFairSpec
CONSTANTS
    Accounts = {admin}
    Deployer = admin
    Treasury = admin
    Oracles = {oracle}
    Ledgers = {}
    Nobody = Nobody
    SealedAtDeploy = {TRUE}
    Times = {0, 1000000, 1135000, 1270000}
    Prices = {}
    StalenessLimits = {}
    DEFAULT_PRICE_STALENESS_LIMIT_MS = 3600000
    MIN_BET_PLANCK = 20
    BET_TARGET = 100
    RefreshSlots = {}
    Users = {}
    MatchIds = {1}
    PhaseNames = {RoundOf32}
    RoundOf32 = RoundOf32
    Weights = {2}
    KickOffs = {1000000}
    Guesses = {}
    Reports <- TheReports
    BetValues = {}
    FreebetValues = {}
    BET_CLOSE_WINDOW_SECONDS = 600
    CHALLENGE_WINDOW_MS = 120000
    CLAIM_DEADLINE_MS = 240000
    EarlyReports = FALSE
    LastReport = 1135000
    QuerySlots = {q1}
    ReturnSlots = {}
    NoMatch = NoMatch
    NoBet = NoBet
    NoResult = NoResult
    NoCall = NoCall
    Fixtures <- TheFixtures
    KickOffOf <- AtOnce
    Played <- OnTheField
    ScoreNode <- AtTheApi
    NoScore = NoScore
    Cup = {"opener", "second"}
    Stage <- TheStage
    FixtureNumbered <- Numbered
    NoFixture = "none"
    NoEntry = NoEntry
    Feeders = {gateway, other}
    Gateway = gateway
    OracleProgramId = oracle
    CONSENSUS_THRESHOLD = 1
    FINALIZE_BUFFER_MS = 15000
    MaxRestarts = 1
INVARIANTS
    ServerTypeOK
    ResultsAreOfTheirFixture
PROPERTIES
    ProposalsAreFinalized
    EveryConsensusSettles
CHECK_DEADLOCK FALSE
