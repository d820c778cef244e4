SPECIFICATION MCSpec
CONSTANTS
    Accounts = {admin}
    Deployer = admin
    Treasury = admin
    Oracles = {oracle}
    Ledgers = {}
    Nobody = Nobody
    SealedAtDeploy = {TRUE}
    Times = {0, 1000000, 1120000}
    Prices = {}
    StalenessLimits = {}
    DEFAULT_PRICE_STALENESS_LIMIT_MS = 3600000
    MIN_BET_PLANCK = 20
    BET_TARGET = 100
    RefreshSlots = {}
    Users = {u1, u2}
    MatchIds = {1}
    PhaseNames = {RoundOf32}
    RoundOf32 = RoundOf32
    Weights = {2}
    KickOffs = {1000000}
    Guesses <- HomeOrAway
    Reports <- HomeWin
    BetValues = {27}
    FreebetValues = {20}
    BET_CLOSE_WINDOW_SECONDS = 600
    CHALLENGE_WINDOW_MS = 120000
    CLAIM_DEADLINE_MS = 120000
    EarlyReports = FALSE
    LastReport = 1000000
    QuerySlots = {}
    ReturnSlots = {r1}
    NoMatch = NoMatch
    NoBet = NoBet
    NoResult = NoResult
    NoCall = NoCall
    Teams = {"brazil", "japan", "mexico"}
    PodiumInputs <- OnePodium
    PodiumValues = {27}
    WithdrawAmounts = {}
    MaxForced = 1
    NoPodium = NoPodium
    MaxBacklog = 3
    NoRow = NoRow
    Scenarios = {"treasury"}
INVARIANT
    CancelledStakesAreReturned
CHECK_DEADLOCK FALSE
