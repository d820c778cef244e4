SPECIFICATION MCSpec
CONSTANTS
    Accounts = {alice, bob}
    Deployer = alice
    Treasury = alice
    Oracles = {oracle1, oracle2}
    Ledgers = {ledger1}
    Nobody = Nobody
    SealedAtDeploy = {TRUE, FALSE}
    Times = {0, 1000000, 1120000, 1240000, 3600000, 3600001}
    Prices = {0, 3, 7}
    StalenessLimits = {0, 3600000}
    DEFAULT_PRICE_STALENESS_LIMIT_MS = 3600000
    MIN_BET_PLANCK = 20
    BET_TARGET = 100
    RefreshSlots = {slot1}
    Users = {u1, u2}
    MatchIds = {1, 2}
    PhaseNames = {RoundOf32}
    RoundOf32 = RoundOf32
    Weights = {2}
    KickOffs = {1000000}
    Guesses <- HomeOrAway
    Reports <- HomeWin
    BetValues = {27}
    FreebetValues = {20}
    BET_CLOSE_WINDOW_SECONDS = 600
    CHALLENGE_WINDOW_MS = 120000
    CLAIM_DEADLINE_MS = 120000
    EarlyReports = FALSE
    LastReport = 1000000
    QuerySlots = {}
    ReturnSlots = {r1}
    NoMatch = NoMatch
    NoBet = NoBet
    NoResult = NoResult
    NoCall = NoCall
    Teams = {"brazil", "japan", "mexico"}
    PodiumInputs <- OnePodium
    PodiumValues = {27}
    WithdrawAmounts = {1}
    MaxForced = 1
    NoPodium = NoPodium
    MaxBacklog = 3
    NoRow = NoRow
    Scenarios = {"index"}
SYMMETRY Perms
INVARIANT
    TotalPointsAreAwarded
CHECK_DEADLOCK FALSE
