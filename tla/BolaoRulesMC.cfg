SPECIFICATION CasesSpec
CONSTANTS
    Goals = {0, 1, 2}
    PhaseWeights = {1, 2}
    Wallets = {w1, w2, w3, w4, w5, w6}
    PointValues = {0, 1, 3}
    Pools = {1, 99, 1000}
    Stakes = {17, 20, 26}
    VaraPrices = {1, 3, 7, 100, 101}
    MinBetTarget = 100
SYMMETRY Perms
INVARIANTS
    PaidIffPoints
    LoopMatchesRanking
    PrizesAreFair
    SharesFitThePool
    MinBetIsWorthTheTarget
CHECK_DEADLOCK FALSE
