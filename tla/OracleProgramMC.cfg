SPECIFICATION Spec
CONSTANTS
    Accounts = {a1, a2}
    FirstAdmin = a1
    Nobody = Nobody
    Feeders = {h1, h2, f1, f2}
    Faulty = {f1, f2}
    MatchIds = {1}
    r1 = r1
    r2 = r2
    r3 = r3
    Results = {r1, r2, r3}
    Truth <- Played
    NoResult = NoResult
    NoEntry = NoEntry
    MAX_FEEDERS = 3
    DEFAULT_CONSENSUS_THRESHOLD = 2
SYMMETRY Perms
INVARIANTS
    OracleTypeOK
PROPERTIES
    ConsensusIsTrue
    FinalResultsStay
