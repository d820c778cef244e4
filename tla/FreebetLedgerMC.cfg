SPECIFICATION Spec
CONSTANTS
    Accounts = {a1, a2}
    FirstAdmin = a1
    Users = {u1, u2}
    BetPrograms = {bolao}
    MatchIds = {1}
    GrantIds = {g1, g2}
    GrantValues = {1, 2}
    Amounts = {1}
    SpendSlots = {s1, s2}
    MaxAvailable = 2
    MaxBalance = 2
    MaxForced = 1
    MaxLate = 1
    NoGrant = NoGrant
    NoCall = NoCall
SYMMETRY Perms
INVARIANTS
    LedgerTypeOK
    LiabilityIsBacked
    MarkersMatchCalls
    CreditIsConserved
CHECK_DEADLOCK FALSE
