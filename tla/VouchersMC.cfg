CONSTANTS
    w1 = w1
    s1 = s1
    s2 = s2
    p1 = p1
    p2 = p2
    ip1 = ip1
    Free = Free
    NoRow = NoRow
    NoVoucher = NoVoucher
    NoHandler = NoHandler
    Wallets = {w1}
    Ips = {ip1}
    Programs = {p1, p2}
    OneTime = {p2}
    Interval = 2
    Duration = 2
    Ceiling = 2
    DayLength = 4
    MaxTime = 4
    MaxLag = 1
    VoucherIds = {1, 2}
    Slots = {s1, s2}
    MaxUsage = 3
    MaxFundings = 3
    MaxFaults = 1
SPECIFICATION Spec
SYMMETRY Perms
INVARIANTS
    VoucherTypeOK
    TranchesAreSpaced
    CeilingHolds
    OneLiveRow
PROPERTIES
    RenewedStaysLive
CHECK_DEADLOCK FALSE
