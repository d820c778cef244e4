CONSTANTS
    w1 = w1
    w2 = w2
    w3 = w3
    w4 = w4
    s1 = s1
    s2 = s2
    FirstX = FirstX
    SecondX = SecondX
    NoXAccount = NoXAccount
    Issuer = Issuer
    Nobody = Nobody
    NoRequest = NoRequest
    NoGrant = NoGrant
    Wallets = {w1, w2, w3, w4}
    Claimants = {w1, w2}
    Referrers = {w1, w2}
    Slots = {s1, s2}
    XAccounts = {FirstX, SecondX}
    Tasks = {"post"}
    Posts = {"own", "shared"}
    AuthorsOf <- Authors
    WeeklyCap = 1
    MaxOrphans = 1
    Weeks = {1, 2}
SPECIFICATION MCSpec
SYMMETRY Perms
INVARIANTS
    RewardsTypeOK
    OneRewardPerXAccount
    PaidIsCredited
    ReferralCapHolds
CHECK_DEADLOCK FALSE
