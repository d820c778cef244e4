----------------------------- MODULE RewardsMC -----------------------------
(* X tasks and referrals share nothing but the ledger: an instance explores *)
(* one of them.                                                             *)
EXTENDS Rewards, TLC

CONSTANTS
    FirstX, SecondX,
    Claimants,          \* bound: who submits tasks
    Referrers           \* bound: who invites

VARIABLE scenario

\* The first post is by one account; both have reposted the second.
Authors == [p \in Posts |-> IF p = "own" THEN {FirstX} ELSE XAccounts]

Perms == Permutations(Claimants) \cup Permutations(Wallets \ (Claimants \cup Referrers)) \cup Permutations(Slots)

MCInit == Init /\ scenario \in {"tasks", "referrals"}

MCNext ==
    /\ \/ /\ scenario = "tasks" /\ TaskStep
          /\ \A s \in Slots : requests'[s] # NoRequest => requests'[s].wallet \in Claimants
       \/ /\ scenario = "referrals" /\ ReferralStep
          /\ \A f \in Wallets : referrals'[f] \in Referrers \cup {Nobody}
       \/ GrantStep
       \/ NextWeek
    /\ UNCHANGED scenario

MCSpec == MCInit /\ [][MCNext]_<<vars, scenario>>
=============================================================================
