------------------------------ MODULE Rewards ------------------------------
(***************************************************************************)
(* The rewards backend: it pays freebets for tasks done on X and for       *)
(* referred friends who bet, by sending grants to the FreebetLedger.       *)
(*                                                                         *)
(* A handler runs between awaits of the database, the X API and the chain, *)
(* with other requests in between, and may end at any of them: an error, a *)
(* process that dies.  A grant whose answer nobody waits for any more (the *)
(* call timed out after 180 seconds) may still be executed later.  The     *)
(* tables outlive everything; their unique indexes decide races.           *)
(*                                                                         *)
(* The ledger is the Grant of FreebetLedger, with the backend as its admin.*)
(*                                                                         *)
(* Abstractions: consecutive reads that only refuse a request are one step;*)
(* referral_progress only feeds a dashboard; the admin's milestone and     *)
(* manual endpoints are the same grants on the admin's word, and only the  *)
(* backfill of a row that was not paid is kept.                            *)
(***************************************************************************)
EXTENDS Integers, FiniteSets

CONSTANTS
    Wallets,
    Tasks,              \* "repost" and "post"
    Posts,              \* posts on X
    XAccounts, NoXAccount,
    AuthorsOf,          \* post -> the accounts the X API confirms for it
    WeeklyCap,          \* rewarded referrals per referrer and week
    Weeks,              \* bound: the weeks, numbered
    Slots,              \* bound: requests at once
    MaxOrphans,         \* bound: grants under way that nobody waits for
    Issuer, Nobody, NoRequest, NoGrant

ASSUME RewardsAssumption ==
    /\ NoXAccount \notin XAccounts /\ Nobody \notin Wallets
    /\ AuthorsOf \in [Posts -> SUBSET XAccounts]
    /\ WeeklyCap \in Nat \ {0}
    /\ Weeks \subseteq Nat /\ 1 \in Weeks
    /\ IsFiniteSet(Slots) /\ IsFiniteSet(Wallets)

VARIABLES
    week,               \* getUtcWeekKey()
    submissions,        \* table reward_submission
    referrals,          \* table referral: friend -> referrer
    referral_rewards,   \* table referral_reward
    requests,           \* handlers under way
    orphans,            \* grants sent whose answer nobody waits for
    grants, balances, available,    \* the ledger's
    payments,           \* history: the referral rewards the ledger paid
    lost                \* history: those whose row nobody is left to save

tables == <<submissions, referrals, referral_rewards>>
ledgerVars == <<grants, balances, available>>
historyVars == <<payments, lost>>
vars == <<week, tables, requests, orphans, ledgerVars, historyVars>>

\* x:<week>:<wallet>:<task> and ref:<referrer>:<friend>:5:referrer
XGrantId(r) == <<"x", r.week, r.wallet, r.task>>
ReferralGrantId(r) == <<"ref", r.referrer, r.friend>>
GrantIds == ({"x"} \X Weeks \X Wallets \X Tasks) \cup ({"ref"} \X Wallets \X Wallets)

\* In VARA; what matters is that they differ.
XAmount == [t \in Tasks |-> IF t = "repost" THEN 1 ELSE 3]
ReferralAmount == 2

\* The week is not sent; it is what the row of the payment will say.
GrantOf(r) ==
    IF r.kind = "x"
    THEN [id |-> XGrantId(r), to |-> r.wallet, amount |-> XAmount[r.task], week |-> r.week]
    ELSE [id |-> ReferralGrantId(r), to |-> r.referrer, amount |-> ReferralAmount, week |-> r.week]

\* The row of table referral_reward a grant is for, if it is for one.
RewardFor(message) ==
    IF message.id[1] = "x" THEN {}
    ELSE {[referrer |-> message.to, friend |-> message.id[3], week |-> message.week]}

Ledger == INSTANCE FreebetLedger WITH
    Accounts <- {Issuer}, FirstAdmin <- Issuer, Users <- Wallets,
    BetPrograms <- {}, MatchIds <- {}, GrantValues <- 1..3, Amounts <- {}, SpendSlots <- {},
    MaxAvailable <- 0, MaxBalance <- 0, MaxForced <- 0, MaxLate <- 0, NoCall <- NoRequest,
    admins <- {Issuer}, authorized_bet_programs <- {}, pending_spends <- {}, spends <- <<>>,
    staked <- <<>>, late <- <<>>, recovered <- <<>>, forced <- 0 + 0, hasty <- 0 + 0

Rows == [wallet : Wallets, task : Tasks, week : Weeks, account : XAccounts, post : Posts,
         status : {"approved", "paid"}]
RewardRows == [referrer : Wallets, friend : Wallets, week : Weeks]
Messages == [id : GrantIds, to : Wallets, amount : 1..3, week : Weeks]

XRequests == [kind : {"x"}, wallet : Wallets, task : Tasks, week : Weeks,
              account : XAccounts \cup {NoXAccount}, post : Posts,
              step : {"account", "wallet", "fetch", "recheck", "save", "grant", "record"}]
ReferralRequests == [kind : {"ref"}, referrer : Wallets, friend : Wallets, week : Weeks,
                     step : {"cap", "grant", "record"}]

ASSUME NoRequestAssumption == NoRequest \notin XRequests \cup ReferralRequests

RewardsTypeOK ==
    /\ week \in Weeks
    /\ submissions \subseteq Rows
    /\ referrals \in [Wallets -> Wallets \cup {Nobody}]
    /\ referral_rewards \subseteq RewardRows
    /\ requests \in [Slots -> XRequests \cup ReferralRequests \cup {NoRequest}]
    /\ orphans \subseteq Messages
    /\ grants \in [GrantIds -> [recipient : Wallets, amount : 1..3] \cup {NoGrant}]
    /\ balances \in [Wallets -> Nat] /\ available \in Nat
    /\ payments \subseteq RewardRows /\ lost \subseteq RewardRows

Init ==
    /\ week = 1
    /\ submissions = {} /\ referral_rewards = {}
    /\ referrals = [f \in Wallets |-> Nobody]
    /\ requests = [s \in Slots |-> NoRequest]
    /\ orphans = {}
    /\ grants = [g \in GrantIds |-> NoGrant]
    /\ balances = [w \in Wallets |-> 0] /\ available = 0
    /\ payments = {} /\ lost = {}

----------------------------------------------------------------------------
(* Requests *)

At(s, step) == requests[s] # NoRequest /\ requests[s].step = step

Begin(s, r) == requests[s] = NoRequest /\ requests' = [requests EXCEPT ![s] = r]
GoOn(s, step) == requests' = [requests EXCEPT ![s].step = step]
Ends(s) == requests' = [requests EXCEPT ![s] = NoRequest]

\* The handler throws, or the process dies with all its requests, one by
\* one; after the grant it takes the row along.
Abandon(s) ==
    /\ requests[s] # NoRequest
    /\ Ends(s)
    /\ lost' = IF At(s, "record") THEN lost \cup RewardFor(GrantOf(requests[s])) ELSE lost
    /\ UNCHANGED <<week, tables, orphans, ledgerVars, payments>>

----------------------------------------------------------------------------
(* submitXTask *)

\* With a user name in the body or in the url, the account is checked first.
SubmitXTask(s, w, t, p, a) ==
    /\ Begin(s, [kind |-> "x", wallet |-> w, task |-> t, week |-> week, account |-> a,
                 post |-> p, step |-> IF a = NoXAccount THEN "wallet" ELSE "account"])
    /\ UNCHANGED <<week, tables, orphans, ledgerVars, historyVars>>

\* ensureXAccountCanSubmit
XAccountCanSubmit(r) ==
    ~\E row \in submissions :
        /\ row.account = r.account /\ row.task = r.task
        /\ row.post = r.post \/ row.week = r.week

EnsureXAccountCanSubmit(s) ==
    /\ \/ At(s, "account") /\ GoOn(s, "wallet")
       \/ At(s, "recheck") /\ GoOn(s, "save")
    /\ XAccountCanSubmit(requests[s])
    /\ UNCHANGED <<week, tables, orphans, ledgerVars, historyVars>>

SameWalletTaskWeek(r, q) == r.wallet = q.wallet /\ r.task = q.task /\ r.week = q.week

FindExisting(s) ==
    /\ At(s, "wallet")
    /\ ~\E row \in submissions : SameWalletTaskWeek(row, requests[s])
    /\ GoOn(s, "fetch")
    /\ UNCHANGED <<week, tables, orphans, ledgerVars, historyVars>>

\* fetchTweet and verifyTask: a name given must be the one found.
VerifyTask(s) ==
    /\ At(s, "fetch")
    /\ \E a \in AuthorsOf[requests[s].post] :
          /\ requests[s].account \in {a, NoXAccount}
          /\ requests' = [requests EXCEPT
                ![s].account = a,
                ![s].step = IF requests[s].account = a THEN "save" ELSE "recheck"]
    /\ UNCHANGED <<week, tables, orphans, ledgerVars, historyVars>>

UniqueIndexesAllow_Bug(r) ==
    ~\E row \in submissions :
        \/ SameWalletTaskWeek(row, r)
        \/ row.account = r.account /\ row.task = r.task /\ row.post = r.post

\* The unique indexes of reward_submission (that on grant_id is the first).
UniqueIndexesAllow(r) ==
    ~\E row \in submissions :
        \/ SameWalletTaskWeek(row, r)
        \/ /\ row.account = r.account /\ row.task = r.task
           /\ row.week = r.week \/ row.post = r.post

RowOf(r, status) ==
    [wallet |-> r.wallet, task |-> r.task, week |-> r.week, account |-> r.account,
     post |-> r.post, status |-> status]

SaveSubmission_Bug(s) ==
    /\ At(s, "save")
    /\ UniqueIndexesAllow(requests[s])
    /\ submissions' = submissions \cup {RowOf(requests[s], "paid")}
    /\ GoOn(s, "grant")
    /\ UNCHANGED <<week, referrals, referral_rewards, orphans, ledgerVars, historyVars>>

SaveSubmission(s) ==
    /\ At(s, "save")
    /\ UniqueIndexesAllow(requests[s])
    /\ submissions' = submissions \cup {RowOf(requests[s], "approved")}
    /\ GoOn(s, "grant")
    /\ UNCHANGED <<week, referrals, referral_rewards, orphans, ledgerVars, historyVars>>

MarkPaid(s) ==
    /\ At(s, "record") /\ requests[s].kind = "x"
    /\ submissions' = {IF SameWalletTaskWeek(row, requests[s])
                       THEN [row EXCEPT !.status = "paid"] ELSE row : row \in submissions}
    /\ Ends(s)
    /\ UNCHANGED <<week, referrals, referral_rewards, orphans, ledgerVars, historyVars>>

----------------------------------------------------------------------------
(* grantLedgerFreebet *)

Executes(message) ==
    /\ Ledger!Grant(Issuer, message.to, message.id, message.amount)
    /\ payments' = payments \cup RewardFor(message)

\* The ledger executes the grant and the handler hears of it (when it does
\* not, Abandon follows) ...
GrantLedgerFreebet(s) ==
    /\ At(s, "grant")
    /\ Executes(GrantOf(requests[s]))
    /\ GoOn(s, "record")
    /\ UNCHANGED <<week, tables, orphans, lost>>

\* ... or the handler gives up before.
GrantTimesOut(s) ==
    /\ At(s, "grant")
    /\ Cardinality(orphans) < MaxOrphans
    /\ orphans' = orphans \cup {GrantOf(requests[s])}
    /\ Ends(s)
    /\ lost' = lost \cup RewardFor(GrantOf(requests[s]))
    /\ UNCHANGED <<week, tables, ledgerVars, payments>>

LateGrant(message) ==
    /\ message \in orphans
    /\ Executes(message)
    /\ orphans' = orphans \ {message}
    /\ UNCHANGED <<week, tables, requests, lost>>

\* The admin pays a row that is not marked as paid, under its grant id.
ManualGrant(row) ==
    /\ row \in submissions /\ row.status = "approved"
    /\ Ledger!Grant(Issuer, row.wallet, XGrantId(row), XAmount[row.task])
    /\ UNCHANGED <<week, tables, requests, orphans, historyVars>>

----------------------------------------------------------------------------
(* Referrals *)

\* The friend's row is found or the unique index on the friend refuses.
RegisterReferral(referrer, friend) ==
    /\ referrer # friend
    /\ referrals[friend] = Nobody
    /\ referrals' = [referrals EXCEPT ![friend] = referrer]
    /\ UNCHANGED <<week, submissions, referral_rewards, requests, orphans, ledgerVars, historyVars>>

SyncReferralActivity_Bug(s, friend) ==
    /\ Begin(s, [kind |-> "ref", referrer |-> referrals[friend], friend |-> friend,
                 week |-> week, step |-> "cap"])
    /\ UNCHANGED <<week, tables, orphans, ledgerVars, historyVars>>

\* syncReferralActivity for a friend with at least five bets.
SyncReferralActivity(s, friend) ==
    /\ referrals[friend] # Nobody
    /\ Begin(s, [kind |-> "ref", referrer |-> referrals[friend], friend |-> friend,
                 week |-> week, step |-> "cap"])
    /\ UNCHANGED <<week, tables, orphans, ledgerVars, historyVars>>

WeeklyPaid(referrer, w) ==
    Cardinality({row \in referral_rewards : row.referrer = referrer /\ row.week = w})

WeeklyCapAllows_Bug(r) == WeeklyPaid(r.referrer, r.week) <= WeeklyCap

WeeklyCapAllows(r) == WeeklyPaid(r.referrer, r.week) < WeeklyCap

\* grantReferralMilestone up to the grant.
CheckMilestone(s) ==
    /\ At(s, "cap")
    /\ ~\E row \in referral_rewards : ReferralGrantId(row) = ReferralGrantId(requests[s])
    /\ WeeklyCapAllows(requests[s])
    /\ GoOn(s, "grant")
    /\ UNCHANGED <<week, tables, orphans, ledgerVars, historyVars>>

RecordReferralReward(s) ==
    LET r == requests[s]
    IN  /\ At(s, "record") /\ r.kind = "ref"
        /\ referral_rewards' = referral_rewards \cup
              {[referrer |-> r.referrer, friend |-> r.friend, week |-> r.week]}
        /\ Ends(s)
        /\ UNCHANGED <<week, submissions, referrals, orphans, ledgerVars, historyVars>>

----------------------------------------------------------------------------
NextWeek ==
    /\ week + 1 \in Weeks
    /\ week' = week + 1
    /\ UNCHANGED <<tables, requests, orphans, ledgerVars, historyVars>>

TaskStep ==
    \/ \E s \in Slots :
          \/ \E w \in Wallets, t \in Tasks, p \in Posts, a \in XAccounts \cup {NoXAccount} :
                SubmitXTask(s, w, t, p, a)
          \/ EnsureXAccountCanSubmit(s) \/ FindExisting(s) \/ VerifyTask(s)
          \/ SaveSubmission(s) \/ MarkPaid(s)
    \/ \E row \in submissions : ManualGrant(row)

ReferralStep ==
    \/ \E referrer, friend \in Wallets : RegisterReferral(referrer, friend)
    \/ \E s \in Slots :
          \/ \E friend \in Wallets : SyncReferralActivity(s, friend)
          \/ CheckMilestone(s) \/ RecordReferralReward(s)

GrantStep ==
    \/ \E s \in Slots : GrantLedgerFreebet(s) \/ GrantTimesOut(s) \/ Abandon(s)
    \/ \E message \in orphans : LateGrant(message)

Next == TaskStep \/ ReferralStep \/ GrantStep \/ NextWeek

Spec == Init /\ [][Next]_vars

----------------------------------------------------------------------------
(* Properties *)

Granted(id) == grants[id] # NoGrant

(* What the ledger paid for X tasks was saved before, and no two of these  *)
(* payments went to one X account for one task in the same week or for the *)
(* same post, however many wallets and requests claim it at once and       *)
(* whatever is lost, late or paid again by hand.                           *)
OneRewardPerXAccount ==
    /\ \A w \in Wallets, t \in Tasks, k \in Weeks :
          Granted(<<"x", k, w, t>>) =>
              \E row \in submissions : row.wallet = w /\ row.task = t /\ row.week = k
    /\ \A r, q \in submissions :
          r # q /\ Granted(XGrantId(r)) /\ Granted(XGrantId(q))
              /\ r.account = q.account /\ r.task = q.task
                  => r.week # q.week /\ r.post # q.post

(* What the tables call paid is in the ledger, for that wallet and amount: *)
(* a row never claims a payment that was lost, refused or went elsewhere.  *)
(* And a friend paid off for no other referrer than the table's, also when *)
(* another link was opened while a grant was on its way.                   *)
PaidIsCredited ==
    /\ \A row \in submissions :
          row.status = "paid" =>
              grants[XGrantId(row)] = [recipient |-> row.wallet, amount |-> XAmount[row.task]]
    /\ \A row \in referral_rewards :
          grants[ReferralGrantId(row)] = [recipient |-> row.referrer, amount |-> ReferralAmount]
    /\ \A referrer, friend \in Wallets :
          Granted(<<"ref", referrer, friend>>) => referrals[friend] = referrer

(* The weekly cap counts the rows saved after the grants, so the ledger    *)
(* may pay a referrer for more friends than the cap.  But a week's         *)
(* payments exceed it only by the requests that run at once, and by one    *)
(* for each payment whose handler ended, or stopped waiting, before its    *)
(* row was saved: these the cap never counts.                              *)
ReferralCapHolds ==
    \A referrer \in Wallets, w \in Weeks :
        LET OfTheWeek(rewards) == {p \in rewards : p.referrer = referrer /\ p.week = w}
        IN  Cardinality(OfTheWeek(payments))
                < WeeklyCap + Cardinality(Slots) + Cardinality(OfTheWeek(payments \cap lost))
=============================================================================
