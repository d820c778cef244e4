--------------------------- MODULE RewardsProofs ---------------------------
(***************************************************************************)
(* Proofs about the rewards backend: who is paid, for what was saved, and  *)
(* by how much the weekly cap of referrals can be missed.                  *)
(***************************************************************************)
EXTENDS Rewards, FiniteSetTheorems, TLAPS

(* What a grant id stands for: the credit paid under it, and the row or    *)
(* the referral that was saved before the grant could be sent.             *)
CreditOf(id) ==
    IF id[1] = "x" THEN [recipient |-> id[3], amount |-> XAmount[id[4]]]
    ELSE [recipient |-> id[2], amount |-> ReferralAmount]

Backed(id) ==
    IF id[1] = "x"
    THEN \E row \in submissions : XGrantId(row) = id
    ELSE referrals[id[3]] = id[2]

IdOf(s) == GrantOf(requests[s]).id

----------------------------------------------------------------------------
(* The parts of the inductive invariant                                    *)

\* From the recheck on, the X account of a request is the one X confirmed.
AuthorsAreKnown ==
    \A s \in Slots :
        requests[s] # NoRequest /\ requests[s].step \in {"recheck", "save", "grant", "record"}
            /\ requests[s].kind = "x" => requests[s].account \in XAccounts

\* What the unique indexes of reward_submission keep.
RowsAreUnique ==
    \A r, q \in submissions : r # q =>
        /\ ~SameWalletTaskWeek(r, q)
        /\ r.account = q.account /\ r.task = q.task => r.week # q.week /\ r.post # q.post

\* The referral of a request is the table's, to the end.
RequestsKeepReferrals ==
    \A s \in Slots :
        requests[s] # NoRequest /\ requests[s].kind = "ref"
            => referrals[requests[s].friend] = requests[s].referrer

\* A grant is sent for what is saved, and heard of when it is in the ledger.
RequestsAreBacked ==
    \A s \in Slots :
        /\ At(s, "grant") \/ At(s, "record") => Backed(IdOf(s))
        /\ At(s, "record") => grants[IdOf(s)] = CreditOf(IdOf(s))

MessagesAreBacked ==
    \A m \in orphans :
        Backed(m.id) /\ [recipient |-> m.to, amount |-> m.amount] = CreditOf(m.id)

GrantsAreBacked ==
    \A id \in GrantIds : Granted(id) => Backed(id) /\ grants[id] = CreditOf(id)

TablesAreCredited ==
    /\ \A row \in submissions :
          row.status = "paid" => grants[XGrantId(row)] = CreditOf(XGrantId(row))
    /\ \A row \in referral_rewards :
          grants[ReferralGrantId(row)] = CreditOf(ReferralGrantId(row))

\* The requests that may still add to what a referrer was paid in a week.
PastTheCheck(referrer, w) ==
    {s \in Slots :
        /\ At(s, "grant") \/ At(s, "record")
        /\ requests[s].kind = "ref"
        /\ requests[s].referrer = referrer /\ requests[s].week = w}

CapWithRequests ==
    /\ IsFiniteSet(referral_rewards)
    /\ \A referrer \in Wallets, w \in Weeks :
          WeeklyPaid(referrer, w) + Cardinality(PastTheCheck(referrer, w))
              <= WeeklyCap - 1 + Cardinality(Slots)

\* A payment is in the table, or its handler is about to save it, or it is
\* lost; and a grant nobody waits for is lost from the start.
PaymentsAreAccounted ==
    /\ IsFiniteSet(lost)
    /\ \A m \in orphans : RewardFor(m) \subseteq lost
    /\ \A p \in payments :
          \/ p \in referral_rewards \cup lost
          \/ \E s \in Slots : At(s, "record") /\ p \in RewardFor(GrantOf(requests[s]))

RewardsIInv ==
    /\ RewardsTypeOK /\ AuthorsAreKnown /\ RowsAreUnique /\ RequestsKeepReferrals
    /\ RequestsAreBacked /\ MessagesAreBacked /\ GrantsAreBacked /\ TablesAreCredited
    /\ CapWithRequests /\ PaymentsAreAccounted

----------------------------------------------------------------------------
(* Facts about ids, grants and requests                                    *)

(* The ids of the two kinds of grants are never the same.                  *)
LEMMA XIds ==
    ASSUME NEW k \in Weeks, NEW w \in Wallets, NEW t \in Tasks
    PROVE  /\ <<"x", k, w, t>> \in GrantIds
           /\ CreditOf(<<"x", k, w, t>>) = [recipient |-> w, amount |-> XAmount[t]]
           /\ XAmount[t] \in 1..3
  BY DEF GrantIds, CreditOf, XAmount

LEMMA ReferralIds ==
    ASSUME NEW r \in Wallets, NEW f \in Wallets
    PROVE  /\ <<"ref", r, f>> \in GrantIds
           /\ CreditOf(<<"ref", r, f>>) = [recipient |-> r, amount |-> ReferralAmount]
           /\ ReferralAmount \in 1..3
  BY DEF GrantIds, CreditOf, ReferralAmount

(* The grant a request sends, by the two kinds of requests.                *)
LEMMA RequestGrants ==
    ASSUME NEW r \in XRequests \cup ReferralRequests
    PROVE  /\ GrantOf(r) \in Messages
           /\ [recipient |-> GrantOf(r).to, amount |-> GrantOf(r).amount] = CreditOf(GrantOf(r).id)
<1>1. CASE r \in XRequests
  <2>1. GrantOf(r) = [id |-> <<"x", r.week, r.wallet, r.task>>, to |-> r.wallet,
                   amount |-> XAmount[r.task], week |-> r.week]
    BY <1>1 DEF GrantOf, XRequests, XGrantId
  <2>2. r.week \in Weeks /\ r.wallet \in Wallets /\ r.task \in Tasks
    BY <1>1 DEF XRequests
  <2> QED BY <2>1, <2>2, XIds DEF Messages
<1>2. CASE r \in ReferralRequests
  <2>1. GrantOf(r) = [id |-> <<"ref", r.referrer, r.friend>>, to |-> r.referrer,
                   amount |-> ReferralAmount, week |-> r.week]
    BY <1>2 DEF GrantOf, ReferralRequests, ReferralGrantId
  <2>2. r.referrer \in Wallets /\ r.friend \in Wallets /\ r.week \in Weeks
    BY <1>2 DEF ReferralRequests
  <2> QED BY <2>1, <2>2, ReferralIds DEF Messages
<1> QED BY <1>1, <1>2

(* The row a grant is for: none for a task, one for a referral.            *)
LEMMA RewardForTypes ==
    ASSUME NEW m \in Messages
    PROVE  RewardFor(m) \subseteq RewardRows /\ IsFiniteSet(RewardFor(m))
<1>1. CASE m.id[1] = "x"
  BY <1>1, FS_EmptySet DEF RewardFor
<1>2. CASE m.id[1] # "x"
  <2>1. m.id \in {"ref"} \X Wallets \X Wallets /\ m.to \in Wallets /\ m.week \in Weeks
    <3>1. m.id \in GrantIds /\ m.to \in Wallets /\ m.week \in Weeks
      BY DEF Messages
    <3>2. m.id \notin {"x"} \X Weeks \X Wallets \X Tasks
      BY <1>2
    <3> QED BY <3>1, <3>2 DEF GrantIds
  <2>2. m.id[3] \in Wallets
    BY <2>1
  <2>3. RewardFor(m) = {[referrer |-> m.to, friend |-> m.id[3], week |-> m.week]}
    BY <1>2 DEF RewardFor
  <2>4. [referrer |-> m.to, friend |-> m.id[3], week |-> m.week] \in RewardRows
    BY <2>1, <2>2 DEF RewardRows
  <2> QED BY <2>3, <2>4, FS_Singleton
<1> QED BY <1>1, <1>2

LEMMA RewardOfRequest ==
    ASSUME NEW r \in XRequests \cup ReferralRequests
    PROVE  RewardFor(GrantOf(r)) =
              IF r.kind = "ref" THEN {[referrer |-> r.referrer, friend |-> r.friend, week |-> r.week]}
              ELSE {}
  BY DEF RewardFor, GrantOf, XGrantId, ReferralGrantId, XRequests, ReferralRequests

(* What an executed grant does to the ledger.                              *)
LEMMA GrantEffect ==
    ASSUME NEW to, NEW id, NEW amount, Ledger!Grant(Issuer, to, id, amount)
    PROVE  /\ grants[id] = NoGrant
           /\ grants' = [grants EXCEPT ![id] = [recipient |-> to, amount |-> amount]]
           /\ balances' = [balances EXCEPT ![to] = @ + amount]
           /\ available' = available + amount
  BY DEF Ledger!Grant

LEMMA GrantKeepsLedgerTypes ==
    ASSUME RewardsTypeOK, NEW to \in Wallets, NEW id \in GrantIds, NEW amount \in 1..3,
           Ledger!Grant(Issuer, to, id, amount)
    PROVE  /\ grants' \in [GrantIds -> [recipient : Wallets, amount : 1..3] \cup {NoGrant}]
           /\ balances' \in [Wallets -> Nat] /\ available' \in Nat
<1>1. grants' \in [GrantIds -> [recipient : Wallets, amount : 1..3] \cup {NoGrant}]
  BY GrantEffect DEF RewardsTypeOK
<1>2. balances' \in [Wallets -> Nat]
  BY GrantEffect DEF RewardsTypeOK
<1>3. available' \in Nat
  BY GrantEffect DEF RewardsTypeOK
<1> QED BY <1>1, <1>2, <1>3

AllRequests == XRequests \cup ReferralRequests \cup {NoRequest}

(* The requests stay what they are when one of them goes on.               *)
LEMMA GoOnKeepsRequests ==
    ASSUME NEW s \in Slots, requests \in [Slots -> AllRequests], NEW step,
           \/ /\ requests[s] \in XRequests
              /\ step \in {"wallet", "recheck", "save", "grant", "record"}
           \/ requests[s] \in ReferralRequests /\ step \in {"grant", "record"},
           GoOn(s, step)
    PROVE  requests' \in [Slots -> AllRequests]
<1>1. [requests[s] EXCEPT !.step = step] \in AllRequests
  <2>1. CASE requests[s] \in XRequests /\ step \in {"wallet", "recheck", "save", "grant", "record"}
    BY <2>1 DEF XRequests, AllRequests
  <2>2. CASE requests[s] \in ReferralRequests /\ step \in {"grant", "record"}
    BY <2>2 DEF ReferralRequests, AllRequests
  <2> QED BY <2>1, <2>2
<1>2. requests' = [requests EXCEPT ![s] = [requests[s] EXCEPT !.step = step]]
  BY DEF GoOn
<1> QED BY <1>1, <1>2

----------------------------------------------------------------------------
(* Types and confirmed accounts                                            *)

TypesAndAuthors == RewardsTypeOK /\ AuthorsAreKnown

LEMMA TypesInit == Init => TypesAndAuthors
  BY RewardsAssumption DEF Init, TypesAndAuthors, RewardsTypeOK, AuthorsAreKnown

(* A step that leaves the ledger alone and moves one request within its    *)
(* kinds keeps the types; so does one that ends a request.                 *)
LEMMA OneRequestMoves ==
    ASSUME TypesAndAuthors, NEW s \in Slots, NEW r \in AllRequests,
           requests' = [requests EXCEPT ![s] = r],
           r # NoRequest /\ r.kind = "x" /\ r.step \in {"recheck", "save", "grant", "record"}
               => r.account \in XAccounts
    PROVE  /\ requests' \in [Slots -> XRequests \cup ReferralRequests \cup {NoRequest}]
           /\ AuthorsAreKnown'
<1>1. requests \in [Slots -> AllRequests]
  BY DEF TypesAndAuthors, RewardsTypeOK, AllRequests
<1>2. requests' \in [Slots -> AllRequests]
  BY <1>1
<1>3. ASSUME NEW t \in Slots,
             requests'[t] # NoRequest,
             requests'[t].step \in {"recheck", "save", "grant", "record"},
             requests'[t].kind = "x"
      PROVE  requests'[t].account \in XAccounts
  <2>1. CASE t = s
    BY <1>1, <1>3, <2>1
  <2>2. CASE t # s
    BY <1>1, <1>3, <2>2 DEF TypesAndAuthors, AuthorsAreKnown
  <2> QED BY <2>1, <2>2
<1> QED BY <1>2, <1>3 DEF AuthorsAreKnown, AllRequests

LEMMA TypesStep == TypesAndAuthors /\ [Next]_vars => TypesAndAuthors'
<1> SUFFICES ASSUME TypesAndAuthors, [Next]_vars PROVE TypesAndAuthors'
  OBVIOUS
<1> USE DEF tables, ledgerVars, historyVars
<1>0. requests \in [Slots -> AllRequests] /\ NoRequest \in AllRequests
  BY DEF TypesAndAuthors, RewardsTypeOK, AllRequests
<1>1. ASSUME NEW s \in Slots, NEW w \in Wallets, NEW t \in Tasks, NEW p \in Posts,
             NEW a \in XAccounts \cup {NoXAccount}, SubmitXTask(s, w, t, p, a)
      PROVE  TypesAndAuthors'
  <2> DEFINE r == [kind |-> "x", wallet |-> w, task |-> t, week |-> week, account |-> a,
                   post |-> p, step |-> IF a = NoXAccount THEN "wallet" ELSE "account"]
  <2>1. r \in XRequests /\ r.step \notin {"recheck", "save", "grant", "record"}
    BY DEF TypesAndAuthors, RewardsTypeOK, XRequests
  <2>2. requests' = [requests EXCEPT ![s] = r]
    BY <1>1 DEF SubmitXTask, Begin
  <2> HIDE DEF r
  <2>3. /\ requests' \in [Slots -> XRequests \cup ReferralRequests \cup {NoRequest}]
        /\ AuthorsAreKnown'
    BY <2>1, <2>2, OneRequestMoves DEF AllRequests
  <2> QED BY <1>1, <2>3 DEF SubmitXTask, TypesAndAuthors, RewardsTypeOK
<1>2. ASSUME NEW s \in Slots, NEW step,
             GoOn(s, step),
             \/ /\ requests[s] \in XRequests
                /\ \/ step = "wallet"
                   \/ step = "fetch"
                   \/ step \in {"save", "grant", "record"} /\ requests[s].account \in XAccounts
             \/ requests[s] \in ReferralRequests /\ step \in {"grant", "record"}
      PROVE  /\ requests' \in [Slots -> XRequests \cup ReferralRequests \cup {NoRequest}]
             /\ AuthorsAreKnown'
  <2> DEFINE r == [requests[s] EXCEPT !.step = step]
  <2>1. r \in AllRequests
    BY <1>2 DEF AllRequests, XRequests, ReferralRequests
  <2>2. r.kind = "x" /\ r.step \in {"recheck", "save", "grant", "record"} => r.account \in XAccounts
    BY <1>2 DEF XRequests, ReferralRequests
  <2>3. requests' = [requests EXCEPT ![s] = r]
    BY <1>2 DEF GoOn
  <2> HIDE DEF r
  <2> QED BY <2>1, <2>2, <2>3, OneRequestMoves
<1>3. ASSUME NEW s \in Slots, Ends(s)
      PROVE  /\ requests' \in [Slots -> XRequests \cup ReferralRequests \cup {NoRequest}]
             /\ AuthorsAreKnown'
  BY <1>0, <1>3, OneRequestMoves DEF Ends
<1>4. ASSUME NEW s \in Slots, EnsureXAccountCanSubmit(s) PROVE TypesAndAuthors'
  <2>1. CASE At(s, "account") /\ GoOn(s, "wallet")
    <3>1. requests[s] \in XRequests
      BY <1>0, <2>1 DEF At, AllRequests, ReferralRequests
    <3> QED BY <1>2, <1>4, <2>1, <3>1 DEF EnsureXAccountCanSubmit, TypesAndAuthors, RewardsTypeOK
  <2>2. CASE At(s, "recheck") /\ GoOn(s, "save")
    <3>1. requests[s] \in XRequests
      BY <1>0, <2>2 DEF At, AllRequests, ReferralRequests
    <3>2. requests[s].account \in XAccounts
      BY <2>2, <3>1 DEF At, TypesAndAuthors, AuthorsAreKnown, XRequests
    <3> QED BY <1>2, <1>4, <2>2, <3>1, <3>2 DEF EnsureXAccountCanSubmit, TypesAndAuthors, RewardsTypeOK
  <2> QED BY <1>4, <2>1, <2>2 DEF EnsureXAccountCanSubmit
<1>5. ASSUME NEW s \in Slots, FindExisting(s) PROVE TypesAndAuthors'
  <2>1. requests[s] \in XRequests
    BY <1>0, <1>5 DEF FindExisting, At, AllRequests, ReferralRequests
  <2> QED BY <1>2, <1>5, <2>1 DEF FindExisting, TypesAndAuthors, RewardsTypeOK
<1>6. ASSUME NEW s \in Slots, VerifyTask(s) PROVE TypesAndAuthors'
  <2>1. requests[s] \in XRequests
    BY <1>0, <1>6 DEF VerifyTask, At, AllRequests, ReferralRequests
  <2>2. PICK a \in AuthorsOf[requests[s].post] :
          requests' = [requests EXCEPT
                ![s].account = a,
                ![s].step = IF requests[s].account = a THEN "save" ELSE "recheck"]
    BY <1>6 DEF VerifyTask
  <2>3. a \in XAccounts
    BY <2>1, RewardsAssumption DEF XRequests
  <2>4. PICK step \in {"save", "recheck"} :
          requests' = [requests EXCEPT ![s] = [requests[s] EXCEPT !.account = a, !.step = step]]
    BY <1>0, <2>2
  <2> DEFINE r == [requests[s] EXCEPT !.account = a, !.step = step]
  <2>5. r \in AllRequests /\ r.account \in XAccounts
    BY <2>1, <2>3 DEF XRequests, AllRequests
  <2>6. requests' = [requests EXCEPT ![s] = r]
    BY <2>4
  <2> HIDE DEF r
  <2>7. /\ requests' \in [Slots -> XRequests \cup ReferralRequests \cup {NoRequest}]
        /\ AuthorsAreKnown'
    BY <2>5, <2>6, OneRequestMoves
  <2> QED BY <1>6, <2>7 DEF VerifyTask, TypesAndAuthors, RewardsTypeOK
<1>7. ASSUME NEW s \in Slots, SaveSubmission(s) PROVE TypesAndAuthors'
  <2>1. requests[s] \in XRequests
    BY <1>0, <1>7 DEF SaveSubmission, At, AllRequests, ReferralRequests
  <2>2. requests[s].account \in XAccounts
    BY <1>7, <2>1 DEF SaveSubmission, At, TypesAndAuthors, AuthorsAreKnown, XRequests
  <2>3. RowOf(requests[s], "approved") \in Rows
    BY <2>1, <2>2 DEF RowOf, Rows, XRequests
  <2>4. submissions' \subseteq Rows
    BY <1>7, <2>3 DEF SaveSubmission, TypesAndAuthors, RewardsTypeOK
  <2> QED BY <1>2, <1>7, <2>1, <2>2, <2>4 DEF SaveSubmission, TypesAndAuthors, RewardsTypeOK
<1>8. ASSUME NEW s \in Slots, MarkPaid(s) PROVE TypesAndAuthors'
  <2>1. \A row \in submissions : row \in Rows /\ [row EXCEPT !.status = "paid"] \in Rows
    BY DEF TypesAndAuthors, RewardsTypeOK, Rows
  <2>2. submissions' \subseteq Rows
    BY <1>8, <2>1 DEF MarkPaid
  <2> QED BY <1>3, <1>8, <2>2 DEF MarkPaid, TypesAndAuthors, RewardsTypeOK
<1>9. ASSUME NEW row \in submissions, ManualGrant(row) PROVE TypesAndAuthors'
  <2>1. row.week \in Weeks /\ row.wallet \in Wallets /\ row.task \in Tasks
    BY DEF TypesAndAuthors, RewardsTypeOK, Rows
  <2>2. XGrantId(row) \in GrantIds /\ XAmount[row.task] \in 1..3
    BY <2>1, XIds DEF XGrantId
  <2>3. Ledger!Grant(Issuer, row.wallet, XGrantId(row), XAmount[row.task])
    BY <1>9 DEF ManualGrant
  <2>4. /\ grants' \in [GrantIds -> [recipient : Wallets, amount : 1..3] \cup {NoGrant}]
        /\ balances' \in [Wallets -> Nat] /\ available' \in Nat
    BY <2>1, <2>2, <2>3, GrantKeepsLedgerTypes DEF TypesAndAuthors
  <2> QED BY <1>9, <2>4 DEF ManualGrant, TypesAndAuthors, RewardsTypeOK, AuthorsAreKnown
<1>10. ASSUME NEW referrer \in Wallets, NEW friend \in Wallets, RegisterReferral(referrer, friend)
       PROVE  TypesAndAuthors'
  BY <1>10 DEF RegisterReferral, TypesAndAuthors, RewardsTypeOK, AuthorsAreKnown
<1>11. ASSUME NEW s \in Slots, NEW friend \in Wallets, SyncReferralActivity(s, friend)
       PROVE  TypesAndAuthors'
  <2> DEFINE r == [kind |-> "ref", referrer |-> referrals[friend], friend |-> friend,
                   week |-> week, step |-> "cap"]
  <2>1. r \in ReferralRequests /\ r.kind = "ref"
    BY <1>11 DEF SyncReferralActivity, TypesAndAuthors, RewardsTypeOK, ReferralRequests
  <2>2. requests' = [requests EXCEPT ![s] = r]
    BY <1>11 DEF SyncReferralActivity, Begin
  <2> HIDE DEF r
  <2>3. /\ requests' \in [Slots -> XRequests \cup ReferralRequests \cup {NoRequest}]
        /\ AuthorsAreKnown'
    BY <2>1, <2>2, OneRequestMoves DEF AllRequests
  <2> QED BY <1>11, <2>3 DEF SyncReferralActivity, TypesAndAuthors, RewardsTypeOK
<1>12. ASSUME NEW s \in Slots, CheckMilestone(s) PROVE TypesAndAuthors'
  <2>1. requests[s] \in ReferralRequests
    BY <1>0, <1>12 DEF CheckMilestone, At, AllRequests, XRequests
  <2> QED BY <1>2, <1>12, <2>1 DEF CheckMilestone, TypesAndAuthors, RewardsTypeOK
<1>13. ASSUME NEW s \in Slots, RecordReferralReward(s) PROVE TypesAndAuthors'
  <2>1. requests[s] \in ReferralRequests
    BY <1>0, <1>13 DEF RecordReferralReward, At, AllRequests, XRequests
  <2>2. [referrer |-> requests[s].referrer, friend |-> requests[s].friend,
         week |-> requests[s].week] \in RewardRows
    BY <2>1 DEF ReferralRequests, RewardRows
  <2>3. referral_rewards' \subseteq RewardRows
    BY <1>13, <2>2 DEF RecordReferralReward, TypesAndAuthors, RewardsTypeOK
  <2> QED BY <1>3, <1>13, <2>3 DEF RecordReferralReward, TypesAndAuthors, RewardsTypeOK
<1>14. ASSUME NEW s \in Slots, GrantLedgerFreebet(s) PROVE TypesAndAuthors'
  <2>1. requests[s] \in XRequests \cup ReferralRequests
    BY <1>0, <1>14 DEF GrantLedgerFreebet, At, AllRequests
  <2>2. GrantOf(requests[s]) \in Messages
    BY <2>1, RequestGrants
  <2>3. /\ grants' \in [GrantIds -> [recipient : Wallets, amount : 1..3] \cup {NoGrant}]
        /\ balances' \in [Wallets -> Nat] /\ available' \in Nat
    BY <1>14, <2>2, GrantKeepsLedgerTypes
       DEF GrantLedgerFreebet, Executes, Messages, TypesAndAuthors
  <2>4. requests[s] \in XRequests => requests[s].account \in XAccounts
    BY <1>14 DEF GrantLedgerFreebet, At, TypesAndAuthors, AuthorsAreKnown, XRequests
  <2>5. GoOn(s, "record")
    BY <1>14 DEF GrantLedgerFreebet
  <2>6. /\ requests' \in [Slots -> XRequests \cup ReferralRequests \cup {NoRequest}]
        /\ AuthorsAreKnown'
    BY <1>2, <2>1, <2>4, <2>5
  <2>7. payments' \subseteq RewardRows
    BY <1>14, <2>2, RewardForTypes
       DEF GrantLedgerFreebet, Executes, TypesAndAuthors, RewardsTypeOK
  <2> QED BY <1>14, <2>3, <2>6, <2>7 DEF GrantLedgerFreebet, TypesAndAuthors, RewardsTypeOK
<1>15. ASSUME NEW s \in Slots, GrantTimesOut(s) PROVE TypesAndAuthors'
  <2>1. requests[s] \in XRequests \cup ReferralRequests
    BY <1>0, <1>15 DEF GrantTimesOut, At, AllRequests
  <2>2. orphans' \subseteq Messages
    BY <1>15, <2>1, RequestGrants DEF GrantTimesOut, TypesAndAuthors, RewardsTypeOK
  <2>3. lost' \subseteq RewardRows
    BY <1>15, <2>1, RequestGrants, RewardForTypes
       DEF GrantTimesOut, TypesAndAuthors, RewardsTypeOK
  <2> QED BY <1>3, <1>15, <2>2, <2>3 DEF GrantTimesOut, TypesAndAuthors, RewardsTypeOK
<1>16. ASSUME NEW s \in Slots, Abandon(s) PROVE TypesAndAuthors'
  <2>1. requests[s] \in XRequests \cup ReferralRequests
    BY <1>0, <1>16 DEF Abandon, AllRequests
  <2>2. lost' \subseteq RewardRows
    BY <1>16, <2>1, RequestGrants, RewardForTypes
       DEF Abandon, TypesAndAuthors, RewardsTypeOK
  <2> QED BY <1>3, <1>16, <2>2 DEF Abandon, TypesAndAuthors, RewardsTypeOK
<1>17. ASSUME NEW message \in orphans, LateGrant(message) PROVE TypesAndAuthors'
  <2>1. message \in Messages
    BY DEF TypesAndAuthors, RewardsTypeOK
  <2>2. /\ grants' \in [GrantIds -> [recipient : Wallets, amount : 1..3] \cup {NoGrant}]
        /\ balances' \in [Wallets -> Nat] /\ available' \in Nat
    BY <1>17, <2>1, GrantKeepsLedgerTypes DEF LateGrant, Executes, Messages, TypesAndAuthors
  <2>3. payments' \subseteq RewardRows
    BY <1>17, <2>1, RewardForTypes DEF LateGrant, Executes, TypesAndAuthors, RewardsTypeOK
  <2> QED BY <1>17, <2>2, <2>3 DEF LateGrant, TypesAndAuthors, RewardsTypeOK, AuthorsAreKnown
<1>18. CASE NextWeek
  BY <1>18 DEF NextWeek, TypesAndAuthors, RewardsTypeOK, AuthorsAreKnown
<1>19. CASE UNCHANGED vars
  BY <1>19 DEF vars, TypesAndAuthors, RewardsTypeOK, AuthorsAreKnown
<1>20. CASE TaskStep
  BY <1>1, <1>4, <1>5, <1>6, <1>7, <1>8, <1>9, <1>20 DEF TaskStep
<1>21. CASE ReferralStep
  BY <1>10, <1>11, <1>12, <1>13, <1>21 DEF ReferralStep
<1>22. CASE GrantStep
  BY <1>14, <1>15, <1>16, <1>17, <1>22 DEF GrantStep
<1> QED BY <1>18, <1>19, <1>20, <1>21, <1>22 DEF Next

----------------------------------------------------------------------------
(* The rows of reward_submission                                           *)

(* Only a save and a payment change the rows.                              *)
LEMMA RowsChange ==
    ASSUME [Next]_vars
    PROVE  \/ submissions' = submissions
           \/ \E s \in Slots : SaveSubmission(s) \/ MarkPaid(s)
  BY DEF Next, TaskStep, ReferralStep, GrantStep, vars, tables, SubmitXTask,
         EnsureXAccountCanSubmit, FindExisting, VerifyTask, ManualGrant, RegisterReferral,
         SyncReferralActivity, CheckMilestone, RecordReferralReward, GrantLedgerFreebet,
         GrantTimesOut, Abandon, LateGrant, NextWeek

LEMMA SavedRow ==
    ASSUME TypesAndAuthors, NEW s \in Slots, At(s, "save")
    PROVE  /\ requests[s] \in XRequests /\ requests[s].account \in XAccounts
           /\ RowOf(requests[s], "approved") \in Rows
<1>1. requests[s] \in XRequests
  BY DEF At, TypesAndAuthors, RewardsTypeOK, ReferralRequests
<1>2. requests[s].account \in XAccounts
  BY <1>1 DEF At, TypesAndAuthors, AuthorsAreKnown, XRequests
<1> QED BY <1>1, <1>2 DEF RowOf, Rows, XRequests

(* Paying a row changes nothing but its status.                            *)
PaidRow(row) == [row EXCEPT !.status = "paid"]

LEMMA PaidRowKeeps ==
    ASSUME NEW row \in Rows
    PROVE  /\ PaidRow(row).wallet = row.wallet /\ PaidRow(row).task = row.task
           /\ PaidRow(row).week = row.week /\ PaidRow(row).account = row.account
           /\ PaidRow(row).post = row.post /\ PaidRow(row).status = "paid"
           /\ XGrantId(PaidRow(row)) = XGrantId(row)
  BY DEF Rows, PaidRow, XGrantId

LEMMA MarkedRows ==
    ASSUME TypesAndAuthors, NEW s \in Slots, MarkPaid(s), NEW r \in submissions'
    PROVE  \E row \in submissions :
              /\ r.wallet = row.wallet /\ r.task = row.task /\ r.week = row.week
              /\ r.account = row.account /\ r.post = row.post
              /\ r = IF SameWalletTaskWeek(row, requests[s]) THEN PaidRow(row) ELSE row
<1>1. PICK row \in submissions :
         r = IF SameWalletTaskWeek(row, requests[s]) THEN PaidRow(row) ELSE row
  BY DEF MarkPaid, PaidRow
<1>2. row \in Rows
  BY DEF TypesAndAuthors, RewardsTypeOK
<1> QED BY <1>1, <1>2, PaidRowKeeps

LEMMA RowsAreUniqueStep ==
    ASSUME TypesAndAuthors, RowsAreUnique, [Next]_vars
    PROVE  RowsAreUnique'
<1>1. CASE submissions' = submissions
  BY <1>1 DEF RowsAreUnique, SameWalletTaskWeek
<1>2. ASSUME NEW s \in Slots, SaveSubmission(s) PROVE RowsAreUnique'
  <2> DEFINE new == RowOf(requests[s], "approved")
  <2>1. At(s, "save") /\ submissions' = submissions \cup {new}
    BY <1>2 DEF SaveSubmission
  <2>2. /\ new.wallet = requests[s].wallet /\ new.task = requests[s].task
        /\ new.week = requests[s].week /\ new.account = requests[s].account
        /\ new.post = requests[s].post
    BY DEF RowOf
  <2> HIDE DEF new
  <2>3. \A row \in submissions :
            /\ ~SameWalletTaskWeek(row, new)
            /\ row.account = new.account /\ row.task = new.task
                  => row.week # new.week /\ row.post # new.post
    BY <1>2, <2>2 DEF SaveSubmission, UniqueIndexesAllow, SameWalletTaskWeek
  <2> SUFFICES ASSUME NEW r \in submissions', NEW q \in submissions', r # q
               PROVE  /\ ~SameWalletTaskWeek(r, q)
                      /\ r.account = q.account /\ r.task = q.task => r.week # q.week /\ r.post # q.post
    BY DEF RowsAreUnique, SameWalletTaskWeek
  <2>4. CASE r \in submissions /\ q \in submissions
    BY <2>4 DEF RowsAreUnique
  <2>5. CASE r \in submissions /\ q = new
    BY <2>3, <2>5
  <2>6. CASE r = new /\ q \in submissions
    BY <2>3, <2>6 DEF SameWalletTaskWeek
  <2> QED BY <2>1, <2>4, <2>5, <2>6
<1>3. ASSUME NEW s \in Slots, MarkPaid(s) PROVE RowsAreUnique'
  <2> SUFFICES ASSUME NEW r \in submissions', NEW q \in submissions', r # q
               PROVE  /\ ~SameWalletTaskWeek(r, q)
                      /\ r.account = q.account /\ r.task = q.task => r.week # q.week /\ r.post # q.post
    BY DEF RowsAreUnique, SameWalletTaskWeek
  <2>1. PICK row \in submissions :
              /\ r.wallet = row.wallet /\ r.task = row.task /\ r.week = row.week
              /\ r.account = row.account /\ r.post = row.post
              /\ r = IF SameWalletTaskWeek(row, requests[s]) THEN PaidRow(row) ELSE row
    BY <1>3, MarkedRows
  <2>2. PICK other \in submissions :
              /\ q.wallet = other.wallet /\ q.task = other.task /\ q.week = other.week
              /\ q.account = other.account /\ q.post = other.post
              /\ q = IF SameWalletTaskWeek(other, requests[s]) THEN PaidRow(other) ELSE other
    BY <1>3, MarkedRows
  <2>3. row # other
    BY <2>1, <2>2
  <2>4. /\ ~SameWalletTaskWeek(row, other)
        /\ row.account = other.account /\ row.task = other.task
              => row.week # other.week /\ row.post # other.post
    BY <2>3 DEF RowsAreUnique
  <2> QED BY <2>1, <2>2, <2>4 DEF SameWalletTaskWeek
<1> QED BY <1>1, <1>2, <1>3, RowsChange

(* A row's key never leaves the table, and a friend's referrer is for good:*)
(* what backs a grant goes on backing it.                                  *)
LEMMA BackedStays ==
    ASSUME TypesAndAuthors, [Next]_vars, NEW id \in GrantIds, Backed(id)
    PROVE  Backed(id)'
<1>1. CASE id[1] = "x"
  <2>1. PICK row \in submissions : XGrantId(row) = id
    BY <1>1 DEF Backed
  <2>2. row \in Rows
    BY DEF TypesAndAuthors, RewardsTypeOK
  <2>3. ASSUME submissions \subseteq submissions' PROVE Backed(id)'
    BY <1>1, <2>1, <2>3 DEF Backed, XGrantId
  <2>4. ASSUME NEW s \in Slots, MarkPaid(s) PROVE Backed(id)'
    <3> DEFINE new == IF SameWalletTaskWeek(row, requests[s]) THEN PaidRow(row) ELSE row
    <3>1. new \in submissions'
      BY <2>4 DEF MarkPaid, PaidRow
    <3>2. XGrantId(new) = id
      BY <2>1, <2>2, PaidRowKeeps
    <3> QED BY <1>1, <3>1, <3>2 DEF Backed, XGrantId
  <2> QED BY <2>3, <2>4, RowsChange DEF SaveSubmission
<1>2. CASE id[1] # "x"
  <2>1. referrals[id[3]] = id[2] /\ id[2] \in Wallets /\ id[3] \in Wallets
    BY <1>2 DEF Backed, GrantIds
  <2>2. CASE referrals' = referrals
    BY <1>2, <2>1, <2>2 DEF Backed
  <2>3. ASSUME NEW referrer \in Wallets, NEW friend \in Wallets, RegisterReferral(referrer, friend)
        PROVE  Backed(id)'
    <3>1. friend # id[3]
      BY <2>1, <2>3, RewardsAssumption DEF RegisterReferral
    <3>2. referrals' = [referrals EXCEPT ![friend] = referrer]
      BY <2>3 DEF RegisterReferral
    <3>3. referrals \in [Wallets -> Wallets \cup {Nobody}]
      BY DEF TypesAndAuthors, RewardsTypeOK
    <3>4. referrals'[id[3]] = referrals[id[3]]
      BY <2>1, <3>1, <3>2, <3>3
    <3> QED BY <1>2, <2>1, <3>4 DEF Backed
  <2>4. \/ referrals' = referrals
        \/ \E referrer, friend \in Wallets : RegisterReferral(referrer, friend)
    BY DEF Next, TaskStep, ReferralStep, GrantStep, vars, tables, SubmitXTask,
         EnsureXAccountCanSubmit, FindExisting, VerifyTask, SaveSubmission, MarkPaid, ManualGrant,
         SyncReferralActivity, CheckMilestone, RecordReferralReward, GrantLedgerFreebet,
         GrantTimesOut, Abandon, LateGrant, NextWeek
  <2> QED BY <2>2, <2>3, <2>4
<1> QED BY <1>1, <1>2

----------------------------------------------------------------------------
(* The ledger                                                              *)

GrantsFollowTables ==
    /\ RequestsKeepReferrals /\ RequestsAreBacked /\ MessagesAreBacked
    /\ GrantsAreBacked /\ TablesAreCredited

(* Whatever executes a grant, it is backed and credits what its id says.   *)
LEMMA GrantsChange ==
    ASSUME TypesAndAuthors, GrantsFollowTables, [Next]_vars
    PROVE  \/ grants' = grants
           \/ \E id \in GrantIds :
                 Backed(id) /\ grants' = [grants EXCEPT ![id] = CreditOf(id)]
<1>1. ASSUME NEW s \in Slots, GrantLedgerFreebet(s)
      PROVE  \E id \in GrantIds :
                 Backed(id) /\ grants' = [grants EXCEPT ![id] = CreditOf(id)]
  <2> DEFINE m == GrantOf(requests[s])
  <2>1. At(s, "grant") /\ Ledger!Grant(Issuer, m.to, m.id, m.amount)
    BY <1>1 DEF GrantLedgerFreebet, Executes
  <2>2. requests[s] \in XRequests \cup ReferralRequests
    BY <2>1 DEF At, TypesAndAuthors, RewardsTypeOK
  <2>3. m \in Messages /\ [recipient |-> m.to, amount |-> m.amount] = CreditOf(m.id)
    BY <2>2, RequestGrants
  <2>4. Backed(m.id)
    BY <2>1 DEF GrantsFollowTables, RequestsAreBacked, IdOf
  <2>5. grants' = [grants EXCEPT ![m.id] = CreditOf(m.id)]
    BY <2>1, <2>3, GrantEffect
  <2> QED BY <2>3, <2>4, <2>5 DEF Messages
<1>2. ASSUME NEW m \in orphans, LateGrant(m)
      PROVE  \E id \in GrantIds :
                 Backed(id) /\ grants' = [grants EXCEPT ![id] = CreditOf(id)]
  <2>1. m.id \in GrantIds
    BY DEF TypesAndAuthors, RewardsTypeOK, Messages
  <2>2. Backed(m.id) /\ [recipient |-> m.to, amount |-> m.amount] = CreditOf(m.id)
    BY DEF GrantsFollowTables, MessagesAreBacked
  <2>3. Ledger!Grant(Issuer, m.to, m.id, m.amount)
    BY <1>2 DEF LateGrant, Executes
  <2>4. grants' = [grants EXCEPT ![m.id] = CreditOf(m.id)]
    BY <2>2, <2>3, GrantEffect
  <2> QED BY <2>1, <2>2, <2>4
<1>3. ASSUME NEW row \in submissions, ManualGrant(row)
      PROVE  \E id \in GrantIds :
                 Backed(id) /\ grants' = [grants EXCEPT ![id] = CreditOf(id)]
  <2>1. row.week \in Weeks /\ row.wallet \in Wallets /\ row.task \in Tasks
    BY DEF TypesAndAuthors, RewardsTypeOK, Rows
  <2>2. /\ XGrantId(row) \in GrantIds
        /\ CreditOf(XGrantId(row)) = [recipient |-> row.wallet, amount |-> XAmount[row.task]]
    BY <2>1, XIds DEF XGrantId
  <2>3. Backed(XGrantId(row))
    BY DEF Backed, XGrantId
  <2>4. Ledger!Grant(Issuer, row.wallet, XGrantId(row), XAmount[row.task])
    BY <1>3 DEF ManualGrant
  <2>5. grants' = [grants EXCEPT ![XGrantId(row)] = CreditOf(XGrantId(row))]
    BY <2>2, <2>4, GrantEffect
  <2> QED BY <2>2, <2>3, <2>5
<1>4. \/ grants' = grants
      \/ \E s \in Slots : GrantLedgerFreebet(s)
      \/ \E m \in orphans : LateGrant(m)
      \/ \E row \in submissions : ManualGrant(row)
  BY DEF Next, TaskStep, ReferralStep, GrantStep, vars, ledgerVars, SubmitXTask,
         EnsureXAccountCanSubmit, FindExisting, VerifyTask, SaveSubmission, MarkPaid,
         RegisterReferral, SyncReferralActivity, CheckMilestone, RecordReferralReward,
         GrantTimesOut, Abandon, NextWeek
<1> QED BY <1>1, <1>2, <1>3, <1>4

LEMMA CreditStays ==
    ASSUME TypesAndAuthors, GrantsFollowTables, [Next]_vars, NEW id \in GrantIds,
           grants[id] = CreditOf(id)
    PROVE  grants'[id] = CreditOf(id)
<1>1. grants \in [GrantIds -> [recipient : Wallets, amount : 1..3] \cup {NoGrant}]
  BY DEF TypesAndAuthors, RewardsTypeOK
<1> QED BY <1>1, GrantsChange

LEMMA GrantsAreBackedStep ==
    ASSUME TypesAndAuthors, GrantsFollowTables, [Next]_vars
    PROVE  GrantsAreBacked'
<1> SUFFICES ASSUME NEW id \in GrantIds, grants'[id] # NoGrant
             PROVE  Backed(id)' /\ grants'[id] = CreditOf(id)
  BY DEF GrantsAreBacked, Granted
<1>1. grants \in [GrantIds -> [recipient : Wallets, amount : 1..3] \cup {NoGrant}]
  BY DEF TypesAndAuthors, RewardsTypeOK
<1>2. CASE grants'[id] = grants[id]
  <2>1. Backed(id) /\ grants[id] = CreditOf(id)
    BY <1>2 DEF GrantsFollowTables, GrantsAreBacked, Granted
  <2> QED BY <1>2, <2>1, BackedStays
<1>3. CASE grants'[id] # grants[id]
  <2>1. Backed(id) /\ grants'[id] = CreditOf(id)
    BY <1>1, <1>3, GrantsChange
  <2> QED BY <2>1, BackedStays
<1> QED BY <1>2, <1>3

(* What a request keeps while it waits: the same holds of a slot that this *)
(* step does not move.                                                     *)
RequestIsBacked(s) ==
    /\ requests[s] # NoRequest /\ requests[s].kind = "ref"
          => referrals[requests[s].friend] = requests[s].referrer
    /\ At(s, "grant") \/ At(s, "record") => Backed(IdOf(s))
    /\ At(s, "record") => grants[IdOf(s)] = CreditOf(IdOf(s))

LEMMA WaitingRequest ==
    ASSUME TypesAndAuthors, GrantsFollowTables, [Next]_vars, NEW s \in Slots,
           requests'[s] = requests[s]
    PROVE  RequestIsBacked(s)'
<1>1. requests[s] \in XRequests \cup ReferralRequests \cup {NoRequest}
  BY DEF TypesAndAuthors, RewardsTypeOK
<1>2. CASE requests[s] = NoRequest
  BY <1>2 DEF RequestIsBacked, At
<1>3. CASE requests[s] # NoRequest
  <2>1. IdOf(s) \in GrantIds
    BY <1>1, <1>3, RequestGrants DEF IdOf, Messages
  <2>2. IdOf(s)' = IdOf(s)
    BY DEF IdOf
  <2>3. (At(s, "grant") \/ At(s, "record"))' => Backed(IdOf(s))'
    <3>1. At(s, "grant") \/ At(s, "record") => Backed(IdOf(s))
      BY DEF GrantsFollowTables, RequestsAreBacked
    <3>2. PICK id \in GrantIds : id = IdOf(s)
      BY <2>1
    <3>3. Backed(id) => Backed(id)'
      BY BackedStays
    <3>4. IdOf(s)' = id
      BY <2>2, <3>2
    <3>5. Backed(id)' => Backed(IdOf(s))'
      BY <3>4 DEF Backed
    <3> QED BY <3>1, <3>2, <3>3, <3>5 DEF At
  <2>4. At(s, "record")' => grants'[IdOf(s)] = CreditOf(IdOf(s))
    BY <2>1, CreditStays DEF GrantsFollowTables, RequestsAreBacked, At
  <2>5. requests[s].kind = "ref" => referrals'[requests[s].friend] = requests[s].referrer
    <3> SUFFICES ASSUME requests[s].kind = "ref"
                 PROVE  referrals'[requests[s].friend] = requests[s].referrer
      OBVIOUS
    <3>1. requests[s] \in ReferralRequests
      BY <1>1, <1>3 DEF XRequests
    <3>2. PICK r \in Wallets, f \in Wallets : r = requests[s].referrer /\ f = requests[s].friend
      BY <3>1 DEF ReferralRequests
    <3>3. referrals[f] = r
      BY <1>3, <3>2 DEF GrantsFollowTables, RequestsKeepReferrals
    <3>4. Backed(<<"ref", r, f>>) /\ <<"ref", r, f>> \in GrantIds
      BY <3>3, ReferralIds DEF Backed
    <3>5. Backed(<<"ref", r, f>>)'
      BY <3>4, BackedStays
    <3> QED BY <3>2, <3>5 DEF Backed
  <2> QED BY <2>2, <2>3, <2>4, <2>5 DEF RequestIsBacked
<1> QED BY <1>2, <1>3

(* Which requests a step moves, and to what.                               *)
LEMMA RequestsMove ==
    ASSUME TypesAndAuthors, [Next]_vars, NEW s \in Slots, requests'[s] # requests[s],
           requests'[s] # NoRequest
    PROVE  \/ requests'[s].kind = "x" /\ requests'[s].step \notin {"grant", "record"}
           \/ /\ SaveSubmission(s)
              /\ requests'[s] = [requests[s] EXCEPT !.step = "grant"]
           \/ \E friend \in Wallets :
                 /\ SyncReferralActivity(s, friend)
                 /\ requests'[s] = [kind |-> "ref", referrer |-> referrals[friend],
                                    friend |-> friend, week |-> week, step |-> "cap"]
           \/ /\ CheckMilestone(s)
              /\ requests'[s] = [requests[s] EXCEPT !.step = "grant"]
           \/ /\ GrantLedgerFreebet(s)
              /\ requests'[s] = [requests[s] EXCEPT !.step = "record"]
<1> USE DEF AllRequests
<1>0. requests \in [Slots -> AllRequests]
  BY DEF TypesAndAuthors, RewardsTypeOK
<1>1. ASSUME NEW u \in Slots, NEW step, GoOn(u, step)
      PROVE  u = s /\ requests'[s] = [requests[s] EXCEPT !.step = step]
  <2>1. requests' = [requests EXCEPT ![u] = [requests[u] EXCEPT !.step = step]]
    BY <1>1 DEF GoOn
  <2> QED BY <1>0, <2>1
<1>2. ASSUME NEW u \in Slots, NEW r, Begin(u, r)
      PROVE  u = s /\ requests'[s] = r
  BY <1>0, <1>2 DEF Begin
<1>3. ASSUME NEW u \in Slots, Ends(u) PROVE FALSE
  BY <1>0, <1>3 DEF Ends
<1>4. ASSUME NEW u \in Slots, NEW w \in Wallets, NEW t \in Tasks, NEW p \in Posts,
             NEW a \in XAccounts \cup {NoXAccount}, SubmitXTask(u, w, t, p, a)
      PROVE  requests'[s].kind = "x" /\ requests'[s].step \notin {"grant", "record"}
  <2> DEFINE r == [kind |-> "x", wallet |-> w, task |-> t, week |-> week, account |-> a,
                   post |-> p, step |-> IF a = NoXAccount THEN "wallet" ELSE "account"]
  <2>1. Begin(u, r)
    BY <1>4 DEF SubmitXTask
  <2>2. requests'[s] = r
    BY <1>2, <2>1
  <2> QED BY <2>2
<1>5. ASSUME NEW u \in Slots, EnsureXAccountCanSubmit(u) \/ FindExisting(u)
      PROVE  requests'[s].kind = "x" /\ requests'[s].step \notin {"grant", "record"}
  <2>1. requests[u] \in XRequests
    BY <1>0, <1>5 DEF EnsureXAccountCanSubmit, FindExisting, At, ReferralRequests
  <2>2. PICK step \in {"wallet", "save", "fetch"} : GoOn(u, step)
    BY <1>5 DEF EnsureXAccountCanSubmit, FindExisting
  <2>3. u = s /\ requests'[s] = [requests[s] EXCEPT !.step = step]
    BY <1>1, <2>2
  <2> QED BY <2>1, <2>3 DEF XRequests
<1>6. ASSUME NEW u \in Slots, VerifyTask(u)
      PROVE  requests'[s].kind = "x" /\ requests'[s].step \notin {"grant", "record"}
  <2>1. requests[u] \in XRequests
    BY <1>0, <1>6 DEF VerifyTask, At, ReferralRequests
  <2>2. PICK a \in AuthorsOf[requests[u].post] :
          requests' = [requests EXCEPT
                ![u].account = a,
                ![u].step = IF requests[u].account = a THEN "save" ELSE "recheck"]
    BY <1>6 DEF VerifyTask
  <2>3. PICK step \in {"save", "recheck"} :
          requests' = [requests EXCEPT ![u] = [requests[u] EXCEPT !.account = a, !.step = step]]
    BY <1>0, <2>2
  <2> DEFINE r == [requests[u] EXCEPT !.account = a, !.step = step]
  <2>4. r.kind = "x" /\ r.step = step
    BY <2>1 DEF XRequests
  <2>5. requests' = [requests EXCEPT ![u] = r]
    BY <2>3
  <2> HIDE DEF r
  <2>6. u = s /\ requests'[s] = r
    BY <1>0, <2>5
  <2> QED BY <2>4, <2>6
<1>7. ASSUME NEW u \in Slots, SaveSubmission(u)
      PROVE  u = s /\ requests'[s] = [requests[s] EXCEPT !.step = "grant"]
  <2>1. GoOn(u, "grant")
    BY <1>7 DEF SaveSubmission
  <2> QED BY <1>1, <2>1
<1>8. ASSUME NEW u \in Slots, CheckMilestone(u)
      PROVE  u = s /\ requests'[s] = [requests[s] EXCEPT !.step = "grant"]
  <2>1. GoOn(u, "grant")
    BY <1>8 DEF CheckMilestone
  <2> QED BY <1>1, <2>1
<1>9. ASSUME NEW u \in Slots, GrantLedgerFreebet(u)
      PROVE  u = s /\ requests'[s] = [requests[s] EXCEPT !.step = "record"]
  <2>1. GoOn(u, "record")
    BY <1>9 DEF GrantLedgerFreebet
  <2> QED BY <1>1, <2>1
<1>10. ASSUME NEW u \in Slots, NEW friend \in Wallets, SyncReferralActivity(u, friend)
       PROVE  /\ u = s
              /\ requests'[s] = [kind |-> "ref", referrer |-> referrals[friend],
                                 friend |-> friend, week |-> week, step |-> "cap"]
  <2> DEFINE r == [kind |-> "ref", referrer |-> referrals[friend],
                   friend |-> friend, week |-> week, step |-> "cap"]
  <2>1. Begin(u, r)
    BY <1>10 DEF SyncReferralActivity
  <2> HIDE DEF r
  <2>2. u = s /\ requests'[s] = r
    BY <1>2, <2>1
  <2> QED BY <2>2 DEF r
<1>11. ASSUME NEW u \in Slots, MarkPaid(u) \/ RecordReferralReward(u) \/ GrantTimesOut(u) \/ Abandon(u)
       PROVE  FALSE
  BY <1>3, <1>11 DEF MarkPaid, RecordReferralReward, GrantTimesOut, Abandon
<1>12. ~UNCHANGED requests
  BY DEF vars
<1>13. TaskStep \/ ReferralStep \/ GrantStep
  BY <1>12 DEF Next, NextWeek, vars
<1>14. CASE TaskStep
  BY <1>4, <1>5, <1>6, <1>7, <1>11, <1>12, <1>14 DEF TaskStep, ManualGrant
<1>15. CASE ReferralStep
  BY <1>8, <1>10, <1>11, <1>12, <1>15 DEF ReferralStep, RegisterReferral
<1>16. CASE GrantStep
  BY <1>9, <1>11, <1>12, <1>16 DEF GrantStep, LateGrant
<1> QED BY <1>13, <1>14, <1>15, <1>16

LEMMA RequestsAreBackedStep ==
    ASSUME TypesAndAuthors, GrantsFollowTables, [Next]_vars
    PROVE  RequestsKeepReferrals' /\ RequestsAreBacked'
<1> SUFFICES ASSUME NEW s \in Slots PROVE RequestIsBacked(s)'
  BY DEF RequestsKeepReferrals, RequestsAreBacked, RequestIsBacked
<1>1. CASE requests'[s] = requests[s]
  BY <1>1, WaitingRequest
<1>2. CASE requests'[s] = NoRequest
  BY <1>2 DEF RequestIsBacked, At
<1>3. CASE requests'[s].kind = "x" /\ requests'[s].step \notin {"grant", "record"}
  BY <1>3 DEF RequestIsBacked, At
<1>4. CASE SaveSubmission(s) /\ requests'[s] = [requests[s] EXCEPT !.step = "grant"]
  <2>1. requests[s] \in XRequests
    BY <1>4, SavedRow DEF SaveSubmission
  <2>2. /\ requests'[s].kind = "x" /\ requests'[s].step = "grant"
        /\ requests'[s].week = requests[s].week /\ requests'[s].wallet = requests[s].wallet
        /\ requests'[s].task = requests[s].task
    BY <1>4, <2>1 DEF XRequests
  <2>3. IdOf(s)' = <<"x", requests[s].week, requests[s].wallet, requests[s].task>>
    BY <2>2 DEF IdOf, GrantOf, XGrantId
  <2>4. RowOf(requests[s], "approved") \in submissions'
    BY <1>4 DEF SaveSubmission
  <2>5. XGrantId(RowOf(requests[s], "approved"))
            = <<"x", requests[s].week, requests[s].wallet, requests[s].task>>
    BY DEF XGrantId, RowOf
  <2>6. Backed(IdOf(s))'
    BY <2>3, <2>4, <2>5 DEF Backed
  <2> QED BY <2>2, <2>6 DEF RequestIsBacked, At
<1>5. ASSUME NEW friend \in Wallets, SyncReferralActivity(s, friend),
             requests'[s] = [kind |-> "ref", referrer |-> referrals[friend],
                             friend |-> friend, week |-> week, step |-> "cap"]
      PROVE  RequestIsBacked(s)'
  <2>1. referrals' = referrals
    BY <1>5 DEF SyncReferralActivity, tables
  <2> QED BY <1>5, <2>1 DEF RequestIsBacked, At
<1>6. CASE CheckMilestone(s) /\ requests'[s] = [requests[s] EXCEPT !.step = "grant"]
  <2>1. requests[s] \in ReferralRequests /\ requests[s] # NoRequest
    BY <1>6 DEF CheckMilestone, At, TypesAndAuthors, RewardsTypeOK, XRequests
  <2>2. /\ requests'[s].kind = "ref" /\ requests'[s].step = "grant"
        /\ requests'[s].referrer = requests[s].referrer /\ requests'[s].friend = requests[s].friend
    BY <1>6, <2>1 DEF ReferralRequests
  <2>3. referrals[requests[s].friend] = requests[s].referrer
    BY <2>1 DEF GrantsFollowTables, RequestsKeepReferrals, ReferralRequests
  <2>4. IdOf(s)' = <<"ref", requests[s].referrer, requests[s].friend>>
    BY <2>2 DEF IdOf, GrantOf, ReferralGrantId
  <2>5. referrals' = referrals
    BY <1>6 DEF CheckMilestone, tables
  <2>6. Backed(IdOf(s))'
    BY <2>3, <2>4, <2>5 DEF Backed
  <2> QED BY <2>2, <2>3, <2>5, <2>6 DEF RequestIsBacked, At
<1>7. CASE GrantLedgerFreebet(s) /\ requests'[s] = [requests[s] EXCEPT !.step = "record"]
  <2>1. At(s, "grant") /\ requests[s] \in XRequests \cup ReferralRequests
    BY <1>7 DEF GrantLedgerFreebet, At, TypesAndAuthors, RewardsTypeOK
  <2>2. IdOf(s)' = IdOf(s)
    BY <1>7, <2>1 DEF IdOf, GrantOf, XGrantId, ReferralGrantId, XRequests, ReferralRequests
  <2> DEFINE m == GrantOf(requests[s])
  <2>3. m \in Messages /\ [recipient |-> m.to, amount |-> m.amount] = CreditOf(m.id)
    BY <2>1, RequestGrants
  <2>4. Backed(m.id)
    BY <2>1 DEF GrantsFollowTables, RequestsAreBacked, IdOf
  <2>5. PICK id \in GrantIds : id = m.id
    BY <2>3 DEF Messages
  <2>6. Ledger!Grant(Issuer, m.to, m.id, m.amount)
    BY <1>7 DEF GrantLedgerFreebet, Executes
  <2>7. grants'[id] = CreditOf(id)
    BY <2>3, <2>5, <2>6, GrantEffect DEF TypesAndAuthors, RewardsTypeOK
  <2>8. Backed(id)'
    BY <2>4, <2>5, BackedStays
  <2>9. IdOf(s)' = id
    BY <2>2, <2>5 DEF IdOf
  <2>10. Backed(IdOf(s))' /\ (grants[IdOf(s)] = CreditOf(IdOf(s)))'
    BY <2>7, <2>8, <2>9 DEF Backed
  <2>11. requests'[s].kind = "ref" => referrals'[requests'[s].friend] = requests'[s].referrer
    <3> SUFFICES ASSUME requests'[s].kind = "ref"
                 PROVE  referrals'[requests'[s].friend] = requests'[s].referrer
      OBVIOUS
    <3>1. requests[s] \in ReferralRequests
      BY <1>7, <2>1 DEF XRequests
    <3>2. /\ requests'[s].friend = requests[s].friend
          /\ requests'[s].referrer = requests[s].referrer
      BY <1>7, <3>1 DEF ReferralRequests
    <3>3. referrals[requests[s].friend] = requests[s].referrer
      BY <2>1, <3>1 DEF GrantsFollowTables, RequestsKeepReferrals, At, ReferralRequests
    <3> QED BY <1>7, <3>2, <3>3 DEF GrantLedgerFreebet, tables
  <2> QED BY <2>10, <2>11 DEF RequestIsBacked
<1> QED BY <1>1, <1>2, <1>3, <1>4, <1>5, <1>6, <1>7, RequestsMove

LEMMA MessagesAreBackedStep ==
    ASSUME TypesAndAuthors, GrantsFollowTables, [Next]_vars
    PROVE  MessagesAreBacked'
<1> SUFFICES ASSUME NEW m \in orphans'
             PROVE  Backed(m.id)' /\ [recipient |-> m.to, amount |-> m.amount] = CreditOf(m.id)
  BY DEF MessagesAreBacked
<1>1. CASE m \in orphans
  <2>1. PICK id \in GrantIds : id = m.id
    BY <1>1 DEF TypesAndAuthors, RewardsTypeOK, Messages
  <2>2. Backed(id) /\ [recipient |-> m.to, amount |-> m.amount] = CreditOf(id)
    BY <1>1, <2>1 DEF GrantsFollowTables, MessagesAreBacked
  <2>3. Backed(id)'
    BY <2>2, BackedStays
  <2> QED BY <2>1, <2>2, <2>3
<1>2. CASE m \notin orphans
  <2>1. PICK s \in Slots : GrantTimesOut(s)
    BY <1>2 DEF Next, TaskStep, ReferralStep, GrantStep, vars, SubmitXTask,
         EnsureXAccountCanSubmit, FindExisting, VerifyTask, SaveSubmission, MarkPaid,
         ManualGrant, RegisterReferral, SyncReferralActivity, CheckMilestone,
         RecordReferralReward, GrantLedgerFreebet, Abandon, LateGrant, NextWeek
  <2>2. m = GrantOf(requests[s]) /\ At(s, "grant")
    BY <1>2, <2>1 DEF GrantTimesOut
  <2>3. requests[s] \in XRequests \cup ReferralRequests
    BY <2>2 DEF At, TypesAndAuthors, RewardsTypeOK
  <2>4. /\ m.id \in GrantIds
        /\ [recipient |-> m.to, amount |-> m.amount] = CreditOf(m.id)
    BY <2>2, <2>3, RequestGrants DEF Messages
  <2>5. Backed(m.id)
    BY <2>2 DEF GrantsFollowTables, RequestsAreBacked, IdOf
  <2>6. PICK id \in GrantIds : id = m.id
    BY <2>4
  <2> QED BY <2>4, <2>5, <2>6, BackedStays
<1> QED BY <1>1, <1>2

LEMMA TablesAreCreditedStep ==
    ASSUME TypesAndAuthors, GrantsFollowTables, [Next]_vars
    PROVE  TablesAreCredited'
<1>1. ASSUME NEW row \in submissions', row.status = "paid"
      PROVE  grants'[XGrantId(row)] = CreditOf(XGrantId(row))
  <2>1. CASE row \in submissions
    <3>1. PICK id \in GrantIds : id = XGrantId(row)
      BY <2>1, XIds DEF TypesAndAuthors, RewardsTypeOK, Rows, XGrantId
    <3>2. grants[id] = CreditOf(id)
      BY <1>1, <2>1, <3>1 DEF GrantsFollowTables, TablesAreCredited
    <3> QED BY <3>1, <3>2, CreditStays
  <2>2. ASSUME NEW s \in Slots, SaveSubmission(s), row \notin submissions PROVE FALSE
    BY <1>1, <2>2 DEF SaveSubmission, RowOf
  <2>3. ASSUME NEW s \in Slots, MarkPaid(s), row \notin submissions
        PROVE  grants'[XGrantId(row)] = CreditOf(XGrantId(row))
    <3>1. PICK old \in submissions :
              /\ row.wallet = old.wallet /\ row.task = old.task /\ row.week = old.week
              /\ row.account = old.account /\ row.post = old.post
              /\ row = IF SameWalletTaskWeek(old, requests[s]) THEN PaidRow(old) ELSE old
      BY <2>3, MarkedRows
    <3>2. SameWalletTaskWeek(old, requests[s])
      BY <2>3, <3>1
    <3>3. At(s, "record") /\ requests[s].kind = "x"
      BY <2>3 DEF MarkPaid
    <3>4. IdOf(s) = XGrantId(row)
      BY <3>1, <3>2, <3>3 DEF IdOf, GrantOf, XGrantId, SameWalletTaskWeek
    <3>5. grants[IdOf(s)] = CreditOf(IdOf(s))
      BY <3>3 DEF GrantsFollowTables, RequestsAreBacked
    <3>6. grants' = grants
      BY <2>3 DEF MarkPaid, ledgerVars
    <3> QED BY <3>4, <3>5, <3>6
  <2> QED BY <2>1, <2>2, <2>3, RowsChange
<1>2. ASSUME NEW row \in referral_rewards'
      PROVE  grants'[ReferralGrantId(row)] = CreditOf(ReferralGrantId(row))
  <2>1. CASE row \in referral_rewards
    <3>1. PICK id \in GrantIds : id = ReferralGrantId(row)
      BY <2>1, ReferralIds DEF TypesAndAuthors, RewardsTypeOK, RewardRows, ReferralGrantId
    <3>2. grants[id] = CreditOf(id)
      BY <2>1, <3>1 DEF GrantsFollowTables, TablesAreCredited
    <3> QED BY <3>1, <3>2, CreditStays
  <2>2. CASE row \notin referral_rewards
    <3>1. PICK s \in Slots : RecordReferralReward(s)
      BY <2>2 DEF Next, TaskStep, ReferralStep, GrantStep, vars, tables, SubmitXTask,
         EnsureXAccountCanSubmit, FindExisting, VerifyTask, SaveSubmission, MarkPaid,
         ManualGrant, RegisterReferral, SyncReferralActivity, CheckMilestone,
         GrantLedgerFreebet, GrantTimesOut, Abandon, LateGrant, NextWeek
    <3>2. At(s, "record") /\ requests[s].kind = "ref"
      BY <3>1 DEF RecordReferralReward
    <3>3. row = [referrer |-> requests[s].referrer, friend |-> requests[s].friend,
                 week |-> requests[s].week]
      BY <2>2, <3>1 DEF RecordReferralReward
    <3>4. IdOf(s) = ReferralGrantId(row)
      BY <3>2, <3>3 DEF IdOf, GrantOf, ReferralGrantId
    <3>5. grants[IdOf(s)] = CreditOf(IdOf(s))
      BY <3>2 DEF GrantsFollowTables, RequestsAreBacked
    <3>6. grants' = grants
      BY <3>1 DEF RecordReferralReward, ledgerVars
    <3> QED BY <3>4, <3>5, <3>6
  <2> QED BY <2>1, <2>2
<1> QED BY <1>1, <1>2 DEF TablesAreCredited

LEMMA GrantsFollowTablesStep ==
    ASSUME TypesAndAuthors, GrantsFollowTables, [Next]_vars
    PROVE  GrantsFollowTables'
<1>1. RequestsKeepReferrals' /\ RequestsAreBacked'
  BY RequestsAreBackedStep
<1>2. MessagesAreBacked'
  BY MessagesAreBackedStep
<1>3. GrantsAreBacked'
  BY GrantsAreBackedStep
<1>4. TablesAreCredited'
  BY TablesAreCreditedStep
<1> QED BY <1>1, <1>2, <1>3, <1>4 DEF GrantsFollowTables

----------------------------------------------------------------------------
(* The weekly cap                                                          *)

RewardsOf(referrer, w) ==
    {row \in referral_rewards : row.referrer = referrer /\ row.week = w}

LEMMA OneElementMore ==
    ASSUME NEW S, IsFiniteSet(S), NEW x
    PROVE  /\ Cardinality(S \cup {x}) <= Cardinality(S) + 1
           /\ Cardinality(S \cup {x}) \in Nat
<1>1. IsFiniteSet(S \cup {x}) /\ Cardinality(S \cup {x}) = IF x \in S THEN Cardinality(S) ELSE Cardinality(S) + 1
  BY FS_AddElement
<1>2. Cardinality(S) \in Nat
  BY FS_CardinalityType
<1>3. CASE x \in S
  BY <1>1, <1>2, <1>3
<1>4. CASE x \notin S
  BY <1>1, <1>2, <1>4
<1> QED BY <1>3, <1>4

LEMMA UnionIsNoLarger ==
    ASSUME NEW S, IsFiniteSet(S), NEW T, IsFiniteSet(T)
    PROVE  IsFiniteSet(S \cup T) /\ Cardinality(S \cup T) <= Cardinality(S) + Cardinality(T)
<1>1. /\ IsFiniteSet(S \cup T)
      /\ Cardinality(S \cup T) = Cardinality(S) + Cardinality(T) - Cardinality(S \cap T)
  BY FS_Union
<1>2. IsFiniteSet(S \cap T)
  BY FS_Subset
<1>3. Cardinality(S) \in Nat /\ Cardinality(T) \in Nat /\ Cardinality(S \cap T) \in Nat
  BY <1>2, FS_CardinalityType
<1> QED BY <1>1, <1>3

LEMMA CapSets ==
    ASSUME CapWithRequests, NEW referrer \in Wallets, NEW w \in Weeks
    PROVE  /\ IsFiniteSet(RewardsOf(referrer, w)) /\ WeeklyPaid(referrer, w) \in Nat
           /\ WeeklyPaid(referrer, w) = Cardinality(RewardsOf(referrer, w))
           /\ IsFiniteSet(PastTheCheck(referrer, w))
           /\ Cardinality(PastTheCheck(referrer, w)) \in Nat
           /\ Cardinality(PastTheCheck(referrer, w)) <= Cardinality(Slots)
           /\ Cardinality(Slots) \in Nat
<1>1. RewardsOf(referrer, w) \subseteq referral_rewards
  BY DEF RewardsOf
<1>2. PastTheCheck(referrer, w) \subseteq Slots
  BY DEF PastTheCheck
<1>3. IsFiniteSet(Slots)
  BY RewardsAssumption
<1>4. WeeklyPaid(referrer, w) = Cardinality(RewardsOf(referrer, w))
  BY DEF WeeklyPaid, RewardsOf
<1>5. IsFiniteSet(RewardsOf(referrer, w))
  BY <1>1, FS_Subset DEF CapWithRequests
<1>6. /\ IsFiniteSet(PastTheCheck(referrer, w))
      /\ Cardinality(PastTheCheck(referrer, w)) <= Cardinality(Slots)
  BY <1>2, <1>3, FS_Subset
<1> QED BY <1>3, <1>4, <1>5, <1>6, FS_CardinalityType

LEMMA CapInit == Init => CapWithRequests
<1> SUFFICES ASSUME Init PROVE CapWithRequests
  OBVIOUS
<1>1. IsFiniteSet(referral_rewards)
  BY FS_EmptySet DEF Init
<1>2. ASSUME NEW referrer \in Wallets, NEW w \in Weeks
      PROVE  WeeklyPaid(referrer, w) + Cardinality(PastTheCheck(referrer, w))
                 <= WeeklyCap - 1 + Cardinality(Slots)
  <2>1. {row \in referral_rewards : row.referrer = referrer /\ row.week = w} = {}
    BY DEF Init
  <2>2. PastTheCheck(referrer, w) = {}
    BY DEF Init, PastTheCheck, At
  <2>3. WeeklyPaid(referrer, w) = 0 /\ Cardinality(PastTheCheck(referrer, w)) = 0
    BY <2>1, <2>2, FS_EmptySet DEF WeeklyPaid
  <2>4. Cardinality(Slots) \in Nat /\ WeeklyCap \in Nat \ {0}
    BY RewardsAssumption, FS_CardinalityType
  <2> QED BY <2>3, <2>4
<1> QED BY <1>1, <1>2 DEF CapWithRequests

(* A request past the check stays past it, with its referrer and week,     *)
(* until it ends; only the check lets one in.                              *)
LEMMA PastTheCheckGrows ==
    ASSUME TypesAndAuthors, [Next]_vars, NEW referrer \in Wallets, NEW w \in Weeks,
           NEW s \in PastTheCheck(referrer, w)', s \notin PastTheCheck(referrer, w)
    PROVE  /\ CheckMilestone(s)
           /\ requests[s].referrer = referrer /\ requests[s].week = w
<1>1. s \in Slots /\ requests'[s] # NoRequest /\ requests'[s].step \in {"grant", "record"}
      /\ requests'[s].kind = "ref" /\ requests'[s].referrer = referrer /\ requests'[s].week = w
  BY DEF PastTheCheck, At
<1>2. requests'[s] # requests[s]
  BY <1>1 DEF PastTheCheck, At
<1>3. requests[s] \in AllRequests
  BY <1>1 DEF TypesAndAuthors, RewardsTypeOK, AllRequests
<1>4. ~(SaveSubmission(s) /\ requests'[s] = [requests[s] EXCEPT !.step = "grant"])
  <2> SUFFICES ASSUME SaveSubmission(s), requests'[s] = [requests[s] EXCEPT !.step = "grant"]
               PROVE  FALSE
    OBVIOUS
  <2>1. requests[s] \in XRequests
    BY <1>1, SavedRow DEF SaveSubmission
  <2> QED BY <1>1, <2>1 DEF XRequests
<1>5. ~\E friend \in Wallets :
          requests'[s] = [kind |-> "ref", referrer |-> referrals[friend],
                          friend |-> friend, week |-> week, step |-> "cap"]
  <2> SUFFICES ASSUME NEW friend \in Wallets,
                      requests'[s] = [kind |-> "ref", referrer |-> referrals[friend],
                                      friend |-> friend, week |-> week, step |-> "cap"]
               PROVE  FALSE
    OBVIOUS
  <2>1. requests'[s].step = "cap"
    OBVIOUS
  <2> QED BY <1>1, <2>1
<1>6. ~(GrantLedgerFreebet(s) /\ requests'[s] = [requests[s] EXCEPT !.step = "record"])
  <2> SUFFICES ASSUME GrantLedgerFreebet(s), requests'[s] = [requests[s] EXCEPT !.step = "record"]
               PROVE  FALSE
    OBVIOUS
  <2>1. At(s, "grant") /\ requests[s] \in XRequests \cup ReferralRequests
    BY <1>3 DEF GrantLedgerFreebet, At, AllRequests
  <2>2. requests[s].kind = "ref" /\ requests[s].referrer = referrer /\ requests[s].week = w
    <3>1. requests[s] \in ReferralRequests
      BY <1>1, <2>1 DEF XRequests
    <3> QED BY <1>1, <3>1 DEF ReferralRequests
  <2> QED BY <1>1, <2>1, <2>2 DEF PastTheCheck
<1>7. CheckMilestone(s) /\ requests'[s] = [requests[s] EXCEPT !.step = "grant"]
  BY <1>1, <1>2, <1>4, <1>5, <1>6, RequestsMove
<1>8. requests[s] \in ReferralRequests
  BY <1>3, <1>7 DEF CheckMilestone, At, AllRequests, XRequests
<1> QED BY <1>1, <1>7, <1>8 DEF ReferralRequests

LEMMA CapStep ==
    ASSUME TypesAndAuthors, CapWithRequests, [Next]_vars
    PROVE  CapWithRequests'
<1>1. ASSUME NEW s \in Slots, RecordReferralReward(s) PROVE CapWithRequests'
  <2> DEFINE r == [referrer |-> requests[s].referrer, friend |-> requests[s].friend,
                   week |-> requests[s].week]
  <2>1. referral_rewards' = referral_rewards \cup {r}
    BY <1>1 DEF RecordReferralReward
  <2>2. /\ At(s, "record") /\ requests[s].kind = "ref"
        /\ r.referrer = requests[s].referrer /\ r.week = requests[s].week
    BY <1>1 DEF RecordReferralReward
  <2>3. requests' = [requests EXCEPT ![s] = NoRequest] /\ requests \in [Slots -> AllRequests]
    BY <1>1 DEF RecordReferralReward, Ends, TypesAndAuthors, RewardsTypeOK, AllRequests
  <2> HIDE DEF r
  <2>4. IsFiniteSet(referral_rewards')
    BY <2>1, FS_AddElement DEF CapWithRequests
  <2>5. ASSUME NEW referrer \in Wallets, NEW w \in Weeks
        PROVE  WeeklyPaid(referrer, w)' + Cardinality(PastTheCheck(referrer, w)')
                   <= WeeklyCap - 1 + Cardinality(Slots)
    <3>1. CASE requests[s].referrer = referrer /\ requests[s].week = w
      <4>1. RewardsOf(referrer, w)' = RewardsOf(referrer, w) \cup {r}
        BY <2>1, <2>2, <3>1 DEF RewardsOf
      <4>2. PastTheCheck(referrer, w)' = PastTheCheck(referrer, w) \ {s}
        BY <2>2, <2>3 DEF PastTheCheck, At
      <4>3. s \in PastTheCheck(referrer, w)
        BY <2>2, <3>1 DEF PastTheCheck
      <4>4. WeeklyPaid(referrer, w)' = Cardinality(RewardsOf(referrer, w)')
        BY DEF WeeklyPaid, RewardsOf
      <4>5. IsFiniteSet(RewardsOf(referrer, w))
        BY CapSets
      <4>8. /\ Cardinality(RewardsOf(referrer, w) \cup {r}) <= Cardinality(RewardsOf(referrer, w)) + 1
            /\ Cardinality(RewardsOf(referrer, w) \cup {r}) \in Nat
        BY <4>5, OneElementMore
      <4>6. Cardinality(PastTheCheck(referrer, w)') = Cardinality(PastTheCheck(referrer, w)) - 1
        BY <4>2, <4>3, CapSets, FS_RemoveElement
      <4>7. WeeklyPaid(referrer, w) + Cardinality(PastTheCheck(referrer, w))
                <= WeeklyCap - 1 + Cardinality(Slots)
        BY DEF CapWithRequests
      <4> QED BY <4>1, <4>4, <4>6, <4>7, <4>8, CapSets, RewardsAssumption
    <3>2. CASE ~(requests[s].referrer = referrer /\ requests[s].week = w)
      <4>1. RewardsOf(referrer, w)' = RewardsOf(referrer, w)
        BY <2>1, <2>2, <3>2 DEF RewardsOf
      <4>2. PastTheCheck(referrer, w)' = PastTheCheck(referrer, w)
        BY <2>3, <3>2 DEF PastTheCheck, At
      <4>3. WeeklyPaid(referrer, w)' = WeeklyPaid(referrer, w)
        BY <4>1 DEF WeeklyPaid, RewardsOf
      <4> QED BY <4>2, <4>3 DEF CapWithRequests
    <3> QED BY <3>1, <3>2
  <2> QED BY <2>4, <2>5 DEF CapWithRequests
<1>2. ASSUME referral_rewards' = referral_rewards PROVE CapWithRequests'
  <2>1. ASSUME NEW referrer \in Wallets, NEW w \in Weeks
        PROVE  WeeklyPaid(referrer, w)' + Cardinality(PastTheCheck(referrer, w)')
                   <= WeeklyCap - 1 + Cardinality(Slots)
    <3>1. WeeklyPaid(referrer, w)' = WeeklyPaid(referrer, w)
      BY <1>2 DEF WeeklyPaid
    <3>2. /\ WeeklyPaid(referrer, w) \in Nat
          /\ Cardinality(PastTheCheck(referrer, w)) \in Nat /\ Cardinality(Slots) \in Nat
          /\ IsFiniteSet(PastTheCheck(referrer, w))
      BY CapSets
    <3>3. IsFiniteSet(Slots) /\ WeeklyCap \in Nat
      BY RewardsAssumption
    <3>4. CASE PastTheCheck(referrer, w)' \subseteq PastTheCheck(referrer, w)
      <4>1. /\ Cardinality(PastTheCheck(referrer, w)') <= Cardinality(PastTheCheck(referrer, w))
            /\ Cardinality(PastTheCheck(referrer, w)') \in Nat
        BY <3>2, <3>4, FS_Subset, FS_CardinalityType
      <4>2. WeeklyPaid(referrer, w) + Cardinality(PastTheCheck(referrer, w))
                <= WeeklyCap - 1 + Cardinality(Slots)
        BY DEF CapWithRequests
      <4> QED BY <3>1, <3>2, <3>3, <4>1, <4>2
    <3>5. CASE ~(PastTheCheck(referrer, w)' \subseteq PastTheCheck(referrer, w))
      <4>1. PICK s \in PastTheCheck(referrer, w)' : s \notin PastTheCheck(referrer, w)
        BY <3>5
      <4>2. CheckMilestone(s) /\ requests[s].referrer = referrer /\ requests[s].week = w
        BY <4>1, PastTheCheckGrows
      <4>3. WeeklyPaid(referrer, w) < WeeklyCap
        BY <4>2 DEF CheckMilestone, WeeklyCapAllows
      <4>4. PastTheCheck(referrer, w)' \subseteq Slots
        BY DEF PastTheCheck
      <4>5. /\ Cardinality(PastTheCheck(referrer, w)') <= Cardinality(Slots)
            /\ Cardinality(PastTheCheck(referrer, w)') \in Nat
        BY <3>3, <4>4, FS_Subset, FS_CardinalityType
      <4> QED BY <3>1, <3>2, <3>3, <4>3, <4>5
    <3> QED BY <3>4, <3>5
  <2> QED BY <1>2, <2>1 DEF CapWithRequests
<1>3. \/ referral_rewards' = referral_rewards
      \/ \E s \in Slots : RecordReferralReward(s)
  BY DEF Next, TaskStep, ReferralStep, GrantStep, vars, tables, SubmitXTask,
         EnsureXAccountCanSubmit, FindExisting, VerifyTask, SaveSubmission, MarkPaid,
         ManualGrant, RegisterReferral, SyncReferralActivity, CheckMilestone,
         GrantLedgerFreebet, GrantTimesOut, Abandon, LateGrant, NextWeek
<1> QED BY <1>1, <1>2, <1>3

----------------------------------------------------------------------------
(* What the ledger paid                                                    *)

(* A handler whose grant was executed saves what is paid, or takes the row *)
(* along.                                                                  *)
LEMMA RecordEnds ==
    ASSUME TypesAndAuthors, [Next]_vars, NEW s \in Slots, At(s, "record"),
           requests'[s] # requests[s]
    PROVE  MarkPaid(s) \/ RecordReferralReward(s) \/ Abandon(s)
<1> USE DEF AllRequests
<1>0. requests \in [Slots -> AllRequests] /\ requests[s] # NoRequest
  BY DEF TypesAndAuthors, RewardsTypeOK, At
<1>1. ASSUME NEW u \in Slots, NEW step, GoOn(u, step), ~At(u, "record") PROVE FALSE
  BY <1>0, <1>1 DEF GoOn
<1>2. ASSUME NEW u \in Slots, NEW r, Begin(u, r) PROVE FALSE
  BY <1>0, <1>2 DEF Begin
<1>3. ASSUME NEW u \in Slots, Ends(u) PROVE u = s
  BY <1>0, <1>3 DEF Ends
<1>4. ASSUME NEW u \in Slots, NEW w \in Wallets, NEW t \in Tasks, NEW p \in Posts,
             NEW a \in XAccounts \cup {NoXAccount}, SubmitXTask(u, w, t, p, a)
      PROVE  FALSE
  BY <1>2, <1>4 DEF SubmitXTask
<1>5. ASSUME NEW u \in Slots, NEW friend \in Wallets, SyncReferralActivity(u, friend)
      PROVE  FALSE
  BY <1>2, <1>5 DEF SyncReferralActivity
<1>6. ASSUME NEW u \in Slots, VerifyTask(u) PROVE FALSE
  <2>1. u # s
    BY <1>6 DEF VerifyTask, At
  <2> QED BY <1>0, <1>6, <2>1 DEF VerifyTask
<1>7. ASSUME NEW u \in Slots,
             \/ EnsureXAccountCanSubmit(u) \/ FindExisting(u) \/ SaveSubmission(u)
             \/ CheckMilestone(u) \/ GrantLedgerFreebet(u)
      PROVE  FALSE
  <2>1. ~At(u, "record")
    BY <1>7 DEF EnsureXAccountCanSubmit, FindExisting, SaveSubmission, CheckMilestone,
                GrantLedgerFreebet, At
  <2>2. \E step \in {"wallet", "fetch", "save", "grant", "record"} : GoOn(u, step)
    BY <1>7 DEF EnsureXAccountCanSubmit, FindExisting, SaveSubmission, CheckMilestone,
                GrantLedgerFreebet
  <2> QED BY <1>1, <2>1, <2>2
<1>8. ASSUME NEW u \in Slots, GrantTimesOut(u) PROVE FALSE
  <2>1. u = s
    BY <1>3, <1>8 DEF GrantTimesOut
  <2> QED BY <1>8, <2>1 DEF GrantTimesOut, At
<1>9. ASSUME NEW u \in Slots, MarkPaid(u) \/ RecordReferralReward(u) \/ Abandon(u)
      PROVE  u = s
  BY <1>3, <1>9 DEF MarkPaid, RecordReferralReward, Abandon
<1>10. TaskStep \/ ReferralStep \/ GrantStep
  BY DEF Next, NextWeek, vars
<1>11. CASE TaskStep
  BY <1>4, <1>6, <1>7, <1>9, <1>11 DEF TaskStep, ManualGrant
<1>12. CASE ReferralStep
  BY <1>5, <1>7, <1>9, <1>12 DEF ReferralStep, RegisterReferral
<1>13. CASE GrantStep
  BY <1>7, <1>8, <1>9, <1>13 DEF GrantStep, LateGrant
<1> QED BY <1>10, <1>11, <1>12, <1>13

(* Payments and lost rows are made by four actions; orphans by one.        *)
LEMMA HistoryMoves ==
    ASSUME [Next]_vars
    PROVE  \/ payments' = payments /\ lost' = lost /\ orphans' = orphans
           \/ \E s \in Slots : GrantLedgerFreebet(s) \/ GrantTimesOut(s) \/ Abandon(s)
           \/ \E m \in orphans : LateGrant(m)
  BY DEF Next, TaskStep, ReferralStep, GrantStep, vars, historyVars, SubmitXTask,
         EnsureXAccountCanSubmit, FindExisting, VerifyTask, SaveSubmission, MarkPaid,
         ManualGrant, RegisterReferral, SyncReferralActivity, CheckMilestone,
         RecordReferralReward, NextWeek

LEMMA RowsAndLossesStay ==
    ASSUME TypesAndAuthors, IsFiniteSet(lost), [Next]_vars
    PROVE  /\ referral_rewards \subseteq referral_rewards'
           /\ lost \subseteq lost' /\ IsFiniteSet(lost')
<1>1. referral_rewards \subseteq referral_rewards'
  BY DEF Next, TaskStep, ReferralStep, GrantStep, vars, tables, SubmitXTask,
         EnsureXAccountCanSubmit, FindExisting, VerifyTask, SaveSubmission, MarkPaid,
         ManualGrant, RegisterReferral, SyncReferralActivity, CheckMilestone,
         RecordReferralReward, GrantLedgerFreebet, GrantTimesOut, Abandon, LateGrant, NextWeek
<1>2. ASSUME NEW s \in Slots, GrantTimesOut(s) \/ Abandon(s)
      PROVE  lost \subseteq lost' /\ IsFiniteSet(lost')
  <2>1. requests[s] \in XRequests \cup ReferralRequests
    BY <1>2 DEF GrantTimesOut, Abandon, At, TypesAndAuthors, RewardsTypeOK
  <2>2. IsFiniteSet(RewardFor(GrantOf(requests[s])))
    BY <2>1, RequestGrants, RewardForTypes
  <2>3. IsFiniteSet(lost \cup RewardFor(GrantOf(requests[s])))
    BY <2>2, FS_Union
  <2>4. lost' = lost \/ lost' = lost \cup RewardFor(GrantOf(requests[s]))
    BY <1>2 DEF GrantTimesOut, Abandon
  <2> QED BY <2>3, <2>4
<1>3. lost' = lost \/ \E s \in Slots : GrantTimesOut(s) \/ Abandon(s)
  BY HistoryMoves DEF GrantLedgerFreebet, LateGrant
<1> QED BY <1>1, <1>2, <1>3

LEMMA OrphansAreLost ==
    ASSUME TypesAndAuthors, PaymentsAreAccounted, [Next]_vars, NEW m \in orphans'
    PROVE  RewardFor(m) \subseteq lost'
<1>1. CASE m \in orphans
  BY <1>1, RowsAndLossesStay DEF PaymentsAreAccounted
<1>2. CASE m \notin orphans
  <2>1. PICK s \in Slots : GrantTimesOut(s)
    BY <1>2, HistoryMoves DEF GrantLedgerFreebet, Abandon, LateGrant
  <2>2. m = GrantOf(requests[s])
    BY <1>2, <2>1 DEF GrantTimesOut
  <2> QED BY <2>1, <2>2 DEF GrantTimesOut
<1> QED BY <1>1, <1>2

LEMMA NewPayments ==
    ASSUME TypesAndAuthors, PaymentsAreAccounted, [Next]_vars,
           NEW p \in payments', p \notin payments
    PROVE  \/ p \in lost'
           \/ \E s \in Slots : At(s, "record")' /\ p \in RewardFor(GrantOf(requests'[s]))
<1>1. ASSUME NEW s \in Slots, GrantLedgerFreebet(s)
      PROVE  At(s, "record")' /\ p \in RewardFor(GrantOf(requests'[s]))
  <2>1. /\ At(s, "grant") /\ GoOn(s, "record")
        /\ p \in RewardFor(GrantOf(requests[s]))
    BY <1>1 DEF GrantLedgerFreebet, Executes
  <2>2. requests \in [Slots -> AllRequests] /\ requests[s] \in XRequests \cup ReferralRequests
    BY <2>1 DEF At, TypesAndAuthors, RewardsTypeOK, AllRequests
  <2> DEFINE r == [requests[s] EXCEPT !.step = "record"]
  <2>3. r \in XRequests \cup ReferralRequests /\ r.step = "record"
    BY <2>2 DEF XRequests, ReferralRequests
  <2>4. GrantOf(r) = GrantOf(requests[s])
    BY <2>2 DEF GrantOf, XGrantId, ReferralGrantId, XRequests, ReferralRequests
  <2>5. requests'[s] = r
    BY <2>1, <2>2 DEF GoOn
  <2> HIDE DEF r
  <2> QED BY <2>1, <2>3, <2>4, <2>5, NoRequestAssumption DEF At
<1>2. ASSUME NEW m \in orphans, LateGrant(m) PROVE p \in lost'
  BY <1>2 DEF LateGrant, Executes, PaymentsAreAccounted
<1> QED BY <1>1, <1>2, HistoryMoves DEF GrantTimesOut, Abandon

LEMMA OldPayments ==
    ASSUME TypesAndAuthors, PaymentsAreAccounted, [Next]_vars, NEW p \in payments
    PROVE  \/ p \in referral_rewards' \cup lost'
           \/ \E s \in Slots : At(s, "record")' /\ p \in RewardFor(GrantOf(requests'[s]))
<1>1. CASE p \in referral_rewards \cup lost
  BY <1>1, RowsAndLossesStay DEF PaymentsAreAccounted
<1>2. ASSUME NEW s \in Slots, At(s, "record"), p \in RewardFor(GrantOf(requests[s])),
             requests'[s] # requests[s]
      PROVE  p \in referral_rewards' \cup lost'
  <2>1. requests[s] \in XRequests \cup ReferralRequests
    BY <1>2 DEF At, TypesAndAuthors, RewardsTypeOK
  <2>2. /\ requests[s].kind = "ref"
        /\ p = [referrer |-> requests[s].referrer, friend |-> requests[s].friend,
                week |-> requests[s].week]
    BY <1>2, <2>1, RewardOfRequest
  <2>3. CASE MarkPaid(s)
    BY <2>2, <2>3 DEF MarkPaid
  <2>4. CASE RecordReferralReward(s)
    BY <2>2, <2>4 DEF RecordReferralReward
  <2>5. CASE Abandon(s)
    BY <1>2, <2>5 DEF Abandon
  <2> QED BY <1>2, <2>3, <2>4, <2>5, RecordEnds
<1>3. ASSUME NEW s \in Slots, At(s, "record"), p \in RewardFor(GrantOf(requests[s])),
             requests'[s] = requests[s]
      PROVE  At(s, "record")' /\ p \in RewardFor(GrantOf(requests'[s]))
  BY <1>3 DEF At
<1> QED BY <1>1, <1>2, <1>3 DEF PaymentsAreAccounted

LEMMA PaymentsAreAccountedStep ==
    ASSUME TypesAndAuthors, PaymentsAreAccounted, [Next]_vars
    PROVE  PaymentsAreAccounted'
<1>1. IsFiniteSet(lost')
  BY RowsAndLossesStay DEF PaymentsAreAccounted
<1>2. \A m \in orphans' : RewardFor(m) \subseteq lost'
  BY OrphansAreLost
<1>3. \A p \in payments' :
          \/ p \in referral_rewards' \cup lost'
          \/ \E s \in Slots : At(s, "record")' /\ p \in RewardFor(GrantOf(requests'[s]))
  BY OldPayments, NewPayments
<1> QED BY <1>1, <1>2, <1>3 DEF PaymentsAreAccounted

----------------------------------------------------------------------------
(* The inductive invariant and what follows                                *)

LEMMA RewardsIInvInit == Init => RewardsIInv
<1> SUFFICES ASSUME Init PROVE RewardsIInv
  OBVIOUS
<1>1. RewardsTypeOK /\ AuthorsAreKnown
  BY TypesInit DEF TypesAndAuthors
<1>2. RowsAreUnique /\ RequestsKeepReferrals /\ RequestsAreBacked /\ MessagesAreBacked
      /\ TablesAreCredited
  BY DEF Init, RowsAreUnique, RequestsKeepReferrals, RequestsAreBacked, MessagesAreBacked,
         TablesAreCredited, At
<1>3. GrantsAreBacked
  BY DEF Init, GrantsAreBacked, Granted
<1>4. PaymentsAreAccounted
  BY FS_EmptySet DEF Init, PaymentsAreAccounted
<1> QED BY <1>1, <1>2, <1>3, <1>4, CapInit DEF RewardsIInv

(* Whatever requests run at once, are lost, die or are executed late, the  *)
(* tables, the requests and the ledger tell one story: every grant in the  *)
(* ledger or on its way has the row or the referral it is for.             *)
THEOREM RewardsInvariant == Spec => []RewardsIInv
<1>1. RewardsIInv /\ [Next]_vars => RewardsIInv'
  <2> SUFFICES ASSUME RewardsIInv, [Next]_vars PROVE RewardsIInv'
    OBVIOUS
  <2>1. TypesAndAuthors /\ GrantsFollowTables /\ RowsAreUnique /\ CapWithRequests
        /\ PaymentsAreAccounted
    BY DEF RewardsIInv, TypesAndAuthors, GrantsFollowTables
  <2>2. TypesAndAuthors'
    BY <2>1, TypesStep
  <2>3. GrantsFollowTables'
    BY <2>1, GrantsFollowTablesStep
  <2>4. RowsAreUnique'
    BY <2>1, RowsAreUniqueStep
  <2>5. CapWithRequests'
    BY <2>1, CapStep
  <2>6. PaymentsAreAccounted'
    BY <2>1, PaymentsAreAccountedStep
  <2> QED BY <2>2, <2>3, <2>4, <2>5, <2>6 DEF RewardsIInv, TypesAndAuthors, GrantsFollowTables
<1> QED BY <1>1, RewardsIInvInit, PTL DEF Spec

(* Weeks, rows, referrals, requests and the ledger's credit keep their     *)
(* types: in particular a row never has an account X did not confirm.      *)
THEOREM RewardsTypes == Spec => []RewardsTypeOK
<1>1. RewardsIInv => RewardsTypeOK
  BY DEF RewardsIInv
<1> QED BY <1>1, RewardsInvariant, PTL

(* One X account is paid once per task and week and once per post,         *)
(* whatever wallets, requests, crashes, late and manual grants there are.  *)
THEOREM XAccountsArePaidOnce == Spec => []OneRewardPerXAccount
<1>1. RewardsIInv => OneRewardPerXAccount
  <2> SUFFICES ASSUME RewardsIInv PROVE OneRewardPerXAccount
    OBVIOUS
  <2>1. ASSUME NEW w \in Wallets, NEW t \in Tasks, NEW k \in Weeks, Granted(<<"x", k, w, t>>)
        PROVE  \E row \in submissions : row.wallet = w /\ row.task = t /\ row.week = k
    <3>1. Backed(<<"x", k, w, t>>)
      BY <2>1, XIds DEF RewardsIInv, GrantsAreBacked
    <3>2. PICK row \in submissions : XGrantId(row) = <<"x", k, w, t>>
      BY <3>1 DEF Backed
    <3> QED BY <3>2 DEF XGrantId
  <2> QED BY <2>1 DEF OneRewardPerXAccount, RewardsIInv, RowsAreUnique
<1> QED BY <1>1, RewardsInvariant, PTL

(* What the tables call paid is in the ledger, for that wallet and amount, *)
(* and a friend pays off for no other referrer than the table's.           *)
THEOREM PaidRowsAreCredited == Spec => []PaidIsCredited
<1>1. RewardsIInv => PaidIsCredited
  <2> SUFFICES ASSUME RewardsIInv PROVE PaidIsCredited
    OBVIOUS
  <2>1. ASSUME NEW row \in submissions, row.status = "paid"
        PROVE  grants[XGrantId(row)] = [recipient |-> row.wallet, amount |-> XAmount[row.task]]
    <3>1. row.week \in Weeks /\ row.wallet \in Wallets /\ row.task \in Tasks
      BY DEF RewardsIInv, RewardsTypeOK, Rows
    <3>2. CreditOf(XGrantId(row)) = [recipient |-> row.wallet, amount |-> XAmount[row.task]]
      BY <3>1, XIds DEF XGrantId
    <3> QED BY <2>1, <3>2 DEF RewardsIInv, TablesAreCredited
  <2>2. ASSUME NEW row \in referral_rewards
        PROVE  grants[ReferralGrantId(row)] = [recipient |-> row.referrer, amount |-> ReferralAmount]
    <3>1. row.referrer \in Wallets /\ row.friend \in Wallets
      BY DEF RewardsIInv, RewardsTypeOK, RewardRows
    <3>2. CreditOf(ReferralGrantId(row)) = [recipient |-> row.referrer, amount |-> ReferralAmount]
      BY <3>1, ReferralIds DEF ReferralGrantId
    <3> QED BY <3>2 DEF RewardsIInv, TablesAreCredited
  <2>3. ASSUME NEW referrer \in Wallets, NEW friend \in Wallets, Granted(<<"ref", referrer, friend>>)
        PROVE  referrals[friend] = referrer
    <3>1. Backed(<<"ref", referrer, friend>>)
      BY <2>3, ReferralIds DEF RewardsIInv, GrantsAreBacked
    <3> QED BY <3>1 DEF Backed
  <2> QED BY <2>1, <2>2, <2>3 DEF PaidIsCredited
<1> QED BY <1>1, RewardsInvariant, PTL

(* However many requests pass the check of the weekly cap at once, and     *)
(* whatever is lost between a payment and its row, the ledger pays a       *)
(* referrer in a week less than the cap, the requests at once and the      *)
(* payments with a lost row together: a payment is a row already saved, or *)
(* that of a request that passed the check, or lost, and each request that *)
(* passed counts against the cap together with the rows.                   *)
THEOREM CapIsMissedByRequestsAndLosses == Spec => []ReferralCapHolds
<1>1. RewardsIInv => ReferralCapHolds
  <2> SUFFICES ASSUME RewardsIInv, NEW referrer \in Wallets, NEW w \in Weeks
               PROVE  Cardinality({p \in payments : p.referrer = referrer /\ p.week = w})
                          < WeeklyCap + Cardinality(Slots)
                              + Cardinality({p \in payments \cap lost :
                                                p.referrer = referrer /\ p.week = w})
    BY DEF ReferralCapHolds
  <2> DEFINE paid == {p \in payments : p.referrer = referrer /\ p.week = w}
             unsaved == {p \in payments \cap lost : p.referrer = referrer /\ p.week = w}
             past == PastTheCheck(referrer, w)
             rowOf == [s \in past |-> [referrer |-> referrer, friend |-> requests[s].friend, week |-> w]]
             coming == {rowOf[s] : s \in past}
  <2>1. CapWithRequests /\ PaymentsAreAccounted
    BY DEF RewardsIInv
  <2>2. paid \subseteq (RewardsOf(referrer, w) \cup coming) \cup unsaved
    <3> SUFFICES ASSUME NEW p \in paid, p \notin referral_rewards, p \notin lost
                 PROVE  p \in coming
      BY DEF RewardsOf
    <3>1. PICK s \in Slots : At(s, "record") /\ p \in RewardFor(GrantOf(requests[s]))
      BY <2>1 DEF PaymentsAreAccounted
    <3>2. requests[s] \in XRequests \cup ReferralRequests
      BY <3>1 DEF RewardsIInv, RewardsTypeOK, At
    <3>3. /\ requests[s].kind = "ref"
          /\ p = [referrer |-> requests[s].referrer, friend |-> requests[s].friend,
                  week |-> requests[s].week]
      BY <3>1, <3>2, RewardOfRequest
    <3>4. requests[s].referrer = referrer /\ requests[s].week = w
      BY <3>3
    <3>5. s \in past
      BY <3>1, <3>3, <3>4 DEF PastTheCheck
    <3> QED BY <3>3, <3>4, <3>5
  <2>3. /\ IsFiniteSet(past) /\ IsFiniteSet(RewardsOf(referrer, w))
        /\ WeeklyPaid(referrer, w) = Cardinality(RewardsOf(referrer, w))
    BY <2>1, CapSets
  <2>4. IsFiniteSet(unsaved)
    BY <2>1, FS_Subset DEF PaymentsAreAccounted
  <2>5. IsFiniteSet(coming) /\ Cardinality(coming) <= Cardinality(past)
    <3>1. rowOf \in Surjection(past, coming)
      BY DEF Surjection
    <3> QED BY <2>3, <3>1, FS_Surjection
  <2> HIDE DEF paid, unsaved, past, rowOf, coming
  <2>6. /\ IsFiniteSet(RewardsOf(referrer, w) \cup coming)
        /\ Cardinality(RewardsOf(referrer, w) \cup coming)
              <= Cardinality(RewardsOf(referrer, w)) + Cardinality(coming)
    BY <2>3, <2>5, UnionIsNoLarger
  <2>7. /\ IsFiniteSet((RewardsOf(referrer, w) \cup coming) \cup unsaved)
        /\ Cardinality((RewardsOf(referrer, w) \cup coming) \cup unsaved)
              <= Cardinality(RewardsOf(referrer, w) \cup coming) + Cardinality(unsaved)
    BY <2>4, <2>6, UnionIsNoLarger
  <2>8. /\ IsFiniteSet(paid)
        /\ Cardinality(paid) <= Cardinality((RewardsOf(referrer, w) \cup coming) \cup unsaved)
    BY <2>2, <2>7, FS_Subset
  <2>9. WeeklyPaid(referrer, w) + Cardinality(past) <= WeeklyCap - 1 + Cardinality(Slots)
    BY <2>1 DEF CapWithRequests, past
  <2>10. /\ Cardinality(paid) \in Nat /\ Cardinality(unsaved) \in Nat /\ Cardinality(past) \in Nat
         /\ Cardinality(coming) \in Nat /\ Cardinality(RewardsOf(referrer, w)) \in Nat
         /\ Cardinality(RewardsOf(referrer, w) \cup coming) \in Nat
         /\ Cardinality((RewardsOf(referrer, w) \cup coming) \cup unsaved) \in Nat
         /\ Cardinality(Slots) \in Nat /\ WeeklyCap \in Nat
    BY <2>3, <2>4, <2>5, <2>6, <2>7, <2>8, RewardsAssumption, FS_CardinalityType
  <2>11. Cardinality(paid) < WeeklyCap + Cardinality(Slots) + Cardinality(unsaved)
    BY <2>3, <2>5, <2>6, <2>7, <2>8, <2>9, <2>10
  <2> QED BY <2>11 DEF paid, unsaved
<1> QED BY <1>1, RewardsInvariant, PTL
=============================================================================
