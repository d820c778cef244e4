------------------------------ MODULE Vouchers ------------------------------
(***************************************************************************)
(* The voucher backend: it pays the gas of its users by vouchers, funding  *)
(* one tranche per wallet and interval, and revokes vouchers that expired. *)
(*                                                                         *)
(* Requests and the hourly cron, in any number of pods, run between awaits *)
(* of the database and the chain.  They serialize per wallet by a lock     *)
(* that Postgres drops when its connection dies or idles for 120 seconds,  *)
(* which a chain call (up to 180 seconds) can outlast; the handler goes on.*)
(* A transaction whose answer nobody waits for any more may still land.    *)
(*                                                                         *)
(* The chain's vouchers are modelled from how the service uses them.  The  *)
(* issuer's lock and the retry of an outdated transaction make a send      *)
(* atomic; the whitelist, the issuer's balance and answers to clients only *)
(* refuse or report and are left out.                                      *)
(***************************************************************************)
EXTENDS Integers, FiniteSets, Sequences

CONSTANTS
    Wallets, Ips, Programs,
    OneTime,            \* programs a voucher is given for once
    Interval,           \* trancheIntervalSec
    Duration,           \* trancheDurationSec, within the chain's bounds
    Ceiling,            \* perIpTranchesPerDay
    DayLength,
    MaxTime,            \* bound: time
    MaxLag,             \* bound: how late the chain's blocks may be
    VoucherIds,         \* bound: vouchers, numbered
    Slots,              \* bound: handlers at once
    MaxUsage,           \* bound: reservations counted per address and day
    MaxFundings,        \* bound: tranches paid
    MaxFaults,          \* bound: locks lost, saves and answers missed
    Free, NoRow, NoVoucher, NoHandler

\* configuration.ts refuses a duration below the interval.
ASSUME VoucherAssumption ==
    /\ Interval \in Nat \ {0} /\ Duration \in Nat /\ Duration >= Interval
    /\ Ceiling \in Nat \ {0} /\ DayLength \in Nat \ {0}
    /\ MaxTime \in Nat /\ MaxLag \in Nat /\ MaxFaults \in Nat
    /\ OneTime \subseteq Programs /\ VoucherIds \subseteq Nat /\ Ips # {}
    /\ Free \notin Slots /\ IsFiniteSet(VoucherIds) /\ IsFiniteSet(Slots)

VARIABLES
    now, lag,           \* Date.now(), and how far the blocks are behind it
    chain,              \* voucher -> its expiry, in blocks, and how it ended
    rows,               \* table voucher
    usage,              \* table ip_tranche_usage
    locks,              \* wallet -> who holds its advisory lock
    handlers,           \* requests and revocations under way
    orphans,            \* transactions sent whose answer nobody waits for
    fundings,           \* history: tranches paid, in order
    unsaved,            \* history: wallets with an outcome the tables never saw
    unlocked,           \* history: wallets whose lock was lost
    faults              \* history: locks lost, saves and answers missed

tables == <<rows, usage>>
clock == <<now, lag>>
history == <<unsaved, unlocked, faults>>
vars == <<clock, chain, tables, locks, handlers, orphans, fundings, history>>

Time == 0..MaxTime
Days == 0..(MaxTime \div DayLength)
today == now \div DayLength
block == now - lag

OnChain == [expiry : Nat, revoked : BOOLEAN]
RowRecords ==
    [account : Wallets, programs : SUBSET Programs, validUpTo : Nat, validUpToBlock : Nat,
     lastRenewedAt : Time, revoked : BOOLEAN]

\* existing is the entity a handler holds: it was read under the lock, is
\* changed in memory and saved as a whole.  day: of the reservation.  window:
\* the wallet's interval is not over.
Handlers ==
    [step : {"lock", "branch", "issue", "update", "append", "replace", "retire",
             "insert", "renew", "widen", "revoke", "mark", "sync"},
     wallet : Wallets, ip : Ips, day : Days, programs : SUBSET Programs,
     id : VoucherIds \cup {NoVoucher}, existing : RowRecords \cup {NoRow},
     window : BOOLEAN, cron : BOOLEAN]

Orphans ==
    [step : {"issue", "update", "revoke"}, wallet : Wallets, ip : Ips, day : Days,
     id : VoucherIds \cup {NoVoucher}, prolong : 0..Duration]

\* The markers are not what they stand in for.
ASSUME VoucherMarkers ==
    /\ NoVoucher \notin OnChain \cup VoucherIds
    /\ NoRow \notin RowRecords /\ NoHandler \notin Handlers

(* The data of the service, its tables and the chain's vouchers.           *)
VoucherTypeOK ==
    /\ now \in Time /\ lag \in 0..MaxLag
    /\ chain \in [VoucherIds -> OnChain \cup {NoVoucher}]
    /\ rows \in [VoucherIds -> RowRecords \cup {NoRow}]
    /\ \A v \in VoucherIds : rows[v] # NoRow => chain[v] # NoVoucher
    /\ usage \in [Ips \X Days -> Nat]
    /\ locks \in [Wallets -> Slots \cup {Free}]
    /\ handlers \in [Slots -> Handlers \cup {NoHandler}]
    /\ orphans \subseteq Orphans
    /\ fundings \in Seq([wallet : Wallets, at : Time, ip : Ips, day : Days])
    /\ unsaved \subseteq Wallets /\ unlocked \subseteq Wallets /\ faults \in 0..MaxFaults

Init ==
    /\ now = 0 /\ lag = 0
    /\ chain = [v \in VoucherIds |-> NoVoucher]
    /\ rows = [v \in VoucherIds |-> NoRow]
    /\ usage = [c \in Ips \X Days |-> 0]
    /\ locks = [w \in Wallets |-> Free]
    /\ handlers = [s \in Slots |-> NoHandler]
    /\ orphans = {} /\ fundings = <<>>
    /\ unsaved = {} /\ unlocked = {} /\ faults = 0

Maximum(a, b) == IF a > b THEN a ELSE b

At(s, step) == handlers[s] # NoHandler /\ handlers[s].step = step
GoOn(s, step) == handlers' = [handlers EXCEPT ![s].step = step]

\* The transaction that holds the lock ends, however the handler does.
Ends(s) ==
    /\ handlers' = [handlers EXCEPT ![s] = NoHandler]
    /\ locks' = [w \in Wallets |-> IF locks[w] = s THEN Free ELSE locks[w]]

Fault == faults < MaxFaults /\ faults' = faults + 1

Missing(h) == h.programs \ h.existing.programs

----------------------------------------------------------------------------
(* withAdvisoryLock and the reads that open the function it runs *)

Begin(s, w, ip, programs, v, cron) ==
    /\ handlers[s] = NoHandler
    /\ handlers' = [handlers EXCEPT ![s] =
          [step |-> "lock", wallet |-> w, ip |-> ip, day |-> 0, programs |-> programs,
           id |-> v, existing |-> NoRow, window |-> FALSE, cron |-> cron]]
    /\ UNCHANGED <<clock, chain, tables, locks, orphans, fundings, history>>

RequestVoucher(s, w, ip, programs) == Begin(s, w, ip, programs, NoVoucher, FALSE)

Expired(v) == rows[v] # NoRow /\ ~rows[v].revoked /\ rows[v].validUpTo < now

\* The sweep picks a row; which address it asks from does not matter.
RevokeExpiredVoucher(s, v) ==
    /\ Expired(v)
    /\ Begin(s, rows[v].account, CHOOSE ip \in Ips : TRUE, {}, v, TRUE)

LiveRows(w) == {v \in VoucherIds : rows[v] # NoRow /\ rows[v].account = w /\ ~rows[v].revoked}

Lock_Bug(s) == locks' = locks

Lock(s) ==
    /\ locks[handlers[s].wallet] = Free
    /\ locks' = [locks EXCEPT ![handlers[s].wallet] = s]

\* getVoucher: any row that is not revoked.
GetVoucher(s) ==
    /\ At(s, "lock") /\ ~handlers[s].cron
    /\ Lock(s)
    /\ LET live == LiveRows(handlers[s].wallet)
       IN  \/ /\ live = {}
              /\ GoOn(s, "branch")
           \/ \E v \in live :
                /\ handlers[s].programs \cap OneTime \cap rows[v].programs = {}
                /\ handlers' = [handlers EXCEPT
                      ![s].step = "branch", ![s].id = v, ![s].existing = rows[v]]
    /\ UNCHANGED <<clock, chain, tables, orphans, fundings, history>>

StillExpired_Bug(v) == TRUE

StillExpired(v) == Expired(v)

RevokeWithLock(s) ==
    LET v == handlers[s].id
    IN  /\ At(s, "lock") /\ handlers[s].cron
        /\ StillExpired(v)
        /\ Lock(s)
        /\ handlers' = [handlers EXCEPT ![s].step = "revoke", ![s].existing = rows[v]]
        /\ UNCHANGED <<clock, chain, tables, orphans, fundings, history>>

\* Postgres drops the lock of a handler that goes on.
LoseLock(w) ==
    /\ locks[w] # Free
    /\ Fault
    /\ locks' = [locks EXCEPT ![w] = Free]
    /\ unlocked' = unlocked \cup {w}
    /\ UNCHANGED <<clock, chain, tables, handlers, orphans, fundings, unsaved>>

\* A refusal, an error that is not handled, a save that fails for good, a
\* pod that dies: the handler ends here, its transaction, if any, has landed.
Abandon(s) ==
    /\ handlers[s] # NoHandler
    /\ Ends(s)
    /\ IF handlers[s].step \in {"insert", "renew"}
       THEN Fault /\ unsaved' = unsaved \cup {handlers[s].wallet}
       ELSE UNCHANGED <<unsaved, faults>>
    /\ UNCHANGED <<clock, chain, tables, orphans, fundings, unlocked>>

----------------------------------------------------------------------------
(* requestVoucher *)

CountAllows_Bug(count) == count <= Ceiling + 1

CountAllows(count) == count <= Ceiling

Reserve_Bug(s, step) ==
    LET key == <<handlers[s].ip, today>>
    IN  /\ usage[key] < MaxUsage
        /\ usage' = [usage EXCEPT ![key] = @ + 1]
        /\ CountAllows(usage'[key])
        /\ handlers' = [handlers EXCEPT ![s].step = step, ![s].day = now]
        /\ UNCHANGED locks

\* reserveIpTrancheCount: counted whether it is allowed or not, never refunded.
Reserve(s, step) ==
    LET key == <<handlers[s].ip, today>>
    IN  /\ usage[key] < MaxUsage
        /\ usage' = [usage EXCEPT ![key] = @ + 1]
        /\ CountAllows(usage'[key])
        /\ handlers' = [handlers EXCEPT ![s].step = step, ![s].day = today]
        /\ UNCHANGED locks

OverCeiling(s) ==
    LET key == <<handlers[s].ip, today>>
    IN  /\ usage[key] < MaxUsage
        /\ usage' = [usage EXCEPT ![key] = @ + 1]
        /\ ~CountAllows(usage'[key])

\* The first voucher (a), a top-up when the interval is over (b), programs
\* added for free within it (c) or when the address is over its ceiling.
Branch(s) ==
    LET h == handlers[s]
        due == h.existing.lastRenewedAt <= now - Interval
        widens == Missing(h) # {} /\ GoOn(s, "append") /\ UNCHANGED locks
    IN  /\ At(s, "branch")
        /\ \/ h.existing = NoRow /\ Reserve(s, "issue")
           \/ h.existing = NoRow /\ OverCeiling(s) /\ Ends(s)
           \/ h.existing # NoRow /\ due /\ Reserve(s, "update")
           \/ /\ h.existing # NoRow /\ due /\ OverCeiling(s)
              /\ IF Missing(h) = {} THEN Ends(s) ELSE widens
           \/ /\ h.existing # NoRow /\ ~due /\ Missing(h) # {}
              /\ handlers' = [handlers EXCEPT ![s].step = "append", ![s].window = TRUE]
              /\ UNCHANGED <<usage, locks>>
        /\ UNCHANGED <<clock, chain, rows, orphans, fundings, history>>

\* A voucher the chain no longer has is marked as revoked and replaced; the
\* reservation of a top-up serves for that too.
Replace(s) ==
    /\ At(s, "replace")
    /\ Reserve(s, "issue") \/ (OverCeiling(s) /\ Ends(s))
    /\ UNCHANGED <<clock, chain, rows, orphans, fundings, history>>

----------------------------------------------------------------------------
(* The chain *)

Gone(v) == chain[v].revoked

Pay(m) ==
    /\ Len(fundings) < MaxFundings
    /\ fundings' = Append(fundings, [wallet |-> m.wallet, at |-> now, ip |-> m.ip, day |-> m.day])

ChainIssues(m, v) ==
    /\ chain[v] = NoVoucher /\ \A u \in VoucherIds : u < v => chain[u] # NoVoucher
    /\ chain' = [chain EXCEPT ![v] = [expiry |-> block + Duration, revoked |-> FALSE]]
    /\ Pay(m)

\* How many blocks update asks for, given the row it holds.
Prolongation(e) == Maximum(0, Duration - Maximum(0, e.validUpToBlock - block))

ChainUpdates(m, v, prolong) ==
    /\ ~Gone(v)
    /\ chain' = [chain EXCEPT ![v].expiry =
          IF prolong = 0 THEN @ ELSE Maximum(@, block) + prolong]
    /\ Pay(m)

\* A voucher that is valid is "irrevocable yet".
ChainRevokes(v) ==
    /\ ~Gone(v) /\ block >= chain[v].expiry
    /\ chain' = [chain EXCEPT ![v].revoked = TRUE]

NewRow(h) ==
    [account |-> h.wallet, programs |-> h.programs, validUpTo |-> now + Duration,
     validUpToBlock |-> block + Duration, lastRenewedAt |-> now, revoked |-> FALSE]

\* validUpTo moves only with validUpToBlock.
Renewed(h) ==
    LET e == h.existing
        prolonged == block + Duration > e.validUpToBlock
    IN  [e EXCEPT !.programs = @ \cup h.programs, !.lastRenewedAt = now,
                  !.validUpToBlock = IF prolonged THEN block + Duration ELSE @,
                  !.validUpTo = IF prolonged THEN now + Duration ELSE @]

Issue(s) ==
    /\ At(s, "issue")
    /\ \E v \in VoucherIds :
          /\ ChainIssues(handlers[s], v)
          /\ handlers' = [handlers EXCEPT
                ![s].step = "insert", ![s].id = v, ![s].existing = NewRow(handlers[s])]
    /\ UNCHANGED <<clock, tables, locks, orphans, history>>

Update(s) ==
    LET h == handlers[s]
    IN  /\ At(s, "update")
        /\ ChainUpdates(h, h.id, Prolongation(h.existing))
        /\ handlers' = [handlers EXCEPT ![s].step = "renew", ![s].existing = Renewed(h)]
        /\ UNCHANGED <<clock, tables, locks, orphans, history>>

AppendProgramsFreeOfCharge(s) ==
    LET h == handlers[s]
    IN  /\ At(s, "append")
        /\ ~Gone(h.id)
        /\ handlers' = [handlers EXCEPT
              ![s].step = "widen", ![s].existing.programs = @ \cup h.programs]
        /\ UNCHANGED <<clock, chain, tables, locks, orphans, fundings, history>>

\* isStaleOnChainVoucherError: the chain refuses, for it has no such voucher
\* or an expired one.  The append of branch (b) lets the error pass.
StaleOnChain(s) ==
    LET h == handlers[s]
    IN  /\ At(s, "update") \/ (At(s, "append") /\ h.window)
        /\ Gone(h.id) \/ block >= chain[h.id].expiry
        /\ GoOn(s, "retire")
        /\ UNCHANGED <<clock, chain, tables, locks, orphans, fundings, history>>

\* revoke: done, refused for now, or failed in any other way, which counts as
\* done ("db_only").
Revoke(s) ==
    LET v == handlers[s].id
    IN  /\ At(s, "revoke")
        /\ \/ ChainRevokes(v) /\ GoOn(s, "mark")
           \/ /\ ~Gone(v) /\ block < chain[v].expiry
              /\ GoOn(s, "sync") /\ UNCHANGED chain
           \/ GoOn(s, "mark") /\ UNCHANGED chain
        /\ UNCHANGED <<clock, tables, locks, orphans, fundings, history>>

OrphanOf(h) ==
    [step |-> h.step, wallet |-> h.wallet, ip |-> h.ip, day |-> h.day, id |-> h.id,
     prolong |-> IF h.step = "update" THEN Prolongation(h.existing) ELSE 0]

\* "transaction may or may not have landed"
SendTimesOut(s) ==
    LET h == handlers[s]
    IN  /\ At(s, "issue") \/ At(s, "update") \/ At(s, "revoke")
        /\ Fault
        /\ orphans' = orphans \cup {OrphanOf(h)}
        /\ IF h.cron THEN GoOn(s, "mark") /\ UNCHANGED <<locks, unsaved>>
           ELSE Ends(s) /\ unsaved' = unsaved \cup {h.wallet}
        /\ UNCHANGED <<clock, chain, tables, fundings, unlocked>>

LandsLate(o) ==
    /\ o \in orphans
    /\ \/ o.step = "issue" /\ \E v \in VoucherIds : ChainIssues(o, v)
       \/ o.step = "update" /\ ChainUpdates(o, o.id, o.prolong)
       \/ o.step = "revoke" /\ ChainRevokes(o.id) /\ UNCHANGED fundings
    /\ orphans' = orphans \ {o}
    /\ UNCHANGED <<clock, tables, locks, handlers, history>>

----------------------------------------------------------------------------
(* What is saved once the chain has answered *)

SaveRow(s, row) == rows' = [rows EXCEPT ![handlers[s].id] = row]

Save(s) ==
    /\ At(s, "insert") \/ At(s, "renew") \/ At(s, "widen")
    /\ SaveRow(s, handlers[s].existing)
    /\ Ends(s)
    /\ UNCHANGED <<clock, chain, usage, orphans, fundings, history>>

\* markRevokedLocally, and the end of revoke
MarkRevoked(s) ==
    /\ \/ At(s, "mark") /\ Ends(s)
       \/ /\ At(s, "retire")
          /\ GoOn(s, IF handlers[s].window THEN "replace" ELSE "issue")
          /\ UNCHANGED locks
    /\ SaveRow(s, [handlers[s].existing EXCEPT !.revoked = TRUE])
    /\ UNCHANGED <<clock, chain, usage, orphans, fundings, history>>

SyncVoucherValidityFromChain(s) ==
    LET h == handlers[s]
    IN  /\ At(s, "sync")
        /\ ~Gone(h.id)
        /\ SaveRow(s, [h.existing EXCEPT
              !.validUpToBlock = chain[h.id].expiry,
              !.validUpTo = now + Maximum(1, chain[h.id].expiry - block)])
        /\ Ends(s)
        /\ UNCHANGED <<clock, chain, usage, orphans, fundings, history>>

Tick ==
    /\ now < MaxTime
    /\ now' = now + 1
    /\ lag' \in {lag, lag + 1} /\ lag' <= MaxLag
    /\ UNCHANGED <<chain, tables, locks, handlers, orphans, fundings, history>>

RequestStep ==
    \E s \in Slots :
        \/ \E w \in Wallets, ip \in Ips, programs \in (SUBSET Programs) \ {{}} :
              RequestVoucher(s, w, ip, programs)
        \/ GetVoucher(s) \/ Branch(s) \/ Replace(s)
        \/ Issue(s) \/ Update(s) \/ AppendProgramsFreeOfCharge(s) \/ StaleOnChain(s)
        \/ Save(s)

CronStep ==
    \E s \in Slots :
        \/ \E v \in VoucherIds : RevokeExpiredVoucher(s, v)
        \/ RevokeWithLock(s) \/ Revoke(s) \/ SyncVoucherValidityFromChain(s)

FaultStep ==
    \/ \E s \in Slots : Abandon(s) \/ SendTimesOut(s)
    \/ \E o \in orphans : LandsLate(o)
    \/ \E w \in Wallets : LoseLock(w)

Next == RequestStep \/ CronStep \/ (\E s \in Slots : MarkRevoked(s)) \/ FaultStep \/ Tick

Spec == Init /\ [][Next]_vars

----------------------------------------------------------------------------
(* Properties *)

(* A wallet is paid one tranche per interval, whatever requests and crons  *)
(* run at once in whatever pods, unless a payment was not saved, nobody    *)
(* waited for its transaction, or the lock was lost.                       *)
TranchesAreSpaced ==
    \A i, j \in DOMAIN fundings :
        i < j /\ fundings[i].wallet = fundings[j].wallet
            /\ fundings[i].wallet \notin unsaved \cup unlocked
                => fundings[j].at - fundings[i].at >= Interval

(* The ceiling of an address and day bounds the tranches paid on their     *)
(* reservations, under any failure: a reservation pays once, a replacement *)
(* included, and is never handed back.                                     *)
CeilingHolds ==
    \A ip \in Ips, d \in Days :
        Cardinality({i \in DOMAIN fundings : fundings[i].ip = ip /\ fundings[i].day = d})
            <= Ceiling

(* getVoucher picks any row that is not revoked: there is never a choice,  *)
(* saves that fail and transactions that land late included, unless the    *)
(* lock was lost.                                                          *)
OneLiveRow == \A w \in Wallets \ unlocked : Cardinality(LiveRows(w)) <= 1

(* No tranche is taken away: a row is marked as revoked only after it has  *)
(* expired or when the chain has refused its voucher to a request; the     *)
(* cron never does it to a voucher renewed since it looked.                *)
RenewedStaysLive ==
    [][\A v \in VoucherIds :
          LET row == rows[v]
          IN  row # NoRow /\ ~row.revoked /\ rows'[v].revoked /\ row.account \notin unlocked
                  => \/ row.validUpTo < now
                     \/ \E s \in Slots : At(s, "retire") /\ handlers[s].id = v]_vars
=============================================================================
