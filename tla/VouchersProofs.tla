--------------------------- MODULE VouchersProofs ---------------------------
(***************************************************************************)
(* Proofs about the voucher backend: who holds a wallet's lock, what the   *)
(* rows and the chain's vouchers tell of each other, how tranches are      *)
(* spaced and how the reservations of an address bound what it is paid.    *)
(***************************************************************************)
EXTENDS Vouchers, FiniteSetTheorems, SequenceTheorems, TLAPS

Running(s) == handlers[s] # NoHandler
PastLock(s) == Running(s) /\ handlers[s].step # "lock"
WalletOf(s) == handlers[s].wallet

\* The handlers that may count on the lock: it was never lost.
Safe(s) == PastLock(s) /\ WalletOf(s) \notin unlocked

----------------------------------------------------------------------------
(* The parts of the inductive invariant                                    *)

VoucherTypes == VoucherTypeOK /\ lag <= now

\* What the fields of a handler say at its step.
HandlerShape(h) ==
    /\ h.cron => h.step \in {"lock", "revoke", "mark", "sync"}
    /\ ~h.cron => h.step \notin {"revoke", "mark", "sync"}
    /\ h.step \in {"update", "append", "retire", "insert", "renew", "widen", "revoke", "mark", "sync"}
           => h.existing # NoRow
    /\ h.step = "lock" => h.existing = NoRow
    /\ h.existing # NoRow =>
           ~h.existing.revoked /\ h.existing.account = h.wallet /\ h.id \in VoucherIds
    /\ h.cron => h.id \in VoucherIds

HandlersAreShaped == \A s \in Slots : Running(s) => HandlerShape(handlers[s])

\* A handler's voucher is on the chain; its row is of its wallet, or still to
\* be inserted by it alone.
IdsAreKnown ==
    \A s \in Slots :
        Running(s) /\ handlers[s].id \in VoucherIds =>
            LET v == handlers[s].id
            IN  /\ chain[v] # NoVoucher
                /\ handlers[s].step # "insert"
                      => rows[v] # NoRow /\ rows[v].account = WalletOf(s)
                /\ handlers[s].step = "insert" =>
                      /\ rows[v] = NoRow
                      /\ \A t \in Slots \ {s} : Running(t) => handlers[t].id # v

\* A payment nobody waits for is of a wallet whose outcome was not saved.
OrphansAreUnsaved ==
    \A o \in orphans :
        /\ o.step \in {"issue", "update"} => o.wallet \in unsaved
        /\ o.step \in {"update", "revoke"} => o.id \in VoucherIds /\ chain[o.id] # NoVoucher

\* A row, or the copy a handler holds, against the chain and the time.
Fits(e, v) ==
    /\ e.validUpToBlock <= chain[v].expiry
    /\ e.validUpTo >= e.validUpToBlock
    /\ e.validUpToBlock + lag >= e.lastRenewedAt + Duration
    /\ e.lastRenewedAt <= now

RowsFitTheChain ==
    /\ \A v \in VoucherIds : rows[v] # NoRow => Fits(rows[v], v)
    /\ \A s \in Slots :
          Running(s) /\ handlers[s].existing # NoRow => Fits(handlers[s].existing, handlers[s].id)
    /\ \A v \in VoucherIds :
          chain[v] # NoVoucher /\ chain[v].revoked => chain[v].expiry <= block

\* What was looked at before goes on being so: the interval is over for a
\* renewal and a replacement, the row has expired for the sweep.
LooksHold ==
    \A s \in Slots : PastLock(s) =>
        /\ handlers[s].step \in {"update", "retire"}
              => handlers[s].existing.lastRenewedAt + Interval <= now
        /\ handlers[s].cron => handlers[s].existing.validUpTo < now

LocksAreHeld ==
    /\ \A w \in Wallets : locks[w] # Free => PastLock(locks[w]) /\ WalletOf(locks[w]) = w
    /\ \A s \in Slots : Safe(s) => locks[WalletOf(s)] = s

\* What a handler under its lock knows of the rows of its wallet.
KnowsRows(s) ==
    LET h == handlers[s]
    IN  IF h.step \in {"issue", "insert", "replace"} \/ h.existing = NoRow
        THEN LiveRows(h.wallet) = {}
        ELSE LiveRows(h.wallet) \subseteq {h.id}

RowsAreKnown == \A s \in Slots : Safe(s) => KnowsRows(s)

AtMostOneLive ==
    \A w \in Wallets \ unlocked : \A u, v \in LiveRows(w) : u = v

\* The row a handler holds is the table's, or newer by what it will save.
HoldsRow(s) ==
    LET h == handlers[s]
    IN  h.existing # NoRow /\ h.step # "insert" =>
          IF h.step \in {"renew", "widen"} THEN rows[h.id].lastRenewedAt <= h.existing.lastRenewedAt
          ELSE h.step \in {"issue", "replace"} \/ h.existing = rows[h.id]

RowsAreFresh == \A s \in Slots : Safe(s) => HoldsRow(s)

Quiet == Wallets \ (unsaved \cup unlocked)

\* Every tranche of a wallet is known to a row of it or to the handler that
\* is about to save it.
Covered(f) ==
    \/ \E v \in VoucherIds :
          rows[v] # NoRow /\ rows[v].account = f.wallet /\ f.at <= rows[v].lastRenewedAt
    \/ \E s \in Slots :
          /\ Running(s) /\ handlers[s].step \in {"insert", "renew"}
          /\ WalletOf(s) = f.wallet /\ f.at <= handlers[s].existing.lastRenewedAt

FundingsAreCovered ==
    \A i \in DOMAIN fundings : fundings[i].wallet \in Quiet => Covered(fundings[i])

RevokedRowsAreOld ==
    \A v \in VoucherIds :
        rows[v] # NoRow /\ rows[v].revoked => rows[v].lastRenewedAt + Interval <= now

\* The reservations of an address and day that may still pay.
Paid(ip, d) == {i \in DOMAIN fundings : fundings[i].ip = ip /\ fundings[i].day = d}

ToPay(ip, d) ==
    {s \in Slots :
        /\ Running(s) /\ handlers[s].ip = ip /\ handlers[s].day = d
        /\ \/ handlers[s].step \in {"issue", "update"}
           \/ handlers[s].step = "retire" /\ ~handlers[s].window}

Sent(ip, d) == {o \in orphans : o.step \in {"issue", "update"} /\ o.ip = ip /\ o.day = d}

ReservationsCover ==
    /\ IsFiniteSet(orphans)
    /\ \A ip \in Ips, d \in Days :
          LET claims == Cardinality(Paid(ip, d)) + Cardinality(ToPay(ip, d)) + Cardinality(Sent(ip, d))
          IN  claims <= usage[<<ip, d>>] /\ claims <= Ceiling

----------------------------------------------------------------------------
(* Arithmetic and the moves of a handler                                   *)

LEMMA DivisionIsMonotone ==
    ASSUME NEW n \in Nat, NEW m \in Nat, n <= m, NEW d \in Nat \ {0}
    PROVE  n \div d \in 0..(m \div d)
<1>1. n \div d \in Nat /\ m \div d \in Nat
  OBVIOUS
<1>2. (n \div d) * d <= n
  OBVIOUS
<1>3. m < ((m \div d) + 1) * d
  OBVIOUS
<1>4. CASE n \div d > m \div d
  <2> DEFINE q == n \div d
             p == m \div d
  <2> HIDE DEF q, p
  <2>1. q \in Nat /\ p \in Nat /\ q >= p + 1 /\ q * d <= n /\ m < (p + 1) * d
    BY <1>1, <1>2, <1>3, <1>4 DEF q, p
  <2>2. q * d >= (p + 1) * d
    BY <2>1
  <2>3. q * d \in Nat /\ (p + 1) * d \in Nat
    BY <2>1
  <2> QED BY <2>1, <2>2, <2>3
<1> QED BY <1>1, <1>4

LEMMA TodayIsADay ==
    ASSUME VoucherTypes
    PROVE  today \in Days
<1>1. now \in Nat /\ now <= MaxTime /\ MaxTime \in Nat /\ DayLength \in Nat \ {0}
  BY VoucherAssumption DEF VoucherTypes, VoucherTypeOK, Time
<1> QED BY <1>1, DivisionIsMonotone DEF today, Days

LEMMA MaximumIsBound ==
    ASSUME NEW a \in Int, NEW b \in Int
    PROVE  Maximum(a, b) \in Int /\ Maximum(a, b) >= a /\ Maximum(a, b) >= b
           /\ (Maximum(a, b) = a \/ Maximum(a, b) = b)
  BY DEF Maximum

(* An update asks for no more than a tranche's duration, and for enough to *)
(* reach it from the block the row says.                                   *)
LEMMA ProlongationFacts ==
    ASSUME VoucherTypes, NEW e \in RowRecords
    PROVE  /\ Prolongation(e) \in 0..Duration
           /\ e.validUpToBlock >= block => Prolongation(e) >= Duration + block - e.validUpToBlock
           /\ e.validUpToBlock <= block => Prolongation(e) = Duration
<1>1. /\ block \in Int /\ e.validUpToBlock \in Nat /\ Duration \in Nat
  BY VoucherAssumption DEF VoucherTypes, VoucherTypeOK, Time, block, RowRecords
<1>2. Maximum(0, e.validUpToBlock - block)
        = IF e.validUpToBlock - block > 0 THEN e.validUpToBlock - block ELSE 0
  BY <1>1 DEF Maximum
<1> QED BY <1>1, <1>2 DEF Prolongation, Maximum

Basics == VoucherTypes /\ HandlersAreShaped /\ IdsAreKnown /\ OrphansAreUnsaved

\* What a handler never changes, and what most steps leave alone.
Keeps(s) ==
    /\ Running(s) /\ Running(s)' /\ handlers'[s] \in Handlers
    /\ handlers'[s].wallet = handlers[s].wallet /\ handlers'[s].ip = handlers[s].ip
    /\ handlers'[s].cron = handlers[s].cron
    /\ UNCHANGED clock

KeepsRow(s) ==
    /\ Keeps(s)
    /\ handlers'[s].id = handlers[s].id /\ handlers'[s].existing = handlers[s].existing

KeepsDay(s) ==
    handlers'[s].day = handlers[s].day /\ handlers'[s].window = handlers[s].window

\* The moves of a handler that goes on, by the step it leaves.
Starts(s) ==
    /\ handlers[s] = NoHandler /\ handlers'[s] \in Handlers
    /\ handlers'[s].step = "lock" /\ handlers'[s].existing = NoRow
    /\ \/ ~handlers'[s].cron /\ handlers'[s].id = NoVoucher
       \/ /\ handlers'[s].cron /\ handlers'[s].id \in VoucherIds
          /\ rows[handlers'[s].id] # NoRow /\ handlers'[s].wallet = rows[handlers'[s].id].account
    /\ UNCHANGED <<clock, chain, rows, locks>>

Enters(s) ==
    /\ Keeps(s) /\ handlers[s].step = "lock" /\ Lock(s) /\ UNCHANGED <<chain, rows>>
    /\ \/ /\ ~handlers[s].cron /\ handlers'[s].step = "branch" /\ KeepsRow(s)
          /\ LiveRows(WalletOf(s)) = {}
       \/ /\ ~handlers[s].cron /\ handlers'[s].step = "branch"
          /\ handlers'[s].id \in LiveRows(WalletOf(s))
          /\ handlers'[s].existing = rows[handlers'[s].id]
       \/ /\ handlers[s].cron /\ handlers'[s].step = "revoke"
          /\ handlers'[s].id = handlers[s].id /\ Expired(handlers[s].id)
          /\ handlers'[s].existing = rows[handlers[s].id]

Reserves(s) ==
    LET key == <<handlers[s].ip, today>>
    IN  /\ usage' = [usage EXCEPT ![key] = @ + 1] /\ usage'[key] <= Ceiling
        /\ UNCHANGED <<orphans, fundings>>

Decides(s) ==
    /\ KeepsRow(s) /\ handlers[s].step \in {"branch", "replace"}
    /\ UNCHANGED <<chain, rows, locks>>
    /\ \/ /\ handlers[s].existing = NoRow \/ handlers[s].step = "replace"
          /\ handlers'[s].step = "issue" /\ handlers'[s].day = today /\ Reserves(s)
       \/ /\ handlers[s].step = "branch" /\ handlers[s].existing # NoRow
          /\ handlers[s].existing.lastRenewedAt <= now - Interval
          /\ handlers'[s].step = "update" /\ handlers'[s].day = today /\ Reserves(s)
          /\ handlers'[s].window = handlers[s].window
       \/ /\ handlers[s].step = "branch" /\ handlers[s].existing # NoRow
          /\ handlers'[s].step = "append"

Pays(s) ==
    /\ Keeps(s) /\ UNCHANGED <<rows, locks>>
    /\ \/ /\ handlers[s].step = "issue" /\ handlers'[s].step = "insert"
          /\ handlers'[s].id \in VoucherIds /\ chain[handlers'[s].id] = NoVoucher
          /\ chain' = [chain EXCEPT ![handlers'[s].id] = [expiry |-> block + Duration, revoked |-> FALSE]]
          /\ handlers'[s].existing = NewRow(handlers[s])
       \/ /\ handlers[s].step = "update" /\ handlers'[s].step = "renew"
          /\ handlers'[s].id = handlers[s].id /\ handlers'[s].existing = Renewed(handlers[s])
          /\ ChainUpdates(handlers[s], handlers[s].id, Prolongation(handlers[s].existing))

Widens(s) ==
    /\ Keeps(s) /\ handlers[s].step = "append" /\ handlers'[s].step = "widen"
    /\ handlers'[s].id = handlers[s].id
    /\ handlers'[s].existing
          = [handlers[s].existing EXCEPT !.programs = @ \cup handlers[s].programs]
    /\ UNCHANGED <<chain, rows, locks>>

FindsStale(s) ==
    /\ KeepsRow(s) /\ KeepsDay(s) /\ handlers'[s].step = "retire"
    /\ \/ handlers[s].step = "update"
       \/ handlers[s].step = "append" /\ handlers[s].window
    /\ Gone(handlers[s].id) \/ block >= chain[handlers[s].id].expiry
    /\ UNCHANGED <<chain, rows, locks>>

Revokes(s) ==
    /\ KeepsRow(s) /\ KeepsDay(s)
    /\ handlers[s].cron /\ handlers[s].step = "revoke" /\ handlers'[s].step \in {"mark", "sync"}
    /\ UNCHANGED <<rows, locks>>

Retires(s) ==
    /\ KeepsRow(s) /\ KeepsDay(s)
    /\ handlers[s].step = "retire"
    /\ handlers'[s].step = IF handlers[s].window THEN "replace" ELSE "issue"
    /\ rows' = [rows EXCEPT ![handlers[s].id] = [handlers[s].existing EXCEPT !.revoked = TRUE]]
    /\ UNCHANGED <<chain, locks>>

Moves(s) ==
    \/ Starts(s) \/ Enters(s) \/ Decides(s) \/ Pays(s) \/ Widens(s)
    \/ FindsStale(s) \/ Revokes(s) \/ Retires(s)

----------------------------------------------------------------------------
(* Facts about a running handler                                           *)

LEMMA RunningTyped ==
    ASSUME VoucherTypes, NEW s \in Slots, Running(s)
    PROVE  handlers[s] \in Handlers
  BY DEF VoucherTypes, VoucherTypeOK, Running

LEMMA HoldsARow ==
    ASSUME Basics, NEW s \in Slots, Running(s), handlers[s].existing # NoRow
    PROVE  /\ handlers[s].existing \in RowRecords /\ handlers[s].id \in VoucherIds
           /\ chain[handlers[s].id] \in OnChain /\ chain[handlers[s].id] # NoVoucher
<1>1. handlers[s] \in Handlers
  BY RunningTyped DEF Basics
<1>2. handlers[s].existing \in RowRecords
  BY <1>1 DEF Handlers
<1>3. handlers[s].id \in VoucherIds
  BY DEF Basics, HandlersAreShaped, HandlerShape
<1>4. chain[handlers[s].id] # NoVoucher
  BY <1>3 DEF Basics, IdsAreKnown
<1>5. chain[handlers[s].id] \in OnChain
  BY <1>3, <1>4 DEF Basics, VoucherTypes, VoucherTypeOK
<1> QED BY <1>2, <1>3, <1>4, <1>5

LEMMA StepHoldsARow ==
    ASSUME Basics, NEW s \in Slots, Running(s),
           handlers[s].step \in {"update", "append", "retire", "insert", "renew", "widen",
                                 "revoke", "mark", "sync"}
    PROVE  handlers[s].existing # NoRow
  BY DEF Basics, HandlersAreShaped, HandlerShape

LEMMA NewRowTyped ==
    ASSUME VoucherTypes, NEW h \in Handlers
    PROVE  /\ NewRow(h) \in RowRecords /\ NewRow(h) # NoRow /\ ~NewRow(h).revoked
           /\ NewRow(h).account = h.wallet /\ NewRow(h).lastRenewedAt = now
           /\ NewRow(h).validUpToBlock = block + Duration /\ NewRow(h).validUpTo = now + Duration
<1>1. /\ now \in Time /\ now + Duration \in Nat /\ block + Duration \in Nat
  BY VoucherAssumption DEF VoucherTypes, VoucherTypeOK, Time, block
<1>2. h.wallet \in Wallets /\ h.programs \in SUBSET Programs
  BY DEF Handlers
<1>3. NewRow(h) \in RowRecords
  BY <1>1, <1>2 DEF NewRow, RowRecords
<1> QED BY <1>3, VoucherMarkers DEF NewRow

LEMMA RenewedTyped ==
    ASSUME VoucherTypes, NEW h \in Handlers, h.existing \in RowRecords
    PROVE  /\ Renewed(h) \in RowRecords /\ Renewed(h) # NoRow
           /\ Renewed(h).revoked = h.existing.revoked
           /\ Renewed(h).account = h.existing.account /\ Renewed(h).lastRenewedAt = now
           /\ block + Duration > h.existing.validUpToBlock =>
                 /\ Renewed(h).validUpToBlock = block + Duration
                 /\ Renewed(h).validUpTo = now + Duration
           /\ block + Duration <= h.existing.validUpToBlock =>
                 /\ Renewed(h).validUpToBlock = h.existing.validUpToBlock
                 /\ Renewed(h).validUpTo = h.existing.validUpTo
<1>1. /\ now \in Time /\ now + Duration \in Nat /\ block + Duration \in Nat
  BY VoucherAssumption DEF VoucherTypes, VoucherTypeOK, Time, block
<1>2. h.programs \in SUBSET Programs
  BY DEF Handlers
<1> DEFINE e == h.existing
           far == block + Duration > e.validUpToBlock
           until == IF far THEN now + Duration ELSE e.validUpTo
           untilBlock == IF far THEN block + Duration ELSE e.validUpToBlock
<1>3. Renewed(h) = [account |-> e.account, programs |-> e.programs \cup h.programs,
                    validUpTo |-> until, validUpToBlock |-> untilBlock,
                    lastRenewedAt |-> now, revoked |-> e.revoked]
  <2>1. e = [account |-> e.account, programs |-> e.programs, validUpTo |-> e.validUpTo,
             validUpToBlock |-> e.validUpToBlock, lastRenewedAt |-> e.lastRenewedAt,
             revoked |-> e.revoked]
    BY DEF RowRecords
  <2>2. Renewed(h) = [e EXCEPT !.programs = @ \cup h.programs, !.lastRenewedAt = now,
                               !.validUpToBlock = untilBlock, !.validUpTo = until]
    BY DEF Renewed
  <2> HIDE DEF e, until, untilBlock
  <2> QED BY <2>1, <2>2
<1>4. Renewed(h) \in RowRecords
  <2>1. e.account \in Wallets /\ e.revoked \in BOOLEAN
    BY DEF RowRecords
  <2>2. e.programs \cup h.programs \in SUBSET Programs
    <3>1. e.programs \in SUBSET Programs
      BY DEF RowRecords
    <3> HIDE DEF e
    <3> QED BY <1>2, <3>1
  <2>3. until \in Nat /\ untilBlock \in Nat
    BY <1>1 DEF RowRecords
  <2> HIDE DEF e, until, untilBlock
  <2> QED BY <1>1, <1>3, <2>1, <2>2, <2>3 DEF RowRecords
<1>5. Renewed(h) # NoRow
  BY <1>4, VoucherMarkers
<1>6. /\ Renewed(h).revoked = e.revoked /\ Renewed(h).account = e.account
      /\ Renewed(h).lastRenewedAt = now
      /\ Renewed(h).validUpTo = until /\ Renewed(h).validUpToBlock = untilBlock
  <2> HIDE DEF e, until, untilBlock
  <2> QED BY <1>3
<1>7. e.validUpToBlock \in Nat
  BY DEF RowRecords
<1> QED BY <1>1, <1>4, <1>5, <1>6, <1>7

----------------------------------------------------------------------------
(* Every step moves at most one handler, and only so                       *)

Changes(u) ==
    /\ handlers' = [handlers EXCEPT ![u] = handlers'[u]]
    /\ \/ /\ handlers'[u] = NoHandler /\ Ends(u)
          /\ handlers[u].step \in {"insert", "renew"} =>
                Save(u) \/ handlers[u].wallet \in unsaved'
       \/ Moves(u)

LEMMA EndChanges ==
    ASSUME VoucherTypes, NEW u \in Slots, Ends(u),
           handlers[u].step \in {"insert", "renew"} => Save(u) \/ handlers[u].wallet \in unsaved'
    PROVE  Changes(u)
  BY DEF Ends, Changes, VoucherTypes, VoucherTypeOK

(* A handler that only goes on to another step.                            *)
LEMMA GoOnMoves ==
    ASSUME VoucherTypes, NEW u \in Slots, Running(u), UNCHANGED clock,
           NEW step \in {"branch", "issue", "update", "append", "replace", "retire", "mark", "sync"},
           GoOn(u, step)
    PROVE  /\ handlers' = [handlers EXCEPT ![u] = handlers'[u]]
           /\ KeepsRow(u) /\ KeepsDay(u) /\ handlers'[u].step = step
<1>1. handlers[u] \in Handlers
  BY RunningTyped
<1> DEFINE x == [handlers[u] EXCEPT !.step = step]
<1>2. handlers' = [handlers EXCEPT ![u] = x]
  BY DEF GoOn
<1>3. x \in Handlers
  BY <1>1 DEF Handlers
<1>4. /\ x.wallet = handlers[u].wallet /\ x.ip = handlers[u].ip /\ x.cron = handlers[u].cron
      /\ x.id = handlers[u].id /\ x.existing = handlers[u].existing
      /\ x.day = handlers[u].day /\ x.window = handlers[u].window /\ x.step = step
  BY <1>1 DEF Handlers
<1> HIDE DEF x
<1>5. handlers'[u] = x
  BY <1>2 DEF VoucherTypes, VoucherTypeOK
<1> QED BY <1>2, <1>3, <1>4, <1>5, VoucherMarkers DEF KeepsRow, KeepsDay, Keeps, Running

LEMMA BeginChanges ==
    ASSUME VoucherTypes, NEW u \in Slots, NEW w \in Wallets, NEW ip \in Ips,
           NEW programs \in SUBSET Programs, NEW v \in VoucherIds \cup {NoVoucher},
           NEW cron \in BOOLEAN, Begin(u, w, ip, programs, v, cron),
           \/ ~cron /\ v = NoVoucher
           \/ cron /\ v \in VoucherIds /\ rows[v] # NoRow /\ w = rows[v].account
    PROVE  Changes(u)
<1> DEFINE x == [step |-> "lock", wallet |-> w, ip |-> ip, day |-> 0, programs |-> programs,
                 id |-> v, existing |-> NoRow, window |-> FALSE, cron |-> cron]
<1>1. handlers' = [handlers EXCEPT ![u] = x]
  BY DEF Begin
<1>2. 0 \in Days
  <2>1. MaxTime \in Nat /\ DayLength \in Nat \ {0}
    BY VoucherAssumption
  <2>2. MaxTime \div DayLength \in Nat
    BY <2>1
  <2> QED BY <2>2 DEF Days
<1>3. x \in Handlers
  BY <1>2 DEF Handlers
<1>4. x.step = "lock" /\ x.existing = NoRow /\ x.cron = cron /\ x.id = v /\ x.wallet = w
  OBVIOUS
<1> HIDE DEF x
<1>5. handlers'[u] = x
  BY <1>1 DEF VoucherTypes, VoucherTypeOK
<1>6. Starts(u)
  BY <1>3, <1>4, <1>5 DEF Starts, Begin, tables
<1> QED BY <1>1, <1>5, <1>6 DEF Changes, Moves

LEMMA LockChanges ==
    ASSUME Basics, NEW u \in Slots, GetVoucher(u) \/ RevokeWithLock(u)
    PROVE  Changes(u) /\ Enters(u)
<1>0. VoucherTypes /\ Running(u) /\ handlers[u] \in Handlers /\ handlers[u].step = "lock"
  BY RunningTyped DEF Basics, GetVoucher, RevokeWithLock, At, Running
<1>1. ASSUME GetVoucher(u), GoOn(u, "branch"), LiveRows(handlers[u].wallet) = {}
      PROVE  Changes(u) /\ Enters(u)
  <2>1. UNCHANGED <<clock, chain, rows>> /\ Lock(u) /\ ~handlers[u].cron
    BY <1>1 DEF GetVoucher, tables
  <2>2. /\ handlers' = [handlers EXCEPT ![u] = handlers'[u]]
        /\ KeepsRow(u) /\ handlers'[u].step = "branch"
    BY <1>0, <1>1, <2>1, GoOnMoves
  <2>3. Enters(u)
    BY <1>0, <1>1, <2>1, <2>2 DEF Enters, KeepsRow, WalletOf
  <2> QED BY <2>2, <2>3 DEF Changes, Moves
<1>2. ASSUME GetVoucher(u), NEW v \in LiveRows(handlers[u].wallet),
             handlers' = [handlers EXCEPT ![u].step = "branch", ![u].id = v, ![u].existing = rows[v]]
      PROVE  Changes(u) /\ Enters(u)
  <2>1. UNCHANGED <<clock, chain, rows>> /\ Lock(u) /\ ~handlers[u].cron
    BY <1>2 DEF GetVoucher, tables
  <2> DEFINE x == [handlers[u] EXCEPT !.step = "branch", !.id = v, !.existing = rows[v]]
  <2>2. v \in VoucherIds /\ rows[v] \in RowRecords
    BY <1>0 DEF LiveRows, VoucherTypes, VoucherTypeOK
  <2>3. x \in Handlers
    BY <1>0, <2>2 DEF Handlers
  <2>4. /\ x.wallet = handlers[u].wallet /\ x.ip = handlers[u].ip /\ x.cron = handlers[u].cron
        /\ x.id = v /\ x.existing = rows[v] /\ x.step = "branch"
    BY <1>0 DEF Handlers
  <2>5. handlers' = [handlers EXCEPT ![u] = x]
    BY <1>0, <1>2 DEF VoucherTypes, VoucherTypeOK
  <2> HIDE DEF x
  <2>6. handlers'[u] = x
    BY <1>0, <2>5 DEF VoucherTypes, VoucherTypeOK
  <2>7. Keeps(u)
    BY <1>0, <2>1, <2>3, <2>4, <2>6, VoucherMarkers DEF Keeps, Running
  <2>8. Enters(u)
    BY <1>0, <2>1, <2>4, <2>6, <2>7 DEF Enters, WalletOf
  <2> QED BY <2>5, <2>6, <2>8 DEF Changes, Moves
<1>3. ASSUME RevokeWithLock(u) PROVE Changes(u) /\ Enters(u)
  <2> DEFINE v == handlers[u].id
             x == [handlers[u] EXCEPT !.step = "revoke", !.existing = rows[v]]
  <2>1. UNCHANGED <<clock, chain, rows>> /\ Lock(u) /\ handlers[u].cron /\ Expired(v)
    BY <1>3 DEF RevokeWithLock, StillExpired, tables
  <2>2. v \in VoucherIds
    BY <1>0, <2>1 DEF Basics, HandlersAreShaped, HandlerShape
  <2>3. rows[v] \in RowRecords
    BY <1>0, <2>1, <2>2 DEF Expired, VoucherTypes, VoucherTypeOK
  <2>4. handlers' = [handlers EXCEPT ![u] = x]
    BY <1>0, <1>3 DEF RevokeWithLock, VoucherTypes, VoucherTypeOK
  <2>5. x \in Handlers
    BY <1>0, <2>3 DEF Handlers
  <2>6. /\ x.wallet = handlers[u].wallet /\ x.ip = handlers[u].ip /\ x.cron = handlers[u].cron
        /\ x.id = v /\ x.existing = rows[v] /\ x.step = "revoke"
    BY <1>0 DEF Handlers
  <2> HIDE DEF x
  <2>7. handlers'[u] = x
    BY <1>0, <2>4 DEF VoucherTypes, VoucherTypeOK
  <2>8. Keeps(u)
    BY <1>0, <2>1, <2>5, <2>6, <2>7, VoucherMarkers DEF Keeps, Running
  <2>9. Enters(u)
    BY <1>0, <2>1, <2>6, <2>7, <2>8 DEF Enters
  <2> QED BY <2>4, <2>7, <2>9 DEF Changes, Moves
<1> QED BY <1>1, <1>2, <1>3 DEF GetVoucher

LEMMA ReserveChanges ==
    ASSUME Basics, NEW u \in Slots, Running(u), NEW step \in {"issue", "update"},
           Reserve(u, step), UNCHANGED <<clock, chain, rows, orphans, fundings>>,
           \/ /\ step = "issue" /\ handlers[u].step \in {"branch", "replace"}
              /\ handlers[u].existing = NoRow \/ handlers[u].step = "replace"
           \/ /\ step = "update" /\ handlers[u].step = "branch" /\ handlers[u].existing # NoRow
              /\ handlers[u].existing.lastRenewedAt <= now - Interval
    PROVE  Changes(u)
<1>0. VoucherTypes /\ handlers[u] \in Handlers /\ today \in Days
  BY RunningTyped, TodayIsADay DEF Basics
<1> DEFINE x == [handlers[u] EXCEPT !.step = step, !.day = today]
<1>1. handlers' = [handlers EXCEPT ![u] = x]
  BY <1>0 DEF Reserve, VoucherTypes, VoucherTypeOK
<1>2. x \in Handlers
  BY <1>0 DEF Handlers
<1>3. /\ x.wallet = handlers[u].wallet /\ x.ip = handlers[u].ip /\ x.cron = handlers[u].cron
      /\ x.id = handlers[u].id /\ x.existing = handlers[u].existing
      /\ x.window = handlers[u].window /\ x.day = today /\ x.step = step
  BY <1>0 DEF Handlers
<1> HIDE DEF x
<1>4. handlers'[u] = x
  BY <1>0, <1>1 DEF VoucherTypes, VoucherTypeOK
<1>5. KeepsRow(u)
  BY <1>2, <1>3, <1>4, VoucherMarkers DEF Keeps, KeepsRow, Running
<1>6. Decides(u)
  BY <1>3, <1>4, <1>5 DEF Decides, Reserve, Reserves, CountAllows
<1> QED BY <1>1, <1>4, <1>6 DEF Changes, Moves

LEMMA BranchChanges ==
    ASSUME Basics, NEW u \in Slots, Branch(u) \/ Replace(u)
    PROVE  Changes(u)
<1>0. /\ VoucherTypes /\ Running(u) /\ handlers[u] \in Handlers
      /\ UNCHANGED <<clock, chain, rows, orphans, fundings>>
      /\ handlers[u].step \in {"branch", "replace"}
  BY RunningTyped DEF Basics, Branch, Replace, At, Running
<1>1. ASSUME Ends(u) PROVE Changes(u)
  BY <1>0, <1>1, EndChanges
<1>2. ASSUME Replace(u), Reserve(u, "issue") PROVE Changes(u)
  BY <1>0, <1>2, ReserveChanges DEF Replace, At
<1>3. ASSUME Branch(u), handlers[u].existing = NoRow, Reserve(u, "issue") PROVE Changes(u)
  BY <1>0, <1>3, ReserveChanges DEF Branch, At
<1>4. ASSUME Branch(u), handlers[u].existing # NoRow,
             handlers[u].existing.lastRenewedAt <= now - Interval, Reserve(u, "update")
      PROVE  Changes(u)
  BY <1>0, <1>4, ReserveChanges DEF Branch, At
<1>5. ASSUME Branch(u), handlers[u].existing # NoRow, GoOn(u, "append"), UNCHANGED locks
      PROVE  Changes(u)
  <2>1. /\ handlers' = [handlers EXCEPT ![u] = handlers'[u]]
        /\ KeepsRow(u) /\ handlers'[u].step = "append"
    BY <1>0, <1>5, GoOnMoves
  <2>2. Decides(u)
    BY <1>0, <1>5, <2>1 DEF Decides, Branch, At
  <2> QED BY <2>1, <2>2 DEF Changes, Moves
<1>6. ASSUME Branch(u), handlers[u].existing # NoRow, UNCHANGED locks,
             handlers' = [handlers EXCEPT ![u].step = "append", ![u].window = TRUE]
      PROVE  Changes(u)
  <2> DEFINE x == [handlers[u] EXCEPT !.step = "append", !.window = TRUE]
  <2>1. handlers' = [handlers EXCEPT ![u] = x]
    BY <1>0, <1>6 DEF VoucherTypes, VoucherTypeOK
  <2>2. x \in Handlers
    BY <1>0 DEF Handlers
  <2>3. /\ x.wallet = handlers[u].wallet /\ x.ip = handlers[u].ip /\ x.cron = handlers[u].cron
        /\ x.id = handlers[u].id /\ x.existing = handlers[u].existing /\ x.step = "append"
    BY <1>0 DEF Handlers
  <2> HIDE DEF x
  <2>4. handlers'[u] = x
    BY <1>0, <2>1 DEF VoucherTypes, VoucherTypeOK
  <2>5. KeepsRow(u)
    BY <1>0, <2>2, <2>3, <2>4, VoucherMarkers DEF Keeps, KeepsRow, Running
  <2>6. Decides(u)
    BY <1>0, <1>6, <2>3, <2>4, <2>5 DEF Decides, Branch, At
  <2> QED BY <2>1, <2>4, <2>6 DEF Changes, Moves
<1> QED BY <1>1, <1>2, <1>3, <1>4, <1>5, <1>6 DEF Branch, Replace

LEMMA PayChanges ==
    ASSUME Basics, NEW u \in Slots, Issue(u) \/ Update(u)
    PROVE  Changes(u)
<1>0. VoucherTypes /\ Running(u) /\ handlers[u] \in Handlers /\ UNCHANGED <<clock, rows, locks>>
  BY RunningTyped DEF Basics, Issue, Update, At, Running, tables
<1>1. ASSUME Issue(u) PROVE Changes(u)
  <2>1. PICK v \in VoucherIds :
          /\ ChainIssues(handlers[u], v)
          /\ handlers' = [handlers EXCEPT
                ![u].step = "insert", ![u].id = v, ![u].existing = NewRow(handlers[u])]
    BY <1>1 DEF Issue
  <2> DEFINE row == NewRow(handlers[u])
  <2>2. row \in RowRecords
    BY <1>0, NewRowTyped
  <2> HIDE DEF row
  <2> DEFINE x == [handlers[u] EXCEPT !.step = "insert", !.id = v, !.existing = row]
  <2>3. handlers' = [handlers EXCEPT ![u] = x]
    BY <1>0, <2>1 DEF VoucherTypes, VoucherTypeOK, row
  <2>4. x \in Handlers
    BY <1>0, <2>2 DEF Handlers
  <2>5. /\ x.wallet = handlers[u].wallet /\ x.ip = handlers[u].ip /\ x.cron = handlers[u].cron
        /\ x.id = v /\ x.existing = row /\ x.step = "insert"
    BY <1>0 DEF Handlers
  <2> HIDE DEF x
  <2>6. handlers'[u] = x
    BY <1>0, <2>3 DEF VoucherTypes, VoucherTypeOK
  <2>7. Keeps(u)
    BY <1>0, <2>4, <2>5, <2>6, VoucherMarkers DEF Keeps, Running
  <2>8. Pays(u)
    BY <1>0, <1>1, <2>1, <2>5, <2>6, <2>7 DEF Pays, ChainIssues, Issue, At, row
  <2> QED BY <2>3, <2>6, <2>8 DEF Changes, Moves
<1>2. ASSUME Update(u) PROVE Changes(u)
  <2> DEFINE row == Renewed(handlers[u])
  <2>1. row \in RowRecords
    <3>1. handlers[u].existing \in RowRecords
      BY <1>0, <1>2, HoldsARow, StepHoldsARow DEF Update, At
    <3> QED BY <1>0, <3>1, RenewedTyped
  <2>2. handlers' = [handlers EXCEPT ![u].step = "renew", ![u].existing = row]
    BY <1>2 DEF Update
  <2>3. /\ handlers[u].step = "update"
        /\ ChainUpdates(handlers[u], handlers[u].id, Prolongation(handlers[u].existing))
    BY <1>2 DEF Update, At
  <2> DEFINE x == [handlers[u] EXCEPT !.step = "renew", !.existing = row]
  <2>4. handlers' = [handlers EXCEPT ![u] = x]
    <3> HIDE DEF row
    <3> QED BY <1>0, <2>2 DEF VoucherTypes, VoucherTypeOK
  <2>5. x \in Handlers
    <3> HIDE DEF row
    <3> QED BY <1>0, <2>1 DEF Handlers
  <2>6. /\ x.wallet = handlers[u].wallet /\ x.ip = handlers[u].ip /\ x.cron = handlers[u].cron
        /\ x.id = handlers[u].id /\ x.existing = row /\ x.step = "renew"
    <3> HIDE DEF row
    <3> QED BY <1>0 DEF Handlers
  <2> HIDE DEF x
  <2>7. handlers'[u] = x
    BY <1>0, <2>4 DEF VoucherTypes, VoucherTypeOK
  <2>8. Keeps(u)
    BY <1>0, <2>5, <2>6, <2>7, VoucherMarkers DEF Keeps, Running
  <2>9. Pays(u)
    BY <1>0, <2>3, <2>6, <2>7, <2>8 DEF Pays
  <2> QED BY <2>4, <2>7, <2>9 DEF Changes, Moves
<1> QED BY <1>1, <1>2

LEMMA WidenChanges ==
    ASSUME Basics, NEW u \in Slots, AppendProgramsFreeOfCharge(u)
    PROVE  Changes(u)
<1>0. VoucherTypes /\ Running(u) /\ handlers[u] \in Handlers /\ handlers[u].step = "append"
      /\ UNCHANGED <<clock, chain, rows, locks>>
  BY RunningTyped DEF Basics, AppendProgramsFreeOfCharge, At, Running, tables
<1>1. handlers[u].existing \in RowRecords
  BY <1>0, HoldsARow, StepHoldsARow
<1> DEFINE row == [handlers[u].existing EXCEPT !.programs = @ \cup handlers[u].programs]
<1>2. row \in RowRecords
  <2>1. handlers[u].programs \in SUBSET Programs /\ handlers[u].existing.programs \in SUBSET Programs
    BY <1>0, <1>1 DEF Handlers, RowRecords
  <2>2. handlers[u].existing.programs \cup handlers[u].programs \in SUBSET Programs
    BY <2>1
  <2> QED BY <1>1, <2>2 DEF RowRecords
<1> DEFINE x == [handlers[u] EXCEPT !.step = "widen", !.existing = row]
<1>3. handlers' = [handlers EXCEPT ![u] = x]
  BY <1>0, <1>1 DEF AppendProgramsFreeOfCharge, VoucherTypes, VoucherTypeOK
<1>4. x \in Handlers
  <2> HIDE DEF row
  <2> QED BY <1>0, <1>2 DEF Handlers
<1>5. /\ x.wallet = handlers[u].wallet /\ x.ip = handlers[u].ip /\ x.cron = handlers[u].cron
      /\ x.id = handlers[u].id /\ x.existing = row /\ x.step = "widen"
  <2> HIDE DEF row
  <2> QED BY <1>0 DEF Handlers
<1> HIDE DEF x
<1>6. handlers'[u] = x
  BY <1>0, <1>3 DEF VoucherTypes, VoucherTypeOK
<1>7. Keeps(u)
  BY <1>0, <1>4, <1>5, <1>6, VoucherMarkers DEF Keeps, Running
<1>8. Widens(u)
  BY <1>0, <1>5, <1>6, <1>7 DEF Widens
<1> QED BY <1>3, <1>6, <1>8 DEF Changes, Moves

LEMMA LaterStepChanges ==
    ASSUME Basics, NEW u \in Slots,
           StaleOnChain(u) \/ Revoke(u) \/ SendTimesOut(u) \/ MarkRevoked(u)
    PROVE  Changes(u)
<1>0. VoucherTypes /\ Running(u) /\ handlers[u] \in Handlers /\ UNCHANGED clock
  BY RunningTyped DEF Basics, StaleOnChain, Revoke, SendTimesOut, MarkRevoked, At, Running
<1>1. ASSUME Ends(u), SendTimesOut(u) \/ MarkRevoked(u) PROVE Changes(u)
  BY <1>0, <1>1, EndChanges DEF SendTimesOut, MarkRevoked, At
<1>2. ASSUME NEW step \in {"branch", "issue", "update", "append", "replace", "retire", "mark", "sync"},
             GoOn(u, step)
      PROVE  /\ handlers' = [handlers EXCEPT ![u] = handlers'[u]]
             /\ KeepsRow(u) /\ KeepsDay(u) /\ handlers'[u].step = step
  BY <1>0, <1>2, GoOnMoves
<1>3. HandlerShape(handlers[u])
  BY <1>0 DEF Basics, HandlersAreShaped
<1>4. ASSUME StaleOnChain(u) PROVE Changes(u)
  <2>1. /\ handlers' = [handlers EXCEPT ![u] = handlers'[u]]
        /\ KeepsRow(u) /\ KeepsDay(u) /\ handlers'[u].step = "retire"
    BY <1>2, <1>4 DEF StaleOnChain
  <2>2. FindsStale(u)
    BY <1>4, <2>1 DEF FindsStale, StaleOnChain, At, tables
  <2> QED BY <2>1, <2>2 DEF Changes, Moves
<1>5. ASSUME Revoke(u) PROVE Changes(u)
  <2>1. PICK step \in {"mark", "sync"} : GoOn(u, step)
    BY <1>5 DEF Revoke
  <2>2. /\ handlers' = [handlers EXCEPT ![u] = handlers'[u]]
        /\ KeepsRow(u) /\ KeepsDay(u) /\ handlers'[u].step = step
    BY <1>2, <2>1
  <2>3. handlers[u].step = "revoke" /\ handlers[u].cron
    BY <1>0, <1>3, <1>5 DEF Revoke, At, HandlerShape, Handlers
  <2>4. Revokes(u)
    BY <1>5, <2>2, <2>3 DEF Revokes, Revoke, tables
  <2> QED BY <2>2, <2>4 DEF Changes, Moves
<1>6. ASSUME SendTimesOut(u), GoOn(u, "mark"), handlers[u].cron, UNCHANGED locks PROVE Changes(u)
  <2>1. /\ handlers' = [handlers EXCEPT ![u] = handlers'[u]]
        /\ KeepsRow(u) /\ KeepsDay(u) /\ handlers'[u].step = "mark"
    BY <1>2, <1>6
  <2>2. handlers[u].step = "revoke"
    BY <1>3, <1>6 DEF SendTimesOut, At, HandlerShape
  <2>3. Revokes(u)
    BY <1>6, <2>1, <2>2 DEF Revokes, SendTimesOut, tables
  <2> QED BY <2>1, <2>3 DEF Changes, Moves
<1>7. ASSUME MarkRevoked(u), At(u, "retire"),
             GoOn(u, IF handlers[u].window THEN "replace" ELSE "issue"), UNCHANGED locks
      PROVE  Changes(u)
  <2>1. PICK step \in {"replace", "issue"} :
          step = (IF handlers[u].window THEN "replace" ELSE "issue") /\ GoOn(u, step)
    BY <1>7
  <2>2. /\ handlers' = [handlers EXCEPT ![u] = handlers'[u]]
        /\ KeepsRow(u) /\ KeepsDay(u) /\ handlers'[u].step = step
    BY <1>2, <2>1
  <2>3. Retires(u)
    BY <1>7, <2>1, <2>2 DEF Retires, MarkRevoked, SaveRow, At
  <2> QED BY <2>2, <2>3 DEF Changes, Moves
<1> QED BY <1>1, <1>4, <1>5, <1>6, <1>7 DEF SendTimesOut, MarkRevoked

(* Every step moves at most one handler, as Moves says, or ends it.        *)
LEMMA HandlersChange ==
    ASSUME Basics, [Next]_vars
    PROVE  handlers' = handlers \/ \E u \in Slots : Changes(u)
<1>0. VoucherTypes
  BY DEF Basics
<1>1. ASSUME NEW u \in Slots, NEW w \in Wallets, NEW ip \in Ips,
             NEW programs \in (SUBSET Programs) \ {{}},
             RequestVoucher(u, w, ip, programs)
      PROVE  Changes(u)
  BY <1>0, <1>1, BeginChanges DEF RequestVoucher
<1>2. ASSUME NEW u \in Slots, NEW v \in VoucherIds, RevokeExpiredVoucher(u, v)
      PROVE  Changes(u)
  <2>1. rows[v] # NoRow /\ rows[v] \in RowRecords
    BY <1>0, <1>2 DEF RevokeExpiredVoucher, Expired, VoucherTypes, VoucherTypeOK
  <2>2. rows[v].account \in Wallets
    BY <2>1 DEF RowRecords
  <2>3. (CHOOSE ip \in Ips : TRUE) \in Ips
    BY VoucherAssumption
  <2>4. {} \in SUBSET Programs
    OBVIOUS
  <2> QED BY <1>0, <1>2, <2>1, <2>2, <2>3, <2>4, BeginChanges DEF RevokeExpiredVoucher
<1>3. ASSUME NEW u \in Slots,
             Abandon(u) \/ Save(u) \/ SyncVoucherValidityFromChain(u)
      PROVE  Changes(u)
  <2>1. Ends(u)
    BY <1>3 DEF Abandon, Save, SyncVoucherValidityFromChain
  <2>2. handlers[u].step \in {"insert", "renew"} => Save(u) \/ handlers[u].wallet \in unsaved'
    BY <1>3 DEF Abandon, SyncVoucherValidityFromChain, At
  <2> QED BY <1>0, <2>1, <2>2, EndChanges
<1>4. CASE RequestStep
  BY <1>1, <1>3, <1>4, LockChanges, BranchChanges, PayChanges, WidenChanges, LaterStepChanges
     DEF RequestStep
<1>5. CASE CronStep
  BY <1>2, <1>3, <1>5, LockChanges, LaterStepChanges DEF CronStep
<1>6. CASE \E s \in Slots : MarkRevoked(s)
  BY <1>6, LaterStepChanges
<1>7. CASE FaultStep
  BY <1>3, <1>7, LaterStepChanges DEF FaultStep, LandsLate, LoseLock
<1>8. CASE Tick \/ UNCHANGED vars
  BY <1>8 DEF Tick, vars
<1> QED BY <1>4, <1>5, <1>6, <1>7, <1>8 DEF Next

----------------------------------------------------------------------------
(* What a step does to the rows and to the chain                           *)

\* A handler saves the row it holds.
Saves(s) ==
    LET h == handlers[s]
        row == rows'[h.id]
    IN  /\ Running(s) /\ h.existing # NoRow
        /\ h.step \in {"insert", "renew", "widen", "mark", "retire", "sync"}
        /\ rows' = [rows EXCEPT ![h.id] = row] /\ row \in RowRecords
        /\ row.account = h.existing.account /\ row.lastRenewedAt = h.existing.lastRenewedAt
        /\ row.revoked <=> h.step \in {"mark", "retire"}
        /\ \/ /\ row.validUpTo = h.existing.validUpTo
              /\ row.validUpToBlock = h.existing.validUpToBlock
           \/ /\ row.validUpToBlock = chain[h.id].expiry
              /\ row.validUpTo = now + Maximum(1, chain[h.id].expiry - block)
        /\ UNCHANGED <<clock, chain, fundings>>
        /\ handlers'[s] = NoHandler \/ (h.step = "retire" /\ Retires(s))
        /\ handlers' = [handlers EXCEPT ![s] = handlers'[s]]

LEMMA SaveIsSaves ==
    ASSUME Basics, NEW s \in Slots,
           Save(s) \/ SyncVoucherValidityFromChain(s) \/ MarkRevoked(s)
    PROVE  Saves(s)
<1>0. /\ VoucherTypes /\ Running(s) /\ handlers[s] \in Handlers
      /\ UNCHANGED <<clock, chain, fundings>>
      /\ handlers[s].step \in {"insert", "renew", "widen", "mark", "retire", "sync"}
  BY RunningTyped DEF Basics, Save, SyncVoucherValidityFromChain, MarkRevoked, At, Running
<1> DEFINE e == handlers[s].existing
           v == handlers[s].id
<1>1. /\ e # NoRow /\ e \in RowRecords /\ v \in VoucherIds /\ chain[v] \in OnChain
  BY <1>0, HoldsARow, StepHoldsARow
<1>2. ~e.revoked
  BY <1>0, <1>1 DEF Basics, HandlersAreShaped, HandlerShape
<1>3. handlers \in [Slots -> Handlers \cup {NoHandler}]
      /\ rows \in [VoucherIds -> RowRecords \cup {NoRow}]
  BY <1>0 DEF VoucherTypes, VoucherTypeOK
<1>4. ASSUME Ends(s)
      PROVE  handlers'[s] = NoHandler /\ handlers' = [handlers EXCEPT ![s] = handlers'[s]]
  BY <1>3, <1>4 DEF Ends
<1>5. CASE Save(s)
  <2>1. handlers[s].step \in {"insert", "renew", "widen"} /\ rows' = [rows EXCEPT ![v] = e] /\ Ends(s)
    BY <1>5 DEF Save, At, SaveRow
  <2>2. rows'[v] = e
    BY <1>1, <1>3, <2>1
  <2> HIDE DEF e, v
  <2> QED BY <1>0, <1>1, <1>2, <1>4, <2>1, <2>2 DEF Saves, e, v
<1>6. CASE MarkRevoked(s)
  <2> DEFINE row == [e EXCEPT !.revoked = TRUE]
  <2>1. handlers[s].step \in {"mark", "retire"} /\ rows' = [rows EXCEPT ![v] = row]
    BY <1>6 DEF MarkRevoked, At, SaveRow
  <2>2. row \in RowRecords /\ row.account = e.account /\ row.lastRenewedAt = e.lastRenewedAt
        /\ row.revoked /\ row.validUpTo = e.validUpTo /\ row.validUpToBlock = e.validUpToBlock
    BY <1>1 DEF RowRecords
  <2>3. rows'[v] = row
    BY <1>1, <1>3, <2>1
  <2>4. /\ handlers'[s] = NoHandler \/ (handlers[s].step = "retire" /\ Retires(s))
        /\ handlers' = [handlers EXCEPT ![s] = handlers'[s]]
    <3>1. CASE At(s, "mark") /\ Ends(s)
      BY <1>4, <3>1
    <3>2. CASE At(s, "retire") /\ GoOn(s, IF handlers[s].window THEN "replace" ELSE "issue")
               /\ UNCHANGED locks
      <4>1. PICK step \in {"replace", "issue"} :
              step = (IF handlers[s].window THEN "replace" ELSE "issue") /\ GoOn(s, step)
        BY <3>2
      <4>2. /\ handlers' = [handlers EXCEPT ![s] = handlers'[s]]
            /\ KeepsRow(s) /\ KeepsDay(s) /\ handlers'[s].step = step
        BY <1>0, <4>1, GoOnMoves
      <4>3. Retires(s)
        BY <1>6, <3>2, <4>1, <4>2 DEF Retires, MarkRevoked, SaveRow, At
      <4> QED BY <3>2, <4>2, <4>3 DEF At
    <3> QED BY <1>6, <3>1, <3>2 DEF MarkRevoked
  <2> HIDE DEF row, e, v
  <2> QED BY <1>0, <1>1, <2>1, <2>2, <2>3, <2>4 DEF Saves, e, v
<1>7. CASE SyncVoucherValidityFromChain(s)
  <2> DEFINE until == now + Maximum(1, chain[v].expiry - block)
             row == [e EXCEPT !.validUpToBlock = chain[v].expiry, !.validUpTo = until]
  <2>1. handlers[s].step = "sync" /\ rows' = [rows EXCEPT ![v] = row] /\ Ends(s)
    BY <1>7 DEF SyncVoucherValidityFromChain, At, SaveRow
  <2>2. until \in Nat /\ chain[v].expiry \in Nat
    <3>1. chain[v].expiry \in Nat /\ now \in Nat /\ block \in Int
      BY <1>0, <1>1 DEF OnChain, VoucherTypes, VoucherTypeOK, Time, block
    <3> QED BY <3>1 DEF Maximum
  <2> HIDE DEF until
  <2>3. row \in RowRecords /\ row.account = e.account /\ row.lastRenewedAt = e.lastRenewedAt
        /\ row.revoked = e.revoked /\ row.validUpTo = until /\ row.validUpToBlock = chain[v].expiry
    BY <1>1, <2>2 DEF RowRecords
  <2>4. rows'[v] = row
    BY <1>1, <1>3, <2>1
  <2> HIDE DEF row, e, v
  <2> QED BY <1>0, <1>1, <1>2, <1>4, <2>1, <2>3, <2>4 DEF Saves, e, v, until
<1> QED BY <1>5, <1>6, <1>7

LEMMA RowsChange ==
    ASSUME Basics, [Next]_vars
    PROVE  rows' = rows \/ \E s \in Slots : Saves(s)
<1>1. \/ rows' = rows
      \/ \E s \in Slots : Save(s) \/ SyncVoucherValidityFromChain(s) \/ MarkRevoked(s)
  BY DEF Next, RequestStep, CronStep, FaultStep, vars, tables, RequestVoucher, Begin, GetVoucher,
         Branch, Replace, Issue, Update, AppendProgramsFreeOfCharge, StaleOnChain,
         RevokeExpiredVoucher, RevokeWithLock, Revoke, Abandon, SendTimesOut, LandsLate,
         LoseLock, Tick
<1> QED BY <1>1, SaveIsSaves

\* A voucher is issued, prolonged or, once expired, revoked.
ChainChange(v) ==
    /\ chain' = [chain EXCEPT ![v] = chain'[v]] /\ chain'[v] \in OnChain
    /\ chain[v] # NoVoucher => chain'[v].expiry >= chain[v].expiry /\ ~chain[v].revoked
    /\ chain'[v].revoked => chain'[v].expiry <= block
    /\ UNCHANGED <<clock, rows>>

LEMMA IssueChange ==
    ASSUME VoucherTypes, UNCHANGED <<clock, rows>>, NEW v \in VoucherIds, chain[v] = NoVoucher,
           chain' = [chain EXCEPT ![v] = [expiry |-> block + Duration, revoked |-> FALSE]]
    PROVE  ChainChange(v)
<1>1. block + Duration \in Nat
  BY VoucherAssumption DEF VoucherTypes, VoucherTypeOK, Time, block
<1> DEFINE c == [expiry |-> block + Duration, revoked |-> FALSE]
<1>2. c \in OnChain /\ ~c.revoked
  BY <1>1 DEF OnChain
<1>3. chain' = [chain EXCEPT ![v] = c]
  OBVIOUS
<1> HIDE DEF c
<1>4. chain'[v] = c
  BY <1>3 DEF VoucherTypes, VoucherTypeOK
<1> QED BY <1>2, <1>3, <1>4 DEF ChainChange

LEMMA UpdateChange ==
    ASSUME VoucherTypes, UNCHANGED <<clock, rows>>, NEW v \in VoucherIds, chain[v] \in OnChain,
           NEW m, NEW prolong \in 0..Duration, ChainUpdates(m, v, prolong)
    PROVE  ChainChange(v) /\ chain'[v].expiry =
              IF prolong = 0 THEN chain[v].expiry ELSE Maximum(chain[v].expiry, block) + prolong
<1> DEFINE expiry == IF prolong = 0 THEN chain[v].expiry ELSE Maximum(chain[v].expiry, block) + prolong
<1>1. chain' = [chain EXCEPT ![v] = [chain[v] EXCEPT !.expiry = expiry]]
  BY DEF ChainUpdates, VoucherTypes, VoucherTypeOK
<1>2. chain'[v] = [chain[v] EXCEPT !.expiry = expiry]
  BY <1>1 DEF VoucherTypes, VoucherTypeOK
<1>3. expiry \in Nat /\ expiry >= chain[v].expiry
  <2>1. chain[v].expiry \in Nat /\ block \in Int /\ prolong \in Nat
    BY VoucherAssumption DEF OnChain, VoucherTypes, VoucherTypeOK, Time, block
  <2> QED BY <2>1 DEF Maximum
<1> HIDE DEF expiry
<1>4. chain'[v] \in OnChain /\ chain'[v].expiry = expiry /\ chain'[v].revoked = chain[v].revoked
  BY <1>2, <1>3 DEF OnChain
<1>5. ~chain[v].revoked
  BY DEF ChainUpdates, Gone
<1>6. ChainChange(v)
  BY <1>1, <1>2, <1>3, <1>4, <1>5 DEF ChainChange
<1> QED BY <1>4, <1>6 DEF expiry

LEMMA RevokeChange ==
    ASSUME VoucherTypes, UNCHANGED <<clock, rows>>, NEW v \in VoucherIds, chain[v] \in OnChain,
           ChainRevokes(v)
    PROVE  ChainChange(v)
<1>1. chain' = [chain EXCEPT ![v] = [chain[v] EXCEPT !.revoked = TRUE]]
  BY DEF ChainRevokes, VoucherTypes, VoucherTypeOK
<1>2. chain'[v] = [chain[v] EXCEPT !.revoked = TRUE]
  BY <1>1 DEF VoucherTypes, VoucherTypeOK
<1>3. chain'[v] \in OnChain /\ chain'[v].expiry = chain[v].expiry /\ chain[v].expiry \in Nat
  BY <1>2 DEF OnChain
<1>4. block \in Int /\ block >= chain[v].expiry /\ ~chain[v].revoked
  BY DEF ChainRevokes, Gone, VoucherTypes, VoucherTypeOK, Time, block
<1>5. chain'[v].expiry >= chain[v].expiry /\ chain'[v].expiry <= block
  BY <1>3, <1>4
<1>6. chain' = [chain EXCEPT ![v] = chain'[v]]
  BY <1>1, <1>2
<1> QED BY <1>3, <1>4, <1>5, <1>6 DEF ChainChange

LEMMA ChainChanges ==
    ASSUME Basics, [Next]_vars
    PROVE  chain' = chain \/ \E v \in VoucherIds : ChainChange(v)
<1>0. VoucherTypes
  BY DEF Basics
<1>1. ASSUME NEW s \in Slots, Issue(s) PROVE \E v \in VoucherIds : ChainChange(v)
  BY <1>0, <1>1, IssueChange DEF Issue, ChainIssues, tables
<1>2. ASSUME NEW s \in Slots, Update(s) PROVE \E v \in VoucherIds : ChainChange(v)
  <2>1. Running(s) /\ handlers[s].step = "update"
    BY <1>2 DEF Update, At, Running
  <2>2. /\ handlers[s].existing \in RowRecords /\ handlers[s].id \in VoucherIds
        /\ chain[handlers[s].id] \in OnChain
    BY <2>1, HoldsARow, StepHoldsARow
  <2>3. Prolongation(handlers[s].existing) \in 0..Duration
    BY <1>0, <2>2, ProlongationFacts
  <2> QED BY <1>0, <1>2, <2>2, <2>3, UpdateChange DEF Update, tables
<1>3. ASSUME NEW s \in Slots, Revoke(s)
      PROVE  chain' = chain \/ \E v \in VoucherIds : ChainChange(v)
  <2>1. Running(s) /\ handlers[s].step = "revoke"
    BY <1>3 DEF Revoke, At, Running
  <2>2. handlers[s].id \in VoucherIds /\ chain[handlers[s].id] \in OnChain
    BY <2>1, HoldsARow, StepHoldsARow
  <2> QED BY <1>0, <1>3, <2>2, RevokeChange DEF Revoke, tables
<1>4. ASSUME NEW o \in orphans, LandsLate(o) PROVE \E v \in VoucherIds : ChainChange(v)
  <2>0. UNCHANGED <<clock, rows>>
    BY <1>4 DEF LandsLate, tables
  <2>1. CASE o.step = "issue" /\ \E v \in VoucherIds : ChainIssues(o, v)
    BY <1>0, <2>0, <2>1, IssueChange DEF ChainIssues
  <2>2. ASSUME o.step \in {"update", "revoke"}
        PROVE  o.id \in VoucherIds /\ chain[o.id] \in OnChain
    BY <1>0, <2>2 DEF Basics, OrphansAreUnsaved, VoucherTypes, VoucherTypeOK
  <2>3. CASE o.step = "update" /\ ChainUpdates(o, o.id, o.prolong)
    <3>1. o.prolong \in 0..Duration
      BY <1>0 DEF VoucherTypes, VoucherTypeOK, Orphans
    <3> QED BY <1>0, <2>0, <2>2, <2>3, <3>1, UpdateChange
  <2>4. CASE o.step = "revoke" /\ ChainRevokes(o.id)
    BY <1>0, <2>0, <2>2, <2>4, RevokeChange
  <2> QED BY <1>4, <2>1, <2>3, <2>4 DEF LandsLate
<1>5. \/ chain' = chain
      \/ \E s \in Slots : Issue(s) \/ Update(s) \/ Revoke(s)
      \/ \E o \in orphans : LandsLate(o)
  BY DEF Next, RequestStep, CronStep, FaultStep, vars, RequestVoucher, Begin, GetVoucher,
         Branch, Replace, AppendProgramsFreeOfCharge, StaleOnChain, RevokeExpiredVoucher,
         RevokeWithLock, Abandon, SendTimesOut, LoseLock, Tick, Save, MarkRevoked,
         SyncVoucherValidityFromChain
<1> QED BY <1>1, <1>2, <1>3, <1>4, <1>5

(* A voucher stays on the chain and its expiry only moves on.              *)
LEMMA ChainGrows ==
    ASSUME Basics, [Next]_vars, NEW v \in VoucherIds, chain[v] # NoVoucher
    PROVE  /\ chain'[v] \in OnChain /\ chain'[v] # NoVoucher
           /\ chain'[v].expiry >= chain[v].expiry
<1>1. chain \in [VoucherIds -> OnChain \cup {NoVoucher}] /\ chain[v] \in OnChain
  BY DEF Basics, VoucherTypes, VoucherTypeOK
<1>2. chain[v].expiry \in Nat
  BY <1>1 DEF OnChain
<1>3. CASE chain' = chain
  BY <1>1, <1>2, <1>3
<1>4. ASSUME NEW u \in VoucherIds, ChainChange(u)
      PROVE  /\ chain'[v] \in OnChain /\ chain'[v] # NoVoucher
             /\ chain'[v].expiry >= chain[v].expiry
  <2>1. CASE u = v
    BY <1>4, <2>1, VoucherMarkers DEF ChainChange
  <2>2. CASE u # v
    <3>1. chain'[v] = chain[v]
      BY <1>1, <1>4, <2>2 DEF ChainChange
    <3> QED BY <1>1, <1>2, <3>1
  <2> QED BY <2>1, <2>2
<1> QED BY <1>3, <1>4, ChainChanges

----------------------------------------------------------------------------
(* Types, shapes and ids                                                   *)

LEMMA BasicsInit == Init => Basics
<1> SUFFICES ASSUME Init PROVE Basics
  OBVIOUS
<1>1. VoucherTypes
  BY VoucherAssumption DEF Init, VoucherTypes, VoucherTypeOK, Time
<1>2. HandlersAreShaped /\ IdsAreKnown /\ OrphansAreUnsaved
  BY DEF Init, HandlersAreShaped, IdsAreKnown, OrphansAreUnsaved, Running
<1> QED BY <1>1, <1>2 DEF Basics

LEMMA ClockStep ==
    ASSUME Basics, [Next]_vars
    PROVE  /\ now' \in Time /\ lag' \in 0..MaxLag /\ lag' <= now'
           /\ now' >= now /\ lag' >= lag /\ block' >= block
           /\ now' \in Nat /\ now \in Nat /\ lag \in Nat /\ lag' \in Nat /\ block = now - lag
           /\ block' = now' - lag' /\ block \in Nat /\ block' \in Nat
<1>1. now \in Nat /\ now <= MaxTime /\ lag \in Nat /\ lag <= MaxLag /\ lag <= now
      /\ MaxTime \in Nat /\ MaxLag \in Nat
  BY VoucherAssumption DEF Basics, VoucherTypes, VoucherTypeOK, Time
<1>2. CASE UNCHANGED clock
  BY <1>1, <1>2 DEF clock, block, Time
<1>3. CASE Tick
  <2>1. now' = now + 1 /\ now < MaxTime /\ (lag' = lag \/ lag' = lag + 1) /\ lag' <= MaxLag
    BY <1>3 DEF Tick
  <2>2. block = now - lag /\ block' = now' - lag'
    BY DEF block
  <2> QED BY <1>1, <2>1, <2>2 DEF Time
<1>4. UNCHANGED clock \/ Tick
  BY DEF Next, RequestStep, CronStep, FaultStep, vars, RequestVoucher, Begin, GetVoucher,
         Branch, Replace, Issue, Update, AppendProgramsFreeOfCharge, StaleOnChain,
         RevokeExpiredVoucher, RevokeWithLock, Revoke, Abandon, SendTimesOut, LandsLate,
         LoseLock, Save, MarkRevoked, SyncVoucherValidityFromChain
<1> QED BY <1>2, <1>3, <1>4

LEMMA HandlersStep ==
    ASSUME Basics, [Next]_vars
    PROVE  handlers' \in [Slots -> Handlers \cup {NoHandler}]
<1>1. handlers \in [Slots -> Handlers \cup {NoHandler}]
  BY DEF Basics, VoucherTypes, VoucherTypeOK
<1>2. ASSUME NEW u \in Slots, Changes(u)
      PROVE  handlers' \in [Slots -> Handlers \cup {NoHandler}]
  <2>1. handlers'[u] \in Handlers \cup {NoHandler}
    BY <1>2 DEF Changes, Moves, Starts, Enters, Decides, Pays, Widens, FindsStale, Revokes,
                Retires, KeepsRow, Keeps
  <2>2. PICK x \in Handlers \cup {NoHandler} : x = handlers'[u]
    BY <2>1
  <2>3. handlers' = [handlers EXCEPT ![u] = x]
    BY <1>2, <2>2 DEF Changes
  <2> QED BY <1>1, <2>3
<1> QED BY <1>1, <1>2, HandlersChange

LEMMA RowsStep ==
    ASSUME Basics, [Next]_vars
    PROVE  rows' \in [VoucherIds -> RowRecords \cup {NoRow}]
<1>1. rows \in [VoucherIds -> RowRecords \cup {NoRow}]
  BY DEF Basics, VoucherTypes, VoucherTypeOK
<1>2. ASSUME NEW s \in Slots, Saves(s)
      PROVE  rows' \in [VoucherIds -> RowRecords \cup {NoRow}]
  <2>1. PICK x \in RowRecords : x = rows'[handlers[s].id]
    BY <1>2 DEF Saves
  <2>2. rows' = [rows EXCEPT ![handlers[s].id] = x]
    BY <1>2, <2>1 DEF Saves
  <2> QED BY <1>1, <2>2
<1> QED BY <1>1, <1>2, RowsChange

LEMMA ChainStep ==
    ASSUME Basics, [Next]_vars
    PROVE  chain' \in [VoucherIds -> OnChain \cup {NoVoucher}]
<1>1. chain \in [VoucherIds -> OnChain \cup {NoVoucher}]
  BY DEF Basics, VoucherTypes, VoucherTypeOK
<1>2. ASSUME NEW v \in VoucherIds, ChainChange(v)
      PROVE  chain' \in [VoucherIds -> OnChain \cup {NoVoucher}]
  <2>1. PICK x \in OnChain : x = chain'[v]
    BY <1>2 DEF ChainChange
  <2>2. chain' = [chain EXCEPT ![v] = x]
    BY <1>2, <2>1 DEF ChainChange
  <2> QED BY <1>1, <2>2
<1> QED BY <1>1, <1>2, ChainChanges

\* The reservations: one more is counted, or nothing changes.
Counts(s) ==
    LET key == <<handlers[s].ip, today>>
    IN  Running(s) /\ key \in Ips \X Days /\ usage' = [usage EXCEPT ![key] = @ + 1]

LEMMA UsageChange ==
    ASSUME Basics, [Next]_vars
    PROVE  usage' = usage \/ \E s \in Slots : (Branch(s) \/ Replace(s)) /\ Counts(s)
<1>1. ASSUME NEW s \in Slots, Branch(s) \/ Replace(s)
      PROVE  usage' = usage \/ Counts(s)
  <2>1. Running(s)
    BY <1>1 DEF Branch, Replace, At, Running
  <2>2. handlers[s].ip \in Ips
    BY <2>1, RunningTyped DEF Basics, Handlers
  <2>3. today \in Days
    BY TodayIsADay DEF Basics
  <2>4. \/ usage' = usage
        \/ usage' = [usage EXCEPT ![<<handlers[s].ip, today>>] = @ + 1]
    BY <1>1 DEF Branch, Replace, Reserve, OverCeiling
  <2> QED BY <2>1, <2>2, <2>3, <2>4 DEF Counts
<1>2. usage' = usage \/ \E s \in Slots : Branch(s) \/ Replace(s)
  BY DEF Next, RequestStep, CronStep, FaultStep, vars, tables, RequestVoucher, Begin, GetVoucher,
         Issue, Update, AppendProgramsFreeOfCharge, StaleOnChain,
         RevokeExpiredVoucher, RevokeWithLock, Revoke, Abandon, SendTimesOut, LandsLate,
         LoseLock, Tick, Save, MarkRevoked, SyncVoucherValidityFromChain
<1> QED BY <1>1, <1>2

LEMMA UsageStep ==
    ASSUME Basics, [Next]_vars
    PROVE  usage' \in [Ips \X Days -> Nat]
<1>1. usage \in [Ips \X Days -> Nat]
  BY DEF Basics, VoucherTypes, VoucherTypeOK
<1>2. ASSUME NEW s \in Slots, Counts(s) PROVE usage' \in [Ips \X Days -> Nat]
  <2>1. PICK key \in Ips \X Days : usage' = [usage EXCEPT ![key] = @ + 1]
    BY <1>2 DEF Counts
  <2> QED BY <1>1, <2>1
<1> QED BY <1>1, <1>2, UsageChange

\* The lock of a wallet is taken, dropped at a handler's end, or lost.
LEMMA LocksChange ==
    ASSUME Basics, [Next]_vars
    PROVE  \/ locks' = locks
           \/ \E s \in Slots : Running(s) /\ handlers[s].step = "lock" /\ Lock(s) /\ Enters(s)
           \/ \E s \in Slots : Ends(s)
           \/ \E w \in Wallets : LoseLock(w)
<1>1. ASSUME NEW s \in Slots, GetVoucher(s) \/ RevokeWithLock(s)
      PROVE  Running(s) /\ handlers[s].step = "lock" /\ Lock(s) /\ Enters(s)
  BY <1>1, LockChanges DEF GetVoucher, RevokeWithLock, At, Running
<1>2. \/ locks' = locks
      \/ \E s \in Slots : Ends(s) \/ GetVoucher(s) \/ RevokeWithLock(s)
      \/ \E w \in Wallets : LoseLock(w)
  BY DEF Next, RequestStep, CronStep, FaultStep, vars, RequestVoucher, Begin,
         Branch, Reserve, Replace, Issue, Update, AppendProgramsFreeOfCharge, StaleOnChain,
         RevokeExpiredVoucher, Revoke, Abandon, SendTimesOut, LandsLate,
         Tick, Save, MarkRevoked, SyncVoucherValidityFromChain
<1> QED BY <1>1, <1>2

LEMMA LocksStep ==
    ASSUME Basics, [Next]_vars
    PROVE  locks' \in [Wallets -> Slots \cup {Free}]
<1>1. locks \in [Wallets -> Slots \cup {Free}]
  BY DEF Basics, VoucherTypes, VoucherTypeOK
<1>2. ASSUME NEW s \in Slots, Running(s), Lock(s)
      PROVE  locks' \in [Wallets -> Slots \cup {Free}]
  <2>1. handlers[s].wallet \in Wallets
    BY <1>2, RunningTyped DEF Basics, Handlers
  <2> QED BY <1>1, <1>2, <2>1 DEF Lock
<1>3. ASSUME NEW s \in Slots, Ends(s) PROVE locks' \in [Wallets -> Slots \cup {Free}]
  BY <1>1, <1>3 DEF Ends
<1>4. ASSUME NEW w \in Wallets, LoseLock(w) PROVE locks' \in [Wallets -> Slots \cup {Free}]
  BY <1>1, <1>4 DEF LoseLock
<1> QED BY <1>1, <1>2, <1>3, <1>4, LocksChange

LEMMA OrphansChange ==
    ASSUME Basics, [Next]_vars
    PROVE  \/ orphans' = orphans
           \/ \E s \in Slots : SendTimesOut(s)
           \/ \E o \in orphans : LandsLate(o)
  BY DEF Next, RequestStep, CronStep, FaultStep, vars, tables, RequestVoucher, Begin, GetVoucher,
         Branch, Replace, Issue, Update, AppendProgramsFreeOfCharge, StaleOnChain,
         RevokeExpiredVoucher, RevokeWithLock, Revoke, Abandon,
         LoseLock, Tick, Save, MarkRevoked, SyncVoucherValidityFromChain

(* The transaction a handler stops waiting for.                            *)
LEMMA OrphanTyped ==
    ASSUME Basics, NEW s \in Slots, SendTimesOut(s)
    PROVE  LET o == OrphanOf(handlers[s])
           IN  /\ o \in Orphans /\ o.step = handlers[s].step /\ o.wallet = handlers[s].wallet
               /\ o.ip = handlers[s].ip /\ o.day = handlers[s].day /\ o.id = handlers[s].id
<1>1. Running(s) /\ handlers[s] \in Handlers /\ handlers[s].step \in {"issue", "update", "revoke"}
  BY RunningTyped DEF Basics, SendTimesOut, At, Running
<1> DEFINE prolong == IF handlers[s].step = "update" THEN Prolongation(handlers[s].existing) ELSE 0
<1>2. prolong \in 0..Duration
  <2>1. CASE handlers[s].step = "update"
    <3>1. handlers[s].existing \in RowRecords
      BY <1>1, <2>1, HoldsARow, StepHoldsARow
    <3> QED BY <2>1, <3>1, ProlongationFacts DEF Basics
  <2>2. CASE handlers[s].step # "update"
    BY <2>2, VoucherAssumption
  <2> QED BY <2>1, <2>2
<1>3. OrphanOf(handlers[s]) =
        [step |-> handlers[s].step, wallet |-> handlers[s].wallet, ip |-> handlers[s].ip,
         day |-> handlers[s].day, id |-> handlers[s].id, prolong |-> prolong]
  BY DEF OrphanOf
<1> HIDE DEF prolong
<1> QED BY <1>1, <1>2, <1>3 DEF Orphans, Handlers

LEMMA OrphansStep ==
    ASSUME Basics, [Next]_vars
    PROVE  orphans' \subseteq Orphans
<1>1. orphans \subseteq Orphans
  BY DEF Basics, VoucherTypes, VoucherTypeOK
<1>2. ASSUME NEW s \in Slots, SendTimesOut(s) PROVE orphans' \subseteq Orphans
  <2>1. OrphanOf(handlers[s]) \in Orphans
    BY <1>2, OrphanTyped
  <2>2. orphans' = orphans \cup {OrphanOf(handlers[s])}
    BY <1>2 DEF SendTimesOut
  <2> QED BY <1>1, <2>1, <2>2
<1>3. ASSUME NEW o \in orphans, LandsLate(o) PROVE orphans' \subseteq Orphans
  BY <1>1, <1>3 DEF LandsLate
<1> QED BY <1>1, <1>2, <1>3, OrphansChange

FundingRecords == [wallet : Wallets, at : Time, ip : Ips, day : Days]

\* A tranche is paid by a handler or by a transaction nobody waits for.
Funds(m) ==
    /\ m.wallet \in Wallets /\ m.ip \in Ips /\ m.day \in Days
    /\ fundings' = Append(fundings, [wallet |-> m.wallet, at |-> now, ip |-> m.ip, day |-> m.day])

LEMMA FundingsChange ==
    ASSUME Basics, [Next]_vars
    PROVE  \/ fundings' = fundings
           \/ \E s \in Slots : (Issue(s) \/ Update(s)) /\ Running(s) /\ Funds(handlers[s])
           \/ \E o \in orphans : LandsLate(o) /\ o.step \in {"issue", "update"} /\ Funds(o)
<1>1. \/ fundings' = fundings
      \/ \E s \in Slots : Issue(s) \/ Update(s)
      \/ \E o \in orphans : LandsLate(o)
  BY DEF Next, RequestStep, CronStep, FaultStep, vars, tables, RequestVoucher, Begin, GetVoucher,
         Branch, Replace, AppendProgramsFreeOfCharge, StaleOnChain, SendTimesOut,
         RevokeExpiredVoucher, RevokeWithLock, Revoke, Abandon,
         LoseLock, Tick, Save, MarkRevoked, SyncVoucherValidityFromChain
<1>2. ASSUME NEW s \in Slots, Issue(s) \/ Update(s) PROVE Running(s) /\ Funds(handlers[s])
  <2>1. Running(s) /\ Pay(handlers[s])
    BY <1>2 DEF Issue, Update, At, Running, ChainIssues, ChainUpdates
  <2>2. handlers[s] \in Handlers
    BY <2>1, RunningTyped DEF Basics
  <2> QED BY <2>1, <2>2 DEF Funds, Pay, Handlers
<1>3. ASSUME NEW o \in orphans, LandsLate(o)
      PROVE  fundings' = fundings \/ (o.step \in {"issue", "update"} /\ Funds(o))
  <2>1. o \in Orphans
    BY DEF Basics, VoucherTypes, VoucherTypeOK
  <2>2. fundings' = fundings \/ (o.step \in {"issue", "update"} /\ Pay(o))
    BY <1>3 DEF LandsLate, ChainIssues, ChainUpdates
  <2> QED BY <2>1, <2>2 DEF Funds, Pay, Orphans
<1> QED BY <1>1, <1>2, <1>3

LEMMA FundingsStep ==
    ASSUME Basics, [Next]_vars
    PROVE  fundings' \in Seq(FundingRecords)
<1>1. fundings \in Seq(FundingRecords) /\ now \in Time
  BY DEF Basics, VoucherTypes, VoucherTypeOK, FundingRecords
<1>2. ASSUME NEW m, Funds(m) PROVE fundings' \in Seq(FundingRecords)
  <2> DEFINE f == [wallet |-> m.wallet, at |-> now, ip |-> m.ip, day |-> m.day]
  <2>1. f \in FundingRecords
    BY <1>1, <1>2 DEF Funds, FundingRecords
  <2>2. fundings' = Append(fundings, f)
    BY <1>2 DEF Funds
  <2> HIDE DEF f
  <2> QED BY <1>1, <2>1, <2>2
<1> QED BY <1>1, <1>2, FundingsChange

(* What failed is never forgotten.                                         *)
LEMMA HistoryStep ==
    ASSUME Basics, [Next]_vars
    PROVE  /\ unsaved' \subseteq Wallets /\ unlocked' \subseteq Wallets /\ faults' \in 0..MaxFaults
           /\ unsaved \subseteq unsaved' /\ unlocked \subseteq unlocked'
<1>1. unsaved \subseteq Wallets /\ unlocked \subseteq Wallets /\ faults \in 0..MaxFaults
  BY DEF Basics, VoucherTypes, VoucherTypeOK
<1>2. ASSUME Fault PROVE faults' \in 0..MaxFaults
  BY <1>1, <1>2, VoucherAssumption DEF Fault
<1>3. ASSUME NEW s \in Slots, Running(s) PROVE handlers[s].wallet \in Wallets
  BY <1>3, RunningTyped DEF Basics, Handlers
<1>4. ASSUME NEW s \in Slots, Abandon(s) \/ SendTimesOut(s)
      PROVE  /\ unsaved' \subseteq Wallets /\ unlocked' \subseteq Wallets /\ faults' \in 0..MaxFaults
             /\ unsaved \subseteq unsaved' /\ unlocked \subseteq unlocked'
  <2>1. Running(s) /\ (unsaved' = unsaved \/ unsaved' = unsaved \cup {handlers[s].wallet})
        /\ unlocked' = unlocked
    BY <1>4 DEF Abandon, SendTimesOut, At, Running
  <2>2. faults' = faults \/ Fault
    BY <1>4 DEF Abandon, SendTimesOut
  <2>3. faults' \in 0..MaxFaults
    BY <1>1, <1>2, <2>2
  <2> QED BY <1>1, <1>3, <2>1, <2>3
<1>5. ASSUME NEW w \in Wallets, LoseLock(w)
      PROVE  /\ unsaved' \subseteq Wallets /\ unlocked' \subseteq Wallets /\ faults' \in 0..MaxFaults
             /\ unsaved \subseteq unsaved' /\ unlocked \subseteq unlocked'
  <2>1. faults' \in 0..MaxFaults
    BY <1>2, <1>5 DEF LoseLock
  <2> QED BY <1>1, <1>5, <2>1 DEF LoseLock
<1>6. \/ UNCHANGED <<unsaved, unlocked, faults>>
      \/ \E s \in Slots : Abandon(s) \/ SendTimesOut(s)
      \/ \E w \in Wallets : LoseLock(w)
  BY DEF Next, RequestStep, CronStep, FaultStep, vars, history, RequestVoucher, Begin, GetVoucher,
         Branch, Replace, Issue, Update, AppendProgramsFreeOfCharge, StaleOnChain,
         RevokeExpiredVoucher, RevokeWithLock, Revoke, LandsLate,
         Tick, Save, MarkRevoked, SyncVoucherValidityFromChain
<1> QED BY <1>1, <1>4, <1>5, <1>6

(* A row stays, and stays its wallet's.                                    *)
LEMMA RowsStay ==
    ASSUME Basics, [Next]_vars, NEW v \in VoucherIds, rows[v] # NoRow
    PROVE  /\ rows[v] \in RowRecords /\ rows'[v] \in RowRecords /\ rows'[v] # NoRow
           /\ rows'[v].account = rows[v].account
<1>1. rows \in [VoucherIds -> RowRecords \cup {NoRow}] /\ rows[v] \in RowRecords
  BY DEF Basics, VoucherTypes, VoucherTypeOK
<1>2. ASSUME NEW s \in Slots, Saves(s)
      PROVE  rows'[v] \in RowRecords /\ rows'[v].account = rows[v].account
  <2>1. CASE handlers[s].id = v
    <3>1. handlers[s].existing.account = WalletOf(s)
      BY <1>2 DEF Basics, HandlersAreShaped, HandlerShape, Saves, WalletOf
    <3>2. rows[v].account = WalletOf(s)
      BY <1>2, <2>1 DEF Basics, IdsAreKnown, Saves
    <3> QED BY <1>2, <2>1, <3>1, <3>2 DEF Saves
  <2>2. CASE handlers[s].id # v
    <3>1. rows'[v] = rows[v]
      BY <1>1, <1>2, <2>2 DEF Saves
    <3> QED BY <1>1, <3>1
  <2> QED BY <2>1, <2>2
<1>3. CASE rows' = rows
  BY <1>1, <1>3
<1> QED BY <1>1, <1>2, <1>3, RowsChange, VoucherMarkers

LEMMA TypesStep ==
    ASSUME Basics, [Next]_vars
    PROVE  VoucherTypes'
<1>1. ASSUME NEW v \in VoucherIds, rows'[v] # NoRow PROVE chain'[v] # NoVoucher
  <2>1. chain[v] # NoVoucher
    <3>1. CASE rows[v] # NoRow
      BY <3>1 DEF Basics, VoucherTypes, VoucherTypeOK
    <3>2. CASE rows[v] = NoRow
      <4>1. PICK s \in Slots : Saves(s)
        BY <1>1, <3>2, RowsChange
      <4>2. handlers[s].id = v
        <5>1. rows \in [VoucherIds -> RowRecords \cup {NoRow}]
          BY DEF Basics, VoucherTypes, VoucherTypeOK
        <5> QED BY <1>1, <3>2, <4>1, <5>1 DEF Saves
      <4> QED BY <4>1, <4>2, HoldsARow DEF Saves
    <3> QED BY <3>1, <3>2
  <2> QED BY <2>1, ChainGrows
<1>2. now' \in Time /\ lag' \in 0..MaxLag /\ lag' <= now'
  BY ClockStep
<1> QED BY <1>1, <1>2, HandlersStep, RowsStep, ChainStep, UsageStep, LocksStep, OrphansStep,
           FundingsStep, HistoryStep
        DEF VoucherTypes, VoucherTypeOK, FundingRecords

(* What becomes of one handler in a step; the others stay.                 *)
LEMMA HandlerMoves ==
    ASSUME Basics, [Next]_vars, NEW s \in Slots
    PROVE  \/ handlers'[s] = handlers[s]
           \/ /\ handlers'[s] = NoHandler /\ Ends(s)
              /\ handlers[s].step \in {"insert", "renew"} =>
                    Save(s) \/ handlers[s].wallet \in unsaved'
           \/ Moves(s) /\ \A t \in Slots \ {s} : handlers'[t] = handlers[t]
<1>1. handlers \in [Slots -> Handlers \cup {NoHandler}]
  BY DEF Basics, VoucherTypes, VoucherTypeOK
<1>2. ASSUME NEW u \in Slots, Changes(u)
      PROVE  \/ handlers'[s] = handlers[s]
             \/ /\ handlers'[s] = NoHandler /\ Ends(s)
                /\ handlers[s].step \in {"insert", "renew"} =>
                      Save(s) \/ handlers[s].wallet \in unsaved'
             \/ Moves(s) /\ \A t \in Slots \ {s} : handlers'[t] = handlers[t]
  <2>1. PICK x : x = handlers'[u]
    OBVIOUS
  <2>2. /\ handlers' = [handlers EXCEPT ![u] = x]
        /\ \/ /\ x = NoHandler /\ Ends(u)
              /\ handlers[u].step \in {"insert", "renew"} =>
                    Save(u) \/ handlers[u].wallet \in unsaved'
           \/ Moves(u)
    BY <1>2, <2>1 DEF Changes
  <2>3. \A t \in Slots \ {u} : handlers'[t] = handlers[t]
    BY <1>1, <2>2
  <2> QED BY <2>1, <2>2, <2>3
<1> QED BY <1>2, HandlersChange

LEMMA ShapeStep ==
    ASSUME Basics, [Next]_vars
    PROVE  HandlersAreShaped'
<1> SUFFICES ASSUME NEW s \in Slots, handlers'[s] # NoHandler PROVE HandlerShape(handlers'[s])
  BY DEF HandlersAreShaped, Running
<1>1. CASE handlers'[s] = handlers[s]
  BY <1>1 DEF Basics, HandlersAreShaped, Running
<1>2. ASSUME Running(s) PROVE HandlerShape(handlers[s]) /\ handlers[s] \in Handlers
  BY <1>2, RunningTyped DEF Basics, HandlersAreShaped
<1>3. CASE Starts(s)
  BY <1>3 DEF Starts, HandlerShape
<1>4. CASE Enters(s)
  <2>1. HandlerShape(handlers[s]) /\ handlers[s] \in Handlers
    BY <1>2, <1>4 DEF Enters, Keeps
  <2>2. CASE KeepsRow(s) /\ handlers'[s].step = "branch" /\ ~handlers[s].cron
    BY <1>4, <2>1, <2>2 DEF HandlerShape, KeepsRow, Keeps, Enters
  <2>3. CASE /\ ~handlers[s].cron /\ handlers'[s].step = "branch"
             /\ handlers'[s].id \in LiveRows(WalletOf(s))
             /\ handlers'[s].existing = rows[handlers'[s].id]
    BY <1>4, <2>1, <2>3 DEF HandlerShape, Keeps, Enters, LiveRows, WalletOf
  <2>4. CASE /\ handlers[s].cron /\ handlers'[s].step = "revoke"
             /\ handlers'[s].id = handlers[s].id /\ Expired(handlers[s].id)
             /\ handlers'[s].existing = rows[handlers[s].id]
    <3>1. handlers[s].id \in VoucherIds
      BY <2>1, <2>4 DEF HandlerShape
    <3>2. rows[handlers[s].id].account = WalletOf(s)
      BY <1>4, <3>1 DEF Basics, IdsAreKnown, Enters, Keeps
    <3> QED BY <1>4, <2>1, <2>4, <3>1, <3>2 DEF HandlerShape, Keeps, Enters, Expired, WalletOf
  <2> QED BY <1>4, <2>2, <2>3, <2>4 DEF Enters
<1>5. CASE Decides(s)
  BY <1>2, <1>5 DEF Decides, KeepsRow, Keeps, HandlerShape
<1>6. CASE Pays(s)
  <2>1. HandlerShape(handlers[s]) /\ handlers[s] \in Handlers /\ Running(s)
    BY <1>2, <1>6 DEF Pays, Keeps
  <2>2. CASE handlers[s].step = "issue"
    <3>1. /\ handlers'[s].step = "insert" /\ handlers'[s].existing = NewRow(handlers[s])
          /\ handlers'[s].id \in VoucherIds
      BY <1>6, <2>2 DEF Pays
    <3>2. /\ NewRow(handlers[s]) # NoRow /\ ~NewRow(handlers[s]).revoked
          /\ NewRow(handlers[s]).account = handlers[s].wallet
      BY <2>1, NewRowTyped DEF Basics
    <3> QED BY <1>6, <2>1, <2>2, <3>1, <3>2 DEF Pays, Keeps, HandlerShape
  <2>3. CASE handlers[s].step = "update"
    <3>1. /\ handlers'[s].step = "renew" /\ handlers'[s].existing = Renewed(handlers[s])
          /\ handlers'[s].id = handlers[s].id
      BY <1>6, <2>3 DEF Pays
    <3>2. handlers[s].existing # NoRow /\ handlers[s].existing \in RowRecords
      BY <2>1, <2>3, HoldsARow, StepHoldsARow
    <3>3. /\ Renewed(handlers[s]) # NoRow
          /\ Renewed(handlers[s]).revoked = handlers[s].existing.revoked
          /\ Renewed(handlers[s]).account = handlers[s].existing.account
      BY <2>1, <3>2, RenewedTyped DEF Basics
    <3> QED BY <1>6, <2>1, <2>3, <3>1, <3>2, <3>3 DEF Pays, Keeps, HandlerShape
  <2> QED BY <1>6, <2>2, <2>3 DEF Pays
<1>7. CASE Widens(s)
  <2>1. /\ HandlerShape(handlers[s]) /\ handlers[s] \in Handlers /\ Running(s)
        /\ handlers[s].step = "append"
    BY <1>2, <1>7 DEF Widens, Keeps
  <2> DEFINE e == handlers[s].existing
             row == [e EXCEPT !.programs = @ \cup handlers[s].programs]
  <2>2. e \in RowRecords /\ e # NoRow
    BY <2>1, HoldsARow, StepHoldsARow
  <2>3. row.revoked = e.revoked /\ row.account = e.account
    BY <2>2 DEF RowRecords
  <2>4. handlers'[s].existing = row
    BY <1>7 DEF Widens
  <2>5. ~row.revoked /\ row.account = handlers[s].wallet /\ handlers[s].id \in VoucherIds
    BY <2>1, <2>2, <2>3 DEF HandlerShape
  <2>6. handlers'[s].existing # NoRow
    <3>1. handlers'[s] \in Handlers
      BY <1>7 DEF Widens, Keeps
    <3>2. row \in RowRecords
      <4>1. handlers[s].programs \in SUBSET Programs /\ e.programs \in SUBSET Programs
        BY <2>1, <2>2 DEF Handlers, RowRecords
      <4>2. e.programs \cup handlers[s].programs \in SUBSET Programs
        BY <4>1
      <4> QED BY <2>2, <4>2 DEF RowRecords
    <3> HIDE DEF row
    <3> QED BY <2>4, <3>2, VoucherMarkers
  <2> HIDE DEF row, e
  <2> QED BY <1>7, <2>1, <2>4, <2>5, <2>6 DEF Widens, Keeps, HandlerShape
<1>8. CASE FindsStale(s)
  BY <1>2, <1>8, StepHoldsARow DEF FindsStale, KeepsRow, Keeps, HandlerShape
<1>9. CASE Revokes(s)
  BY <1>2, <1>9 DEF Revokes, KeepsRow, Keeps, HandlerShape
<1>10. CASE Retires(s)
  BY <1>2, <1>10 DEF Retires, KeepsRow, Keeps, HandlerShape
<1> QED BY <1>1, <1>3, <1>4, <1>5, <1>6, <1>7, <1>8, <1>9, <1>10, HandlerMoves DEF Moves

(* The voucher a handler names, unless it is still to be inserted.         *)
LEMMA KnownIdsStay ==
    ASSUME Basics, [Next]_vars, NEW s \in Slots, Running(s), handlers[s].id \in VoucherIds
    PROVE  /\ chain'[handlers[s].id] # NoVoucher
           /\ handlers[s].step # "insert" =>
                 /\ rows'[handlers[s].id] # NoRow
                 /\ rows'[handlers[s].id].account = WalletOf(s)
<1> DEFINE v == handlers[s].id
<1>1. /\ chain[v] # NoVoucher
      /\ handlers[s].step # "insert" => rows[v] # NoRow /\ rows[v].account = WalletOf(s)
  BY DEF Basics, IdsAreKnown
<1>2. chain'[v] # NoVoucher
  BY <1>1, ChainGrows
<1>3. ASSUME handlers[s].step # "insert"
      PROVE  rows'[v] # NoRow /\ rows'[v].account = WalletOf(s)
  BY <1>1, <1>3, RowsStay
<1> QED BY <1>2, <1>3

(* A voucher that is still to be inserted is named by no other handler.    *)
LEMMA InsertionStays ==
    ASSUME Basics, [Next]_vars, NEW s \in Slots, Running(s), handlers'[s] = handlers[s],
           handlers[s].step = "insert", handlers[s].id \in VoucherIds
    PROVE  /\ rows'[handlers[s].id] = NoRow
           /\ \A t \in Slots \ {s} : handlers'[t] # NoHandler => handlers'[t].id # handlers[s].id
<1> DEFINE v == handlers[s].id
<1>1. /\ chain[v] # NoVoucher /\ rows[v] = NoRow
      /\ \A t \in Slots \ {s} : Running(t) => handlers[t].id # v
  BY DEF Basics, IdsAreKnown
<1>2. rows'[v] = NoRow
  <2>1. rows \in [VoucherIds -> RowRecords \cup {NoRow}]
    BY DEF Basics, VoucherTypes, VoucherTypeOK
  <2>2. ASSUME NEW t \in Slots, Saves(t) PROVE handlers[t].id # v
    <3>1. t # s
      BY <2>2 DEF Saves, Retires, Running
    <3> QED BY <1>1, <2>2, <3>1 DEF Saves
  <2>3. ASSUME NEW t \in Slots, Saves(t) PROVE rows'[v] = rows[v]
    BY <2>1, <2>2, <2>3 DEF Saves
  <2> QED BY <1>1, <2>3, RowsChange
<1>3. ASSUME NEW t \in Slots \ {s}, handlers'[t] # NoHandler, handlers'[t].id = v PROVE FALSE
  <2>1. v # NoVoucher
    BY VoucherMarkers
  <2>2. CASE Starts(t)
    BY <1>1, <1>3, <2>1, <2>2 DEF Starts
  <2>3. CASE Pays(t) /\ handlers[t].step = "issue"
    BY <1>1, <1>3, <2>3 DEF Pays
  <2>4. CASE Enters(t) /\ handlers'[t].id \in LiveRows(WalletOf(t))
    BY <1>1, <1>3, <2>4 DEF LiveRows
  <2>5. Running(t) /\ handlers'[t].id = handlers[t].id => FALSE
    BY <1>1, <1>3
  <2> HIDE DEF v
  <2> QED BY <1>3, <2>2, <2>3, <2>4, <2>5, HandlerMoves
          DEF Moves, Enters, Decides, Pays, Widens, FindsStale, Revokes, Retires, KeepsRow, Keeps, Running
<1> QED BY <1>2, <1>3

LEMMA IdsStep ==
    ASSUME Basics, [Next]_vars
    PROVE  IdsAreKnown'
<1> SUFFICES ASSUME NEW s \in Slots, handlers'[s] # NoHandler,
                    NEW v \in VoucherIds, handlers'[s].id = v
             PROVE  /\ chain'[v] # NoVoucher
                    /\ handlers'[s].step # "insert"
                          => rows'[v] # NoRow /\ rows'[v].account = handlers'[s].wallet
                    /\ handlers'[s].step = "insert" =>
                          /\ rows'[v] = NoRow
                          /\ \A t \in Slots \ {s} : handlers'[t] # NoHandler => handlers'[t].id # v
  BY DEF IdsAreKnown, Running, WalletOf
<1>0. v # NoVoucher
  BY VoucherMarkers
<1>1. CASE handlers'[s] = handlers[s]
  BY <1>1, KnownIdsStay, InsertionStays DEF Running, WalletOf
<1>2. CASE Starts(s)
  BY <1>0, <1>2, VoucherMarkers DEF Starts, Basics, VoucherTypes, VoucherTypeOK
<1>3. CASE Enters(s) /\ v \in LiveRows(WalletOf(s)) /\ handlers'[s].step = "branch"
  <2>1. rows[v] # NoRow /\ rows[v].account = WalletOf(s) /\ handlers'[s].wallet = WalletOf(s)
    BY <1>3 DEF LiveRows, Enters, Keeps, WalletOf
  <2> QED BY <1>3, <2>1, RowsStay DEF Enters, Basics, VoucherTypes, VoucherTypeOK
<1>4. CASE Pays(s) /\ handlers[s].step = "issue" /\ \A t \in Slots \ {s} : handlers'[t] = handlers[t]
  <2>1. /\ handlers'[s].step = "insert" /\ chain[v] = NoVoucher /\ rows' = rows
        /\ chain' = [chain EXCEPT ![v] = [expiry |-> block + Duration, revoked |-> FALSE]]
    BY <1>4 DEF Pays
  <2>2. block + Duration \in Nat
    BY VoucherAssumption, ClockStep
  <2>3. [expiry |-> block + Duration, revoked |-> FALSE] \in OnChain
    BY <2>2 DEF OnChain
  <2>4. chain'[v] # NoVoucher
    BY <2>1, <2>3, VoucherMarkers DEF Basics, VoucherTypes, VoucherTypeOK
  <2>5. rows'[v] = NoRow
    BY <2>1 DEF Basics, VoucherTypes, VoucherTypeOK
  <2>6. \A t \in Slots \ {s} : handlers'[t] # NoHandler => handlers'[t].id # v
    BY <1>4, <2>1 DEF Basics, IdsAreKnown, Running
  <2> QED BY <2>1, <2>4, <2>5, <2>6
<1>5. ASSUME Running(s), handlers'[s].id = handlers[s].id, handlers[s].step # "insert",
             handlers'[s].step # "insert", handlers'[s].wallet = handlers[s].wallet
      PROVE  chain'[v] # NoVoucher /\ rows'[v] # NoRow /\ rows'[v].account = handlers'[s].wallet
  BY <1>5, KnownIdsStay DEF WalletOf
<1>6. CASE Moves(s) /\ ~Starts(s) /\ handlers'[s].id = handlers[s].id /\ handlers[s].step # "issue"
  BY <1>5, <1>6
     DEF Moves, Enters, Decides, Pays, Widens, FindsStale, Revokes, Retires, KeepsRow, Keeps
<1>7. CASE Moves(s) /\ ~Starts(s) /\ ~(Pays(s) /\ handlers[s].step = "issue")
  <2>1. handlers[s].step # "issue" /\ Running(s)
    BY <1>7 DEF Moves, Enters, Decides, Pays, Widens, FindsStale, Revokes, Retires, KeepsRow, Keeps
  <2>2. handlers'[s].id = handlers[s].id
        \/ (Enters(s) /\ v \in LiveRows(WalletOf(s)) /\ handlers'[s].step = "branch")
    BY <1>7 DEF Moves, Enters, Decides, Pays, Widens, FindsStale, Revokes, Retires, KeepsRow, Keeps
  <2> QED BY <1>3, <1>6, <1>7, <2>1, <2>2
<1> QED BY <1>1, <1>2, <1>4, <1>7, HandlerMoves

LEMMA OrphansUnsavedStep ==
    ASSUME Basics, [Next]_vars
    PROVE  OrphansAreUnsaved'
<1> SUFFICES ASSUME NEW o \in orphans'
             PROVE  /\ o.step \in {"issue", "update"} => o.wallet \in unsaved'
                    /\ o.step \in {"update", "revoke"} =>
                          o.id \in VoucherIds /\ chain'[o.id] # NoVoucher
  BY DEF OrphansAreUnsaved
<1>1. CASE o \in orphans
  BY <1>1, HistoryStep, ChainGrows DEF Basics, OrphansAreUnsaved
<1>2. CASE o \notin orphans
  <2>1. PICK s \in Slots : SendTimesOut(s) /\ o = OrphanOf(handlers[s])
    BY <1>2, OrphansChange DEF SendTimesOut, LandsLate
  <2>2. /\ o.step = handlers[s].step /\ o.wallet = handlers[s].wallet /\ o.id = handlers[s].id
    BY <2>1, OrphanTyped
  <2>3. Running(s) /\ chain' = chain
    BY <2>1 DEF SendTimesOut, At, Running
  <2>4. HandlerShape(handlers[s])
    BY <2>3 DEF Basics, HandlersAreShaped
  <2>5. ASSUME handlers[s].step \in {"issue", "update"} PROVE o.wallet \in unsaved'
    BY <2>1, <2>2, <2>4, <2>5 DEF SendTimesOut, HandlerShape
  <2>6. ASSUME handlers[s].step \in {"update", "revoke"}
        PROVE  o.id \in VoucherIds /\ chain'[o.id] # NoVoucher
    BY <2>2, <2>3, <2>6, HoldsARow, StepHoldsARow
  <2> QED BY <2>2, <2>5, <2>6
<1> QED BY <1>1, <1>2

LEMMA BasicsStep ==
    ASSUME Basics, [Next]_vars
    PROVE  Basics'
  BY TypesStep, ShapeStep, IdsStep, OrphansUnsavedStep DEF Basics

----------------------------------------------------------------------------
(* Rows, the chain and the time                                            *)

LEMMA FitsInit == Init => RowsFitTheChain /\ LooksHold
<1> SUFFICES ASSUME Init PROVE RowsFitTheChain /\ LooksHold
  OBVIOUS
<1>1. /\ \A v \in VoucherIds : rows[v] = NoRow /\ chain[v] = NoVoucher
      /\ \A s \in Slots : handlers[s] = NoHandler
  BY DEF Init
<1> QED BY <1>1 DEF RowsFitTheChain, LooksHold, PastLock, Running

LEMMA RowNumbers ==
    ASSUME NEW e \in RowRecords
    PROVE  e.validUpTo \in Nat /\ e.validUpToBlock \in Nat /\ e.lastRenewedAt \in Nat
<1>1. MaxTime \in Nat
  BY VoucherAssumption
<1> QED BY <1>1 DEF RowRecords, Time

(* A row that fits goes on fitting: the chain and the time only move on.   *)
LEMMA FitsStays ==
    ASSUME Basics, [Next]_vars, NEW e \in RowRecords, NEW v \in VoucherIds, chain[v] # NoVoucher,
           Fits(e, v)
    PROVE  Fits(e, v)'
<1>1. e.validUpTo \in Nat /\ e.validUpToBlock \in Nat /\ e.lastRenewedAt \in Nat
  BY RowNumbers
<1>2. /\ chain[v] \in OnChain /\ chain'[v] \in OnChain /\ chain'[v].expiry >= chain[v].expiry
  BY ChainGrows DEF Basics, VoucherTypes, VoucherTypeOK
<1>3. chain[v].expiry \in Nat /\ chain'[v].expiry \in Nat
  BY <1>2 DEF OnChain
<1>4. Duration \in Nat /\ now' >= now /\ lag' >= lag
      /\ now \in Nat /\ now' \in Nat /\ lag \in Nat /\ lag' \in Nat
  BY ClockStep, VoucherAssumption
<1> QED BY <1>1, <1>2, <1>3, <1>4 DEF Fits

(* The row a step has a handler hold.                                      *)
LEMMA NewRowFits ==
    ASSUME VoucherTypes, NEW h \in Handlers, NEW v,
           NEW c \in OnChain, c = chain'[v], c.expiry >= block + Duration, UNCHANGED clock
    PROVE  /\ NewRow(h).validUpToBlock <= c.expiry
           /\ NewRow(h).validUpTo >= NewRow(h).validUpToBlock
           /\ NewRow(h).validUpToBlock + lag' >= NewRow(h).lastRenewedAt + Duration
           /\ NewRow(h).lastRenewedAt <= now'
<1>1. now \in Nat /\ lag \in Nat /\ lag <= now /\ Duration \in Nat /\ now' = now /\ lag' = lag
  BY VoucherAssumption DEF VoucherTypes, VoucherTypeOK, Time, clock
<1>2. block = now - lag
  BY DEF block
<1>3. /\ NewRow(h).lastRenewedAt = now /\ NewRow(h).validUpToBlock = block + Duration
      /\ NewRow(h).validUpTo = now + Duration
  BY NewRowTyped
<1>4. c.expiry \in Nat
  BY DEF OnChain
<1> QED BY <1>1, <1>2, <1>3, <1>4

LEMMA RenewedFits ==
    ASSUME Basics, NEW h \in Handlers, h.existing \in RowRecords, NEW v \in VoucherIds,
           chain[v] \in OnChain, Fits(h.existing, v),
           ChainUpdates(h, v, Prolongation(h.existing)), UNCHANGED <<clock, rows>>
    PROVE  /\ Renewed(h).validUpToBlock <= chain'[v].expiry
           /\ Renewed(h).validUpTo >= Renewed(h).validUpToBlock
           /\ Renewed(h).validUpToBlock + lag' >= Renewed(h).lastRenewedAt + Duration
           /\ Renewed(h).lastRenewedAt <= now'
<1> DEFINE e == h.existing
           p == Prolongation(e)
<1>1. now \in Nat /\ lag \in Nat /\ lag <= now /\ Duration \in Nat /\ Duration >= 1
      /\ now' = now /\ lag' = lag /\ block = now - lag
  BY VoucherAssumption DEF Basics, VoucherTypes, VoucherTypeOK, Time, clock, block
<1>2. e.validUpTo \in Nat /\ e.validUpToBlock \in Nat /\ e.lastRenewedAt \in Nat
  BY RowNumbers
<1>3. /\ p \in 0..Duration
      /\ e.validUpToBlock >= block => p >= Duration + block - e.validUpToBlock
      /\ e.validUpToBlock <= block => p = Duration
  BY ProlongationFacts DEF Basics
<1>4. /\ ChainChange(v)
      /\ chain'[v].expiry = IF p = 0 THEN chain[v].expiry ELSE Maximum(chain[v].expiry, block) + p
  BY <1>3, UpdateChange DEF Basics
<1>5. chain[v].expiry \in Nat /\ block \in Nat
  BY <1>1 DEF OnChain
<1>6. /\ e.validUpToBlock <= chain[v].expiry /\ e.validUpTo >= e.validUpToBlock
      /\ e.validUpToBlock + lag >= e.lastRenewedAt + Duration
  BY DEF Fits
<1>7. /\ Renewed(h).lastRenewedAt = now
      /\ block + Duration > e.validUpToBlock =>
            Renewed(h).validUpToBlock = block + Duration /\ Renewed(h).validUpTo = now + Duration
      /\ block + Duration <= e.validUpToBlock =>
            /\ Renewed(h).validUpToBlock = e.validUpToBlock
            /\ Renewed(h).validUpTo = e.validUpTo
  BY RenewedTyped DEF Basics
<1>8. /\ Maximum(chain[v].expiry, block) \in Int
      /\ Maximum(chain[v].expiry, block) >= chain[v].expiry
      /\ Maximum(chain[v].expiry, block) >= block
  BY <1>5 DEF Maximum
<1> HIDE DEF e, p
<1>9. CASE block + Duration > e.validUpToBlock
  <2>1. p # 0
    BY <1>1, <1>2, <1>3, <1>5, <1>9
  <2>2. chain'[v].expiry >= block + Duration
    BY <1>1, <1>2, <1>3, <1>4, <1>5, <1>6, <1>8, <2>1
  <2> QED BY <1>1, <1>7, <1>9, <2>2
<1>10. CASE block + Duration <= e.validUpToBlock
  <2>1. chain'[v].expiry >= chain[v].expiry /\ chain'[v].expiry \in Nat
    BY <1>4, <1>3, <1>5, <1>8 DEF ChainChange, OnChain
  <2> QED BY <1>1, <1>2, <1>5, <1>6, <1>7, <1>10, <2>1
<1> QED BY <1>1, <1>2, <1>5, <1>9, <1>10

LEMMA SavedRowFits ==
    ASSUME Basics, RowsFitTheChain, [Next]_vars, NEW s \in Slots, Saves(s)
    PROVE  Fits(rows'[handlers[s].id], handlers[s].id)
<1> DEFINE e == handlers[s].existing
           v == handlers[s].id
<1>0. PICK row : row = rows'[v]
  OBVIOUS
<1>1. /\ e \in RowRecords /\ v \in VoucherIds /\ chain[v] \in OnChain /\ Fits(e, v)
      /\ row \in RowRecords
  BY <1>0, HoldsARow DEF Saves, RowsFitTheChain
<1>2. /\ e.validUpTo \in Nat /\ e.validUpToBlock \in Nat /\ e.lastRenewedAt \in Nat
      /\ row.validUpTo \in Nat /\ row.validUpToBlock \in Nat
  BY <1>1, RowNumbers
<1>3. chain[v].expiry \in Nat /\ now \in Nat /\ lag \in Nat /\ block = now - lag /\ block \in Nat
      /\ Duration \in Nat
  BY <1>1, ClockStep, VoucherAssumption DEF OnChain
<1>4. row.lastRenewedAt = e.lastRenewedAt
  BY <1>0 DEF Saves
<1>5. CASE row.validUpTo = e.validUpTo /\ row.validUpToBlock = e.validUpToBlock
  <2>1. Fits(row, v)
    BY <1>1, <1>4, <1>5 DEF Fits
  <2> QED BY <1>0, <2>1
<1>6. CASE /\ row.validUpToBlock = chain[v].expiry
           /\ row.validUpTo = now + Maximum(1, chain[v].expiry - block)
  <2>1. Maximum(1, chain[v].expiry - block) \in Int
        /\ Maximum(1, chain[v].expiry - block) >= chain[v].expiry - block
    BY <1>3 DEF Maximum
  <2>2. Fits(row, v)
    BY <1>1, <1>2, <1>3, <1>4, <1>6, <2>1 DEF Fits
  <2> QED BY <1>0, <2>2
<1> QED BY <1>0, <1>5, <1>6 DEF Saves

LEMMA RowsFitStep ==
    ASSUME Basics, RowsFitTheChain, [Next]_vars
    PROVE  RowsFitTheChain'
<1>0. Basics'
  BY BasicsStep
<1>1. ASSUME NEW v \in VoucherIds, rows'[v] # NoRow PROVE Fits(rows[v], v)'
  <2>1. PICK row : row = rows'[v]
    OBVIOUS
  <2>2. row \in RowRecords
    BY <1>0, <1>1, <2>1 DEF Basics, VoucherTypes, VoucherTypeOK
  <2>3. Fits(row, v) /\ chain[v] # NoVoucher
    <3>1. CASE rows'[v] = rows[v]
      BY <1>1, <2>1, <3>1 DEF RowsFitTheChain, Basics, VoucherTypes, VoucherTypeOK
    <3>2. CASE rows'[v] # rows[v]
      <4>1. PICK s \in Slots : Saves(s)
        BY <3>2, RowsChange
      <4>2. handlers[s].id = v
        <5>1. rows \in [VoucherIds -> RowRecords \cup {NoRow}]
          BY DEF Basics, VoucherTypes, VoucherTypeOK
        <5> QED BY <3>2, <4>1, <5>1 DEF Saves
      <4> QED BY <2>1, <4>1, <4>2, SavedRowFits, HoldsARow DEF Saves
    <3> QED BY <3>1, <3>2
  <2>4. Fits(row, v)'
    BY <2>2, <2>3, FitsStays
  <2> QED BY <2>1, <2>4 DEF Fits
<1>2. ASSUME NEW s \in Slots, handlers'[s] # NoHandler, handlers'[s].existing # NoRow
      PROVE  Fits(handlers[s].existing, handlers[s].id)'
  <2>1. PICK e, v : e = handlers'[s].existing /\ v = handlers'[s].id
    OBVIOUS
  <2> SUFFICES Fits(e, v)'
    BY <2>1 DEF Fits
  <2>2. HandlerShape(handlers'[s]) /\ handlers'[s] \in Handlers
    BY <1>0, <1>2 DEF Basics, HandlersAreShaped, VoucherTypes, VoucherTypeOK, Running
  <2>3. e \in RowRecords /\ v \in VoucherIds
    BY <1>2, <2>1, <2>2 DEF HandlerShape, Handlers
  <2>4. ASSUME Running(s), e = handlers[s].existing, v = handlers[s].id PROVE Fits(e, v)'
    BY <1>2, <2>1, <2>3, <2>4, FitsStays, HoldsARow DEF RowsFitTheChain
  <2>5. ASSUME e = rows[v] PROVE Fits(e, v)'
    BY <1>2, <2>1, <2>3, <2>5, FitsStays DEF RowsFitTheChain, Basics, VoucherTypes, VoucherTypeOK
  <2>6. CASE Pays(s)
    <3>1. Running(s) /\ handlers[s] \in Handlers /\ UNCHANGED <<clock, rows>> /\ VoucherTypes
      BY <2>6, RunningTyped DEF Pays, Keeps, Basics
    <3>2. CASE handlers[s].step = "issue"
      <4>1. /\ e = NewRow(handlers[s]) /\ chain[v] = NoVoucher
            /\ chain' = [chain EXCEPT ![v] = [expiry |-> block + Duration, revoked |-> FALSE]]
        BY <2>1, <2>6, <3>2 DEF Pays
      <4> DEFINE c == [expiry |-> block + Duration, revoked |-> FALSE]
      <4>2. block + Duration \in Nat
        BY ClockStep, VoucherAssumption
      <4>3. c \in OnChain /\ c.expiry = block + Duration
        BY <4>2 DEF OnChain
      <4>4. chain' = [chain EXCEPT ![v] = c]
        BY <4>1
      <4> HIDE DEF c
      <4>5. chain'[v] = c
        BY <2>3, <3>1, <4>4 DEF VoucherTypes, VoucherTypeOK
      <4>6. c.expiry >= block + Duration
        BY <4>2, <4>3
      <4>7. UNCHANGED clock
        BY <3>1
      <4>8. /\ e.validUpToBlock <= c.expiry /\ e.validUpTo >= e.validUpToBlock
            /\ e.validUpToBlock + lag' >= e.lastRenewedAt + Duration /\ e.lastRenewedAt <= now'
        BY <3>1, <4>1, <4>3, <4>5, <4>6, <4>7, NewRowFits
      <4> QED BY <4>5, <4>8 DEF Fits
    <3>3. CASE handlers[s].step = "update"
      <4>1. /\ e = Renewed(handlers[s]) /\ v = handlers[s].id
            /\ ChainUpdates(handlers[s], v, Prolongation(handlers[s].existing))
        BY <2>1, <2>6, <3>3 DEF Pays
      <4>2. /\ handlers[s].existing \in RowRecords /\ chain[v] \in OnChain
            /\ handlers[s].existing # NoRow
        BY <3>1, <3>3, <4>1, HoldsARow, StepHoldsARow
      <4>3. Fits(handlers[s].existing, v)
        BY <3>1, <4>1, <4>2 DEF RowsFitTheChain
      <4>4. /\ e.validUpToBlock <= chain'[v].expiry /\ e.validUpTo >= e.validUpToBlock
            /\ e.validUpToBlock + lag' >= e.lastRenewedAt + Duration /\ e.lastRenewedAt <= now'
        BY <2>3, <3>1, <4>1, <4>2, <4>3, RenewedFits
      <4> QED BY <4>4 DEF Fits
    <3> QED BY <2>6, <3>2, <3>3 DEF Pays
  <2>7. CASE Widens(s)
    <3>1. Running(s) /\ handlers[s].step = "append" /\ v = handlers[s].id
          /\ e = [handlers[s].existing EXCEPT !.programs = @ \cup handlers[s].programs]
      BY <2>1, <2>7 DEF Widens, Keeps
    <3>2. PICK f : f = handlers[s].existing
      OBVIOUS
    <3>3. f \in RowRecords /\ f # NoRow /\ Fits(f, v) /\ chain[v] # NoVoucher
      BY <3>1, <3>2, HoldsARow, StepHoldsARow DEF RowsFitTheChain
    <3>4. Fits(f, v)'
      BY <2>3, <3>3, FitsStays
    <3>5. /\ e.validUpTo = f.validUpTo /\ e.validUpToBlock = f.validUpToBlock
          /\ e.lastRenewedAt = f.lastRenewedAt
      BY <3>1, <3>2, <3>3 DEF RowRecords
    <3> QED BY <3>4, <3>5 DEF Fits
  <2>8. CASE ~Pays(s) /\ ~Widens(s) /\ Moves(s)
    <3>1. \/ Running(s) /\ e = handlers[s].existing /\ v = handlers[s].id
          \/ e = rows[v]
      BY <1>2, <2>1, <2>8
         DEF Moves, Starts, Enters, Decides, FindsStale, Revokes, Retires, KeepsRow, Keeps
    <3> QED BY <2>4, <2>5, <3>1
  <2>9. CASE handlers'[s] = handlers[s]
    BY <1>2, <2>1, <2>4, <2>9 DEF Running
  <2> QED BY <1>2, <2>6, <2>7, <2>8, <2>9, HandlerMoves
<1>3. ASSUME NEW v \in VoucherIds, chain'[v] # NoVoucher, chain'[v].revoked
      PROVE  chain'[v].expiry <= block'
  <2>1. chain \in [VoucherIds -> OnChain \cup {NoVoucher}] /\ chain'[v] \in OnChain
    BY <1>0, <1>3 DEF Basics, VoucherTypes, VoucherTypeOK
  <2>2. chain'[v].expiry \in Nat /\ block \in Nat /\ block' \in Nat /\ block' >= block
    BY <2>1, ClockStep DEF OnChain
  <2>3. CASE chain'[v] = chain[v]
    <3>1. chain[v].expiry <= block
      BY <1>3, <2>3 DEF RowsFitTheChain
    <3> QED BY <2>2, <2>3, <3>1
  <2>4. CASE chain'[v] # chain[v]
    <3>1. PICK u \in VoucherIds : ChainChange(u)
      BY <2>4, ChainChanges
    <3>2. u = v
      BY <2>1, <2>4, <3>1 DEF ChainChange
    <3>3. chain'[v].expiry <= block
      BY <1>3, <3>1, <3>2 DEF ChainChange
    <3> QED BY <2>2, <3>3
  <2> QED BY <2>3, <2>4
<1> QED BY <1>1, <1>2, <1>3 DEF RowsFitTheChain, Running

LEMMA LooksStep ==
    ASSUME Basics, RowsFitTheChain, LooksHold, [Next]_vars
    PROVE  LooksHold'
<1> SUFFICES ASSUME NEW s \in Slots, handlers'[s] # NoHandler, handlers'[s].step # "lock"
             PROVE  /\ handlers'[s].step \in {"update", "retire"}
                          => handlers'[s].existing.lastRenewedAt + Interval <= now'
                    /\ handlers'[s].cron => handlers'[s].existing.validUpTo < now'
  BY DEF LooksHold, PastLock, Running
<1>0. Basics'
  BY BasicsStep
<1>1. HandlerShape(handlers'[s]) /\ handlers'[s] \in Handlers
  BY <1>0 DEF Basics, HandlersAreShaped, VoucherTypes, VoucherTypeOK, Running
<1>2. /\ now \in Nat /\ now' \in Nat /\ now' >= now /\ Interval \in Nat
  BY ClockStep, VoucherAssumption
<1>3. PICK e : e = handlers'[s].existing
  OBVIOUS
<1>4. ASSUME e # NoRow PROVE e.lastRenewedAt \in Nat /\ e.validUpTo \in Nat
  BY <1>1, <1>3, <1>4, RowNumbers DEF Handlers
<1>5. CASE handlers'[s] = handlers[s] \/ Revokes(s)
  <2>1. /\ PastLock(s) /\ handlers[s].existing = e /\ handlers[s].cron = handlers'[s].cron
        /\ handlers'[s].step \in {"update", "retire"} => handlers[s].step \in {"update", "retire"}
    BY <1>3, <1>5 DEF PastLock, Running, Revokes, KeepsRow, Keeps
  <2>2. /\ handlers[s].step \in {"update", "retire"} => e.lastRenewedAt + Interval <= now
        /\ handlers[s].cron => e.validUpTo < now
    BY <2>1 DEF LooksHold
  <2>3. ASSUME handlers'[s].step \in {"update", "retire"} PROVE e.lastRenewedAt + Interval <= now'
    <3>1. e # NoRow
      BY <1>1, <1>3, <2>3 DEF HandlerShape
    <3> QED BY <1>2, <1>4, <2>1, <2>2, <2>3, <3>1
  <2>4. ASSUME handlers'[s].cron PROVE e.validUpTo < now'
    <3>1. e # NoRow
      BY <1>1, <1>3, <2>4 DEF HandlerShape
    <3> QED BY <1>2, <1>4, <2>1, <2>2, <2>4, <3>1
  <2> QED BY <1>3, <2>3, <2>4
<1>6. CASE Enters(s)
  <2>1. UNCHANGED clock
    BY <1>6 DEF Enters, Keeps
  <2>2. now' = now
    BY <2>1 DEF clock
  <2>3. handlers'[s].step \notin {"update", "retire"}
    BY <1>6 DEF Enters
  <2>4. ASSUME handlers'[s].cron PROVE e.validUpTo < now'
    BY <1>3, <1>6, <2>2, <2>4 DEF Enters, Expired, Keeps
  <2> QED BY <1>3, <2>3, <2>4
<1>7. CASE FindsStale(s)
  <2>1. /\ Running(s) /\ handlers[s].existing = e /\ handlers[s].step \in {"update", "append"}
        /\ UNCHANGED clock /\ handlers'[s].cron = handlers[s].cron
    BY <1>3, <1>7 DEF FindsStale, KeepsRow, Keeps
  <2>2. PICK v : v = handlers[s].id
    OBVIOUS
  <2>3. e # NoRow /\ e \in RowRecords /\ v \in VoucherIds /\ chain[v] \in OnChain
        /\ chain[v] # NoVoucher /\ Fits(e, v)
    BY <2>1, <2>2, HoldsARow, StepHoldsARow DEF RowsFitTheChain
  <2>4. ~handlers'[s].cron
    BY <2>1 DEF Basics, HandlersAreShaped, HandlerShape
  <2>5. e.lastRenewedAt + Interval <= now
    <3>1. CASE handlers[s].step = "update"
      BY <2>1, <3>1 DEF LooksHold, PastLock
    <3>2. CASE Gone(v) \/ block >= chain[v].expiry
      <4>1. block >= chain[v].expiry
        BY <2>3, <3>2, ClockStep DEF RowsFitTheChain, Gone, OnChain
      <4>2. /\ chain[v].expiry \in Nat /\ block = now - lag /\ lag \in Nat /\ block \in Nat
            /\ Duration \in Nat /\ Duration >= Interval
        BY <2>3, ClockStep, VoucherAssumption DEF OnChain
      <4>3. e.validUpToBlock \in Nat /\ e.lastRenewedAt \in Nat
        BY <2>3, RowNumbers
      <4>4. e.validUpToBlock <= chain[v].expiry /\ e.validUpToBlock + lag >= e.lastRenewedAt + Duration
        BY <2>3 DEF Fits
      <4> QED BY <1>2, <4>1, <4>2, <4>3, <4>4
    <3> QED BY <1>7, <2>2, <3>1, <3>2 DEF FindsStale
  <2>6. now' = now
    BY <2>1 DEF clock
  <2> QED BY <1>3, <2>4, <2>5, <2>6
<1>8. CASE Decides(s)
  <2>1. /\ Running(s) /\ handlers[s].existing = e /\ handlers[s].step \in {"branch", "replace"}
        /\ UNCHANGED clock /\ handlers'[s].cron = handlers[s].cron
    BY <1>3, <1>8 DEF Decides, KeepsRow, Keeps
  <2>2. ~handlers'[s].cron
    BY <2>1 DEF Basics, HandlersAreShaped, HandlerShape
  <2>3. ASSUME handlers'[s].step \in {"update", "retire"} PROVE e.lastRenewedAt + Interval <= now
    <3>1. e # NoRow /\ e.lastRenewedAt <= now - Interval
      BY <1>8, <2>1, <2>3 DEF Decides
    <3> QED BY <1>2, <1>4, <3>1
  <2>4. now' = now
    BY <2>1 DEF clock
  <2> QED BY <1>3, <2>2, <2>3, <2>4
<1>9. CASE Pays(s) \/ Widens(s) \/ Retires(s)
  <2>1. /\ Running(s) /\ handlers'[s].step \notin {"update", "retire"}
        /\ handlers[s].step \in {"issue", "update", "append", "retire"}
        /\ handlers'[s].cron = handlers[s].cron
    BY <1>9 DEF Pays, Widens, Retires, KeepsRow, Keeps
  <2>2. ~handlers'[s].cron
    BY <2>1 DEF Basics, HandlersAreShaped, HandlerShape
  <2> QED BY <2>1, <2>2
<1>10. ~Starts(s)
  BY DEF Starts
<1> QED BY <1>5, <1>6, <1>7, <1>8, <1>9, <1>10, HandlerMoves DEF Moves

----------------------------------------------------------------------------
(* The locks                                                               *)

LEMMA LocksInit == Init => LocksAreHeld
<1> SUFFICES ASSUME Init PROVE LocksAreHeld
  OBVIOUS
<1>1. /\ \A w \in Wallets : locks[w] = Free
      /\ \A s \in Slots : handlers[s] = NoHandler
  BY DEF Init
<1> QED BY <1>1 DEF LocksAreHeld, Safe, PastLock, Running

(* What becomes of the lock of a wallet in a step.                         *)
LEMMA LockFate ==
    ASSUME Basics, [Next]_vars, NEW w \in Wallets
    PROVE  \/ locks'[w] = locks[w]
           \/ locks'[w] = Free /\ w \in unlocked'
           \/ locks'[w] = Free /\ \E s \in Slots : s = locks[w] /\ Ends(s)
           \/ locks[w] = Free /\ \E s \in Slots : s = locks'[w] /\ Enters(s) /\ WalletOf(s) = w
<1>1. locks \in [Wallets -> Slots \cup {Free}]
  BY DEF Basics, VoucherTypes, VoucherTypeOK
<1>2. ASSUME NEW s \in Slots, Ends(s)
      PROVE  locks'[w] = locks[w] \/ (locks'[w] = Free /\ s = locks[w])
  BY <1>2 DEF Ends
<1>3. ASSUME NEW s \in Slots, Running(s), Lock(s)
      PROVE  \/ locks'[w] = locks[w]
             \/ locks[w] = Free /\ s = locks'[w] /\ WalletOf(s) = w
  <2>1. locks' = [locks EXCEPT ![WalletOf(s)] = s] /\ locks[WalletOf(s)] = Free
    BY <1>3 DEF Lock, WalletOf
  <2> QED BY <1>1, <2>1
<1>4. ASSUME NEW u \in Wallets, LoseLock(u)
      PROVE  locks'[w] = locks[w] \/ (locks'[w] = Free /\ w \in unlocked')
  BY <1>1, <1>4 DEF LoseLock
<1> QED BY <1>2, <1>3, <1>4, LocksChange

LEMMA LocksHeldStep ==
    ASSUME Basics, LocksAreHeld, [Next]_vars
    PROVE  LocksAreHeld'
<1>0. Basics' /\ locks \in [Wallets -> Slots \cup {Free}] /\ Free \notin Slots
      /\ locks' \in [Wallets -> Slots \cup {Free}]
  BY BasicsStep, VoucherAssumption DEF Basics, VoucherTypes, VoucherTypeOK
<1>1. ASSUME NEW w \in Wallets, locks'[w] # Free
      PROVE  PastLock(locks[w])' /\ WalletOf(locks[w])' = w
  <2>1. PICK t \in Slots : t = locks'[w]
    BY <1>0, <1>1
  <2>2. CASE locks'[w] = locks[w]
    <3>1. PastLock(t) /\ WalletOf(t) = w
      BY <1>1, <2>1, <2>2 DEF LocksAreHeld
    <3>2. CASE handlers'[t] = handlers[t]
      BY <2>1, <3>1, <3>2 DEF PastLock, Running, WalletOf
    <3>3. ~Ends(t)
      BY <1>0, <2>1, <2>2 DEF Ends
    <3>4. CASE Moves(t)
      <4>1. handlers'[t].wallet = w /\ handlers'[t].step # "lock" /\ handlers'[t] # NoHandler
        BY <3>1, <3>4 DEF PastLock, Running, WalletOf, Moves, Starts, Enters, Decides, Pays, Widens,
                          FindsStale, Revokes, Retires, KeepsRow, Keeps
      <4> QED BY <2>1, <4>1 DEF PastLock, Running, WalletOf
    <3> QED BY <3>2, <3>3, <3>4, HandlerMoves
  <2>3. CASE Enters(t) /\ WalletOf(t) = w
    <3>1. handlers'[t].wallet = w /\ handlers'[t].step # "lock" /\ handlers'[t] # NoHandler
      BY <2>3 DEF Enters, Keeps, WalletOf, Running
    <3> QED BY <2>1, <3>1 DEF PastLock, Running, WalletOf
  <2> QED BY <1>1, <2>1, <2>2, <2>3, LockFate
<1>2. ASSUME NEW s \in Slots, handlers'[s] # NoHandler, handlers'[s].step # "lock",
             handlers'[s].wallet \notin unlocked'
      PROVE  locks'[handlers'[s].wallet] = s
  <2>1. PICK w \in Wallets : w = handlers'[s].wallet
    BY <1>0, <1>2 DEF Basics, VoucherTypes, VoucherTypeOK, Handlers
  <2>2. w \notin unlocked
    BY <1>2, <2>1, HistoryStep
  <2>3. CASE handlers'[s] = handlers[s]
    <3>1. Safe(s) /\ WalletOf(s) = w
      BY <1>2, <2>1, <2>2, <2>3 DEF Safe, PastLock, Running, WalletOf
    <3>2. locks[w] = s
      BY <3>1 DEF LocksAreHeld
    <3>3. ~Ends(s)
      BY <1>0, <1>2 DEF Ends, Basics, VoucherTypes, VoucherTypeOK
    <3> QED BY <1>0, <1>2, <2>1, <3>2, <3>3, LockFate
  <2>4. CASE Enters(s)
    <3>1. WalletOf(s) = w /\ locks' = [locks EXCEPT ![WalletOf(s)] = s]
      BY <2>1, <2>4 DEF Enters, Keeps, Lock, WalletOf
    <3> QED BY <1>0, <2>1, <3>1
  <2>5. CASE Moves(s) /\ ~Enters(s)
    <3>1. locks' = locks /\ PastLock(s) /\ WalletOf(s) = w
      BY <1>2, <2>1, <2>5 DEF PastLock, Running, WalletOf, Moves, Starts, Enters, Decides, Pays,
                             Widens, FindsStale, Revokes, Retires, KeepsRow, Keeps
    <3>2. Safe(s)
      BY <2>2, <3>1 DEF Safe
    <3> QED BY <2>1, <3>1, <3>2 DEF LocksAreHeld
  <2> QED BY <1>2, <2>3, <2>4, <2>5, HandlerMoves
<1> QED BY <1>1, <1>2 DEF LocksAreHeld, Safe, PastLock, Running, WalletOf

(* A wallet whose lock was never lost has one handler under it.            *)
LEMMA SafeIsAlone ==
    ASSUME LocksAreHeld, NEW s \in Slots, NEW t \in Slots, Safe(s), Safe(t),
           WalletOf(s) = WalletOf(t)
    PROVE  s = t
  BY DEF LocksAreHeld

----------------------------------------------------------------------------
(* What a handler knows of the rows of its wallet                          *)

RowsKept == RowsAreKnown /\ AtMostOneLive /\ RowsAreFresh
Settled == Basics /\ RowsFitTheChain /\ LooksHold /\ LocksAreHeld /\ RowsKept

LEMMA RowsInit == Init => RowsKept
<1> SUFFICES ASSUME Init PROVE RowsKept
  OBVIOUS
<1>1. /\ \A v \in VoucherIds : rows[v] = NoRow
      /\ \A s \in Slots : handlers[s] = NoHandler
  BY DEF Init
<1> QED BY <1>1 DEF RowsKept, RowsAreKnown, AtMostOneLive, RowsAreFresh, Safe, PastLock, Running,
              LiveRows

(* Who saves a row of a wallet whose lock was never lost is under it.      *)
LEMMA SaverIsSafe ==
    ASSUME Basics, [Next]_vars, NEW t \in Slots, Saves(t), WalletOf(t) \notin unlocked'
    PROVE  Safe(t) /\ WalletOf(t) \notin unlocked
  BY HistoryStep DEF Saves, Safe, PastLock

(* A handler that stays as it is did not save.                             *)
LEMMA SaverMoves ==
    ASSUME Basics, [Next]_vars, NEW t \in Slots, Saves(t)
    PROVE  handlers'[t] # handlers[t]
  BY DEF Saves, Retires, Running

(* Only a handler of a wallet saves its rows.                              *)
LEMMA SavedWallet ==
    ASSUME Basics, [Next]_vars, NEW t \in Slots, Saves(t)
    PROVE  /\ handlers[t].id \in VoucherIds
           /\ rows'[handlers[t].id].account = WalletOf(t)
           /\ rows[handlers[t].id] # NoRow => rows[handlers[t].id].account = WalletOf(t)
           /\ \A v \in VoucherIds \ {handlers[t].id} : rows'[v] = rows[v]
<1>1. handlers[t].id \in VoucherIds
  BY HoldsARow DEF Saves
<1>2. handlers[t].existing.account = WalletOf(t)
  BY DEF Basics, HandlersAreShaped, HandlerShape, Saves, WalletOf
<1>3. rows[handlers[t].id] # NoRow => rows[handlers[t].id].account = WalletOf(t)
  BY <1>1 DEF Basics, IdsAreKnown, Saves
<1>4. \A v \in VoucherIds \ {handlers[t].id} : rows'[v] = rows[v]
  BY DEF Saves, Basics, VoucherTypes, VoucherTypeOK
<1>5. rows'[handlers[t].id].account = WalletOf(t)
  BY <1>2 DEF Saves
<1> QED BY <1>1, <1>3, <1>4, <1>5

LEMMA LiveRowsStay ==
    ASSUME Basics, [Next]_vars, NEW w \in Wallets,
           \A t \in Slots : Saves(t) => WalletOf(t) # w
    PROVE  LiveRows(w)' = LiveRows(w)
<1>1. CASE rows' = rows
  BY <1>1 DEF LiveRows
<1>2. ASSUME NEW t \in Slots, Saves(t) PROVE LiveRows(w)' = LiveRows(w)
  <2>1. WalletOf(t) # w
    BY <1>2
  <2>2. PICK v \in VoucherIds : v = handlers[t].id
    BY <1>2, SavedWallet
  <2>3. /\ rows'[v].account # w
        /\ rows[v] # NoRow => rows[v].account # w
        /\ \A u \in VoucherIds \ {v} : rows'[u] = rows[u]
    BY <1>2, <2>1, <2>2, SavedWallet
  <2> QED BY <2>3 DEF LiveRows
<1> QED BY <1>1, <1>2, RowsChange

LEMMA SavedLiveRows ==
    ASSUME Basics, [Next]_vars, NEW t \in Slots, Saves(t), KnowsRows(t),
           NEW w \in Wallets, w = WalletOf(t), NEW v \in VoucherIds, v = handlers[t].id
    PROVE  LiveRows(w)' \subseteq {v}
<1>1. \A u \in VoucherIds \ {v} : rows'[u] = rows[u]
  BY SavedWallet
<1>2. LiveRows(w) \subseteq {v}
  BY DEF KnowsRows, Saves, WalletOf
<1> QED BY <1>1, <1>2 DEF LiveRows

LEMMA RetiringEmpties ==
    ASSUME Basics, NEW s \in Slots, Retires(s), NEW w \in Wallets,
           LiveRows(w) \subseteq {handlers[s].id}
    PROVE  LiveRows(w)' = {}
<1> DEFINE v == handlers[s].id
<1>1. /\ handlers[s].existing \in RowRecords /\ v \in VoucherIds
  <2>1. Running(s) /\ handlers[s].step = "retire"
    BY DEF Retires, KeepsRow, Keeps
  <2> QED BY <2>1, HoldsARow, StepHoldsARow
<1> DEFINE row == [handlers[s].existing EXCEPT !.revoked = TRUE]
<1>2. row.revoked
  BY <1>1 DEF RowRecords
<1>3. rows' = [rows EXCEPT ![v] = row]
  BY DEF Retires
<1> HIDE DEF row
<1>4. rows'[v] = row /\ \A u \in VoucherIds \ {v} : rows'[u] = rows[u]
  BY <1>1, <1>3 DEF Basics, VoucherTypes, VoucherTypeOK
<1> HIDE DEF v
<1>5. LiveRows(w) \subseteq {v}
  BY DEF v
<1> QED BY <1>2, <1>4, <1>5 DEF LiveRows

LEMMA KnowsStep ==
    ASSUME Settled, [Next]_vars, NEW s \in Slots, handlers'[s] # NoHandler,
           handlers'[s].step # "lock", handlers'[s].wallet \notin unlocked'
    PROVE  KnowsRows(s)'
<1>0. Basics /\ Basics' /\ LocksAreHeld /\ RowsAreKnown /\ AtMostOneLive
  BY BasicsStep DEF Settled, RowsKept
<1>1. PICK w \in Wallets : w = handlers'[s].wallet
  BY <1>0 DEF Basics, VoucherTypes, VoucherTypeOK, Handlers
<1>2. w \notin unlocked
  BY <1>0, <1>1, HistoryStep
<1>3. HandlerShape(handlers'[s])
  BY <1>0 DEF Basics, HandlersAreShaped, Running
<1> SUFFICES IF \/ handlers'[s].step \in {"issue", "insert", "replace"}
                \/ handlers'[s].existing = NoRow
             THEN LiveRows(w)' = {} ELSE LiveRows(w)' \subseteq {handlers'[s].id}
  BY <1>1 DEF KnowsRows, LiveRows
<1>4. ASSUME PastLock(s), WalletOf(s) = w
      PROVE  /\ Safe(s)
             /\ IF handlers[s].step \in {"issue", "insert", "replace"} \/ handlers[s].existing = NoRow
                THEN LiveRows(w) = {} ELSE LiveRows(w) \subseteq {handlers[s].id}
  BY <1>0, <1>2, <1>4 DEF Safe, RowsAreKnown, KnowsRows, WalletOf
<1>5. CASE handlers'[s] = handlers[s]
  <2>1. PastLock(s) /\ WalletOf(s) = w
    BY <1>1, <1>5 DEF PastLock, Running, WalletOf
  <2>2. ASSUME NEW t \in Slots, Saves(t) PROVE WalletOf(t) # w
    BY <1>0, <1>1, <1>4, <1>5, <2>1, <2>2, SaverIsSafe, SaverMoves, SafeIsAlone
  <2>3. LiveRows(w)' = LiveRows(w)
    BY <1>0, <2>2, LiveRowsStay
  <2> QED BY <1>4, <1>5, <2>1, <2>3
<1>6. CASE Enters(s)
  <2>1. rows' = rows /\ WalletOf(s) = w /\ Running(s) /\ handlers[s].step = "lock"
    BY <1>1, <1>6 DEF Enters, Keeps, WalletOf
  <2>2. LiveRows(w)' = LiveRows(w)
    BY <2>1 DEF LiveRows
  <2>3. HandlerShape(handlers[s])
    BY <1>0, <2>1 DEF Basics, HandlersAreShaped
  <2>4. CASE KeepsRow(s) /\ LiveRows(WalletOf(s)) = {}
    BY <2>1, <2>2, <2>3, <2>4 DEF KeepsRow, HandlerShape
  <2>5. CASE handlers'[s].id \in LiveRows(w)
    <3>1. LiveRows(w) \subseteq {handlers'[s].id}
      BY <1>0, <1>2, <2>5 DEF AtMostOneLive
    <3>2. handlers'[s].step \in {"branch", "revoke"} /\ handlers'[s].existing # NoRow
      <4>1. handlers'[s].step \in {"branch", "revoke"}
        BY <1>6 DEF Enters
      <4>2. CASE handlers'[s].existing = rows[handlers'[s].id]
        BY <2>5, <4>1, <4>2 DEF LiveRows
      <4>3. CASE KeepsRow(s) /\ LiveRows(WalletOf(s)) = {}
        BY <2>1, <2>5, <4>3
      <4> QED BY <1>6, <4>1, <4>2, <4>3 DEF Enters
    <3> QED BY <2>2, <3>1, <3>2
  <2>6. CASE /\ handlers[s].cron /\ handlers'[s].id = handlers[s].id /\ Expired(handlers[s].id)
    <3>1. handlers[s].id \in VoucherIds
      BY <2>3, <2>6 DEF HandlerShape
    <3>2. rows[handlers[s].id].account = w
      BY <1>0, <2>1, <3>1 DEF Basics, IdsAreKnown
    <3>3. handlers'[s].id \in LiveRows(w)
      BY <2>6, <3>1, <3>2 DEF Expired, LiveRows
    <3> QED BY <2>5, <3>3
  <2> QED BY <1>6, <2>1, <2>4, <2>5, <2>6 DEF Enters
<1>7. CASE Moves(s) /\ ~Enters(s)
  <2>1. PastLock(s) /\ WalletOf(s) = w
    BY <1>1, <1>7 DEF PastLock, Running, WalletOf, Moves, Starts, Enters, Decides, Pays,
                      Widens, FindsStale, Revokes, Retires, KeepsRow, Keeps
  <2>2. /\ Safe(s)
        /\ IF handlers[s].step \in {"issue", "insert", "replace"} \/ handlers[s].existing = NoRow
           THEN LiveRows(w) = {} ELSE LiveRows(w) \subseteq {handlers[s].id}
    BY <1>4, <2>1
  <2>3. Running(s) /\ HandlerShape(handlers[s])
    BY <1>0, <2>1 DEF Basics, HandlersAreShaped, PastLock
  <2>4. ASSUME rows' = rows PROVE LiveRows(w)' = LiveRows(w)
    BY <2>4 DEF LiveRows
  <2>5. CASE Decides(s)
    BY <2>2, <2>4, <2>5 DEF Decides, KeepsRow
  <2>6. CASE Pays(s)
    <3>1. rows' = rows
      BY <2>6 DEF Pays
    <3>2. CASE handlers[s].step = "issue"
      BY <2>2, <2>4, <2>6, <3>1, <3>2 DEF Pays
    <3>3. CASE handlers[s].step = "update"
      BY <1>3, <2>2, <2>3, <2>4, <2>6, <3>1, <3>3 DEF Pays, HandlerShape
    <3> QED BY <2>6, <3>2, <3>3 DEF Pays
  <2>7. CASE Widens(s)
    BY <1>3, <2>2, <2>3, <2>4, <2>7 DEF Widens, HandlerShape
  <2>8. CASE FindsStale(s)
    BY <1>3, <2>2, <2>3, <2>4, <2>8 DEF FindsStale, KeepsRow, HandlerShape
  <2>9. CASE Revokes(s)
    BY <1>3, <2>2, <2>3, <2>4, <2>9 DEF Revokes, KeepsRow, HandlerShape
  <2>10. CASE Retires(s)
    <3>1. LiveRows(w) \subseteq {handlers[s].id}
      BY <2>2
    <3>2. LiveRows(w)' = {}
      BY <1>0, <2>10, <3>1, RetiringEmpties
    <3> QED BY <2>10, <3>2
  <2>11. ~Starts(s)
    BY <2>3 DEF Starts, Running
  <2> QED BY <1>7, <2>5, <2>6, <2>7, <2>8, <2>9, <2>10, <2>11 DEF Moves
<1>8. ~Ends(s)
  BY <1>0 DEF Ends, Basics, VoucherTypes, VoucherTypeOK
<1> QED BY <1>0, <1>5, <1>6, <1>7, <1>8, HandlerMoves

LEMMA OneLiveStep ==
    ASSUME Settled, [Next]_vars
    PROVE  AtMostOneLive'
<1>0. Basics /\ LocksAreHeld /\ RowsAreKnown /\ AtMostOneLive
  BY DEF Settled, RowsKept
<1> SUFFICES ASSUME NEW w \in Wallets, w \notin unlocked'
             PROVE  \A u, v \in LiveRows(w)' : u = v
  BY DEF AtMostOneLive
<1>1. w \notin unlocked
  BY <1>0, HistoryStep
<1>2. CASE \A t \in Slots : Saves(t) => WalletOf(t) # w
  <2>1. LiveRows(w)' = LiveRows(w)
    BY <1>0, <1>2, LiveRowsStay
  <2> QED BY <1>0, <1>1, <2>1 DEF AtMostOneLive
<1>3. ASSUME NEW t \in Slots, Saves(t), WalletOf(t) = w
      PROVE  \A u, v \in LiveRows(w)' : u = v
  <2>1. Safe(t)
    BY <1>0, <1>3, SaverIsSafe
  <2>2. KnowsRows(t)
    BY <1>0, <2>1 DEF RowsAreKnown
  <2>3. PICK v \in VoucherIds : v = handlers[t].id
    BY <1>0, <1>3, SavedWallet
  <2>4. LiveRows(w)' \subseteq {v}
    BY <1>0, <1>3, <2>2, <2>3, SavedLiveRows
  <2> QED BY <2>4
<1> QED BY <1>2, <1>3

LEMMA FreshStep ==
    ASSUME Settled, [Next]_vars, NEW s \in Slots, handlers'[s] # NoHandler,
           handlers'[s].step # "lock", handlers'[s].wallet \notin unlocked'
    PROVE  HoldsRow(s)'
<1>0. Basics /\ Basics' /\ LocksAreHeld /\ RowsAreFresh /\ RowsFitTheChain
  BY BasicsStep DEF Settled, RowsKept
<1> SUFFICES ASSUME handlers'[s].existing # NoRow, handlers'[s].step # "insert"
             PROVE  IF handlers'[s].step \in {"renew", "widen"}
                    THEN rows'[handlers'[s].id].lastRenewedAt <= handlers'[s].existing.lastRenewedAt
                    ELSE \/ handlers'[s].step \in {"issue", "replace"}
                         \/ handlers'[s].existing = rows'[handlers'[s].id]
  BY DEF HoldsRow
<1>1. PICK w \in Wallets : w = handlers'[s].wallet
  BY <1>0 DEF Basics, VoucherTypes, VoucherTypeOK, Handlers
<1>2. w \notin unlocked
  BY <1>0, <1>1, HistoryStep
<1>3. ASSUME PastLock(s), WalletOf(s) = w PROVE Safe(s) /\ HoldsRow(s)
  BY <1>0, <1>2, <1>3 DEF Safe, RowsAreFresh
<1>4. CASE handlers'[s] = handlers[s]
  <2>1. PastLock(s) /\ WalletOf(s) = w /\ Running(s)
    BY <1>1, <1>4 DEF PastLock, Running, WalletOf
  <2>2. PICK v \in VoucherIds : v = handlers[s].id
    BY <1>0, <1>4, <2>1, HoldsARow
  <2>3. rows[v] # NoRow /\ rows[v].account = w
    BY <1>0, <1>4, <2>1, <2>2 DEF Basics, IdsAreKnown
  <2>4. rows'[v] = rows[v]
    <3>1. ASSUME NEW t \in Slots, Saves(t) PROVE rows'[v] = rows[v]
      <4>1. CASE handlers[t].id = v
        <5>1. WalletOf(t) = w
          BY <1>0, <2>3, <3>1, <4>1, SavedWallet
        <5>2. t = s
          BY <1>0, <1>1, <1>3, <2>1, <3>1, <5>1, SaverIsSafe, SafeIsAlone
        <5> QED BY <1>0, <1>4, <3>1, <5>2, SaverMoves
      <4>2. CASE handlers[t].id # v
        BY <1>0, <3>1, <4>2, SavedWallet
      <4> QED BY <4>1, <4>2
    <3> QED BY <1>0, <3>1, RowsChange
  <2> QED BY <1>3, <1>4, <2>1, <2>2, <2>4 DEF HoldsRow
<1>5. CASE Enters(s)
  <2>1. HandlerShape(handlers[s]) /\ handlers[s].step = "lock"
    BY <1>0, <1>5 DEF Basics, HandlersAreShaped, Enters, Keeps
  <2> QED BY <1>5, <2>1 DEF Enters, KeepsRow, HandlerShape
<1>6. CASE Moves(s) /\ ~Enters(s)
  <2>1. PastLock(s) /\ WalletOf(s) = w /\ Running(s)
    BY <1>1, <1>6 DEF PastLock, Running, WalletOf, Moves, Starts, Enters, Decides, Pays,
                      Widens, FindsStale, Revokes, Retires, KeepsRow, Keeps
  <2>2. HoldsRow(s)
    BY <1>3, <2>1
  <2>3. CASE Decides(s)
    BY <2>2, <2>3 DEF Decides, KeepsRow, HoldsRow
  <2>4. CASE Pays(s)
    <3>1. /\ handlers[s].step = "update" /\ handlers'[s].step = "renew"
          /\ handlers'[s].id = handlers[s].id /\ handlers'[s].existing = Renewed(handlers[s])
          /\ rows' = rows
      BY <2>4 DEF Pays
    <3>2. PICK e : e = handlers[s].existing
      OBVIOUS
    <3>3. e # NoRow /\ e \in RowRecords /\ handlers[s] \in Handlers
      BY <1>0, <2>1, <3>1, <3>2, HoldsARow, StepHoldsARow, RunningTyped DEF Basics
    <3>4. rows[handlers[s].id] = e
      BY <2>2, <3>1, <3>2, <3>3 DEF HoldsRow
    <3>5. e.lastRenewedAt <= now
      BY <1>0, <2>1, <3>2, <3>3 DEF RowsFitTheChain, Fits
    <3>6. Renewed(handlers[s]).lastRenewedAt = now
      BY <1>0, <3>2, <3>3, RenewedTyped DEF Basics
    <3> QED BY <3>1, <3>4, <3>5, <3>6
  <2>5. CASE Widens(s)
    <3>1. /\ handlers[s].step = "append" /\ handlers'[s].step = "widen"
          /\ handlers'[s].id = handlers[s].id /\ rows' = rows
      BY <2>5 DEF Widens
    <3>2. PICK e : e = handlers[s].existing
      OBVIOUS
    <3>3. e # NoRow /\ e \in RowRecords
      BY <1>0, <2>1, <3>1, <3>2, HoldsARow, StepHoldsARow
    <3>4. rows[handlers[s].id] = e
      BY <2>2, <3>1, <3>2, <3>3 DEF HoldsRow
    <3>5. handlers'[s].existing.lastRenewedAt = e.lastRenewedAt
      BY <2>5, <3>2, <3>3 DEF Widens, RowRecords
    <3>6. e.lastRenewedAt \in Nat
      BY <3>3, RowNumbers
    <3> QED BY <3>1, <3>4, <3>5, <3>6
  <2>6. CASE FindsStale(s)
    BY <2>2, <2>6 DEF FindsStale, KeepsRow, HoldsRow
  <2>7. CASE Revokes(s)
    BY <2>2, <2>7 DEF Revokes, KeepsRow, HoldsRow
  <2>8. CASE Retires(s)
    BY <2>8 DEF Retires
  <2>9. ~Starts(s)
    BY <2>1 DEF Starts, Running
  <2> QED BY <1>6, <2>3, <2>4, <2>5, <2>6, <2>7, <2>8, <2>9 DEF Moves
<1>7. ~Ends(s)
  BY <1>0 DEF Ends, Basics, VoucherTypes, VoucherTypeOK
<1> QED BY <1>0, <1>4, <1>5, <1>6, <1>7, HandlerMoves

LEMMA RowsKeptStep ==
    ASSUME Settled, [Next]_vars
    PROVE  RowsKept'
<1>1. RowsAreKnown' /\ RowsAreFresh'
  BY KnowsStep, FreshStep DEF RowsAreKnown, RowsAreFresh, Safe, PastLock, Running, WalletOf
<1> QED BY <1>1, OneLiveStep DEF RowsKept

LEMMA SettledStep ==
    ASSUME Settled, [Next]_vars
    PROVE  Settled'
  BY BasicsStep, RowsFitStep, LooksStep, LocksHeldStep, RowsKeptStep DEF Settled

----------------------------------------------------------------------------
(* The tranches are spaced                                                 *)

Spaced == FundingsAreCovered /\ RevokedRowsAreOld /\ TranchesAreSpaced

LEMMA SpacedInit == Init => Spaced
<1> SUFFICES ASSUME Init PROVE Spaced
  OBVIOUS
<1>1. fundings = <<>> /\ \A v \in VoucherIds : rows[v] = NoRow
  BY DEF Init
<1>2. DOMAIN fundings = {}
  BY <1>1
<1> QED BY <1>1, <1>2 DEF Spaced, FundingsAreCovered, RevokedRowsAreOld, TranchesAreSpaced

LEMMA FundedEntries ==
    ASSUME Basics, NEW m, Funds(m)
    PROVE  LET n == Len(fundings)
               f == [wallet |-> m.wallet, at |-> now, ip |-> m.ip, day |-> m.day]
           IN  /\ n \in Nat /\ DOMAIN fundings = 1..n /\ DOMAIN fundings' = 1..(n + 1)
               /\ \A i \in 1..n : fundings'[i] = fundings[i]
               /\ fundings'[n + 1] = f
<1>1. fundings \in Seq(FundingRecords)
  BY DEF Basics, VoucherTypes, VoucherTypeOK, FundingRecords
<1>2. PICK f : f = [wallet |-> m.wallet, at |-> now, ip |-> m.ip, day |-> m.day]
  OBVIOUS
<1>3. f \in FundingRecords
  BY <1>2 DEF Funds, FundingRecords, Basics, VoucherTypes, VoucherTypeOK
<1>4. fundings' = Append(fundings, f)
  BY <1>2 DEF Funds
<1>5. /\ Len(fundings) \in Nat /\ DOMAIN fundings = 1..Len(fundings)
      /\ DOMAIN fundings' = 1..(Len(fundings) + 1)
      /\ \A i \in 1..Len(fundings) : fundings'[i] = fundings[i]
      /\ fundings'[Len(fundings) + 1] = f
  BY <1>1, <1>3, <1>4
<1> QED BY <1>2, <1>5

(* A row's renewal time never moves back while its lock is kept.           *)
LEMMA RenewalsMoveOn ==
    ASSUME Settled, [Next]_vars, NEW v \in VoucherIds, rows[v] # NoRow,
           rows[v].account \notin unlocked'
    PROVE  rows'[v].lastRenewedAt >= rows[v].lastRenewedAt
<1>0. Basics /\ RowsAreFresh
  BY DEF Settled, RowsKept
<1>1. rows[v].lastRenewedAt \in Nat
  BY <1>0, RowsStay, RowNumbers
<1>2. CASE rows'[v] = rows[v]
  BY <1>1, <1>2
<1>3. ASSUME NEW t \in Slots, Saves(t), handlers[t].id = v
      PROVE  rows'[v].lastRenewedAt >= rows[v].lastRenewedAt
  <2>1. WalletOf(t) = rows[v].account
    BY <1>0, <1>3, SavedWallet
  <2>2. Safe(t)
    BY <1>0, <1>3, <2>1, SaverIsSafe
  <2>3. HoldsRow(t)
    BY <1>0, <2>2 DEF RowsAreFresh
  <2>4. handlers[t].step # "insert"
    BY <1>0, <1>3 DEF Basics, IdsAreKnown, Saves
  <2>5. PICK e : e = handlers[t].existing
    OBVIOUS
  <2>6. e # NoRow /\ e \in RowRecords /\ rows'[v].lastRenewedAt = e.lastRenewedAt
    BY <1>0, <1>3, <2>5, HoldsARow DEF Saves
  <2>7. e.lastRenewedAt \in Nat
    BY <2>6, RowNumbers
  <2>8. rows[v].lastRenewedAt <= e.lastRenewedAt
    BY <1>1, <1>3, <2>3, <2>4, <2>5, <2>6, <2>7 DEF HoldsRow, Saves
  <2> QED BY <1>1, <2>6, <2>7, <2>8
<1>4. rows'[v] = rows[v] \/ \E t \in Slots : Saves(t) /\ handlers[t].id = v
  BY <1>0, RowsChange, SavedWallet
<1> QED BY <1>2, <1>3, <1>4

LEMMA CoveredStays ==
    ASSUME Settled, [Next]_vars, NEW f \in FundingRecords, f.wallet \in Quiet', Covered(f)
    PROVE  Covered(f)'
<1>0. Basics /\ Basics' /\ f.wallet \notin unsaved' /\ f.wallet \notin unlocked' /\ f.at \in Nat
  <2>1. MaxTime \in Nat
    BY VoucherAssumption
  <2> QED BY <2>1, BasicsStep DEF Settled, Quiet, FundingRecords, Time
<1>1. ASSUME NEW v \in VoucherIds, rows[v] # NoRow, rows[v].account = f.wallet,
             f.at <= rows[v].lastRenewedAt
      PROVE  Covered(f)'
  <2>1. /\ rows[v] \in RowRecords /\ rows'[v] \in RowRecords /\ rows'[v] # NoRow
        /\ rows'[v].account = f.wallet
    BY <1>0, <1>1, RowsStay
  <2>2. rows[v].lastRenewedAt \in Nat /\ rows'[v].lastRenewedAt \in Nat
    BY <2>1, RowNumbers
  <2>3. rows'[v].lastRenewedAt >= rows[v].lastRenewedAt
    BY <1>0, <1>1, RenewalsMoveOn
  <2>4. f.at <= rows'[v].lastRenewedAt
    BY <1>0, <1>1, <2>2, <2>3
  <2> QED BY <2>1, <2>4 DEF Covered
<1>2. ASSUME NEW s \in Slots, Running(s), handlers[s].step \in {"insert", "renew"},
             WalletOf(s) = f.wallet, f.at <= handlers[s].existing.lastRenewedAt
      PROVE  Covered(f)'
  <2>1. CASE handlers'[s] = handlers[s]
    BY <1>2, <2>1 DEF Covered, Running, WalletOf
  <2>2. ~Moves(s)
    BY <1>2 DEF Moves, Starts, Enters, Decides, Pays, Widens, FindsStale, Revokes, Retires,
                KeepsRow, Keeps, Running
  <2>3. CASE Save(s)
    <3>1. Saves(s)
      BY <1>0, <2>3, SaveIsSaves
    <3>2. PICK v \in VoucherIds : v = handlers[s].id
      BY <1>0, <3>1, SavedWallet
    <3>3. rows'[v].account = f.wallet /\ rows'[v] \in RowRecords
          /\ rows'[v].lastRenewedAt = handlers[s].existing.lastRenewedAt
      BY <1>0, <1>2, <3>1, <3>2, SavedWallet DEF Saves
    <3>4. rows'[v] # NoRow
      BY <3>3, VoucherMarkers
    <3> QED BY <1>2, <3>3, <3>4 DEF Covered
  <2>4. handlers[s].wallet \notin unsaved'
    BY <1>0, <1>2 DEF WalletOf
  <2> QED BY <1>0, <1>2, <2>1, <2>2, <2>3, <2>4, HandlerMoves
<1> QED BY <1>1, <1>2 DEF Covered

(* A handler's own tranche is in the row it will save.                     *)
LEMMA PaidIsHeld ==
    ASSUME Basics, NEW s \in Slots, Issue(s) \/ Update(s)
    PROVE  /\ handlers'[s] # NoHandler /\ handlers'[s].step \in {"insert", "renew"}
           /\ handlers'[s].wallet = handlers[s].wallet /\ handlers'[s].existing.lastRenewedAt = now
           /\ \A t \in Slots \ {s} : handlers'[t] = handlers[t]
           /\ Running(s) /\ handlers[s].step \in {"issue", "update"}
           /\ UNCHANGED <<usage, orphans, unsaved, unlocked>>
<1>1. /\ Running(s) /\ handlers[s] \in Handlers /\ VoucherTypes
      /\ handlers \in [Slots -> Handlers \cup {NoHandler}]
      /\ handlers[s].step \in {"issue", "update"}
  BY RunningTyped DEF Basics, VoucherTypes, VoucherTypeOK, Issue, Update, At, Running
<1>2. PICK row : \/ Issue(s) /\ row = NewRow(handlers[s])
                 \/ Update(s) /\ row = Renewed(handlers[s])
  OBVIOUS
<1>3. row \in RowRecords /\ row.lastRenewedAt = now
  <2>1. CASE Issue(s) /\ row = NewRow(handlers[s])
    BY <1>1, <2>1, NewRowTyped
  <2>2. CASE Update(s) /\ row = Renewed(handlers[s])
    <3>1. handlers[s].existing \in RowRecords
      BY <1>1, <2>2, HoldsARow, StepHoldsARow DEF Update, At
    <3> QED BY <1>1, <2>2, <3>1, RenewedTyped
  <2> QED BY <1>2, <2>1, <2>2
<1>4. PICK step \in {"insert", "renew"}, v \in VoucherIds \cup {NoVoucher} :
        handlers' = [handlers EXCEPT ![s] =
                        [handlers[s] EXCEPT !.step = step, !.id = v, !.existing = row]]
  <2>1. CASE Issue(s) /\ row = NewRow(handlers[s])
    <3>1. PICK v \in VoucherIds :
            handlers' = [handlers EXCEPT ![s].step = "insert", ![s].id = v, ![s].existing = row]
      BY <2>1 DEF Issue
    <3>2. handlers' = [handlers EXCEPT ![s] =
                        [handlers[s] EXCEPT !.step = "insert", !.id = v, !.existing = row]]
      BY <1>1, <3>1
    <3> QED BY <3>2
  <2>2. CASE Update(s) /\ row = Renewed(handlers[s])
    <3>1. handlers' = [handlers EXCEPT ![s].step = "renew", ![s].existing = row]
      BY <2>2 DEF Update
    <3>2. handlers[s].id \in VoucherIds \cup {NoVoucher}
      BY <1>1 DEF Handlers
    <3>3. [handlers[s] EXCEPT !.step = "renew", !.existing = row]
            = [handlers[s] EXCEPT !.step = "renew", !.id = handlers[s].id, !.existing = row]
      BY <1>1 DEF Handlers
    <3>4. handlers' = [handlers EXCEPT ![s] = [handlers[s] EXCEPT !.step = "renew", !.existing = row]]
      BY <1>1, <3>1
    <3> QED BY <3>2, <3>3, <3>4
  <2> QED BY <1>2, <2>1, <2>2
<1> DEFINE x == [handlers[s] EXCEPT !.step = step, !.id = v, !.existing = row]
<1>5. /\ x \in Handlers /\ x.step = step /\ x.wallet = handlers[s].wallet /\ x.existing = row
  BY <1>1, <1>3 DEF Handlers
<1>6. handlers' = [handlers EXCEPT ![s] = x]
  BY <1>4
<1> HIDE DEF x
<1>7. handlers'[s] = x /\ \A t \in Slots \ {s} : handlers'[t] = handlers[t]
  BY <1>1, <1>6
<1>8. UNCHANGED <<usage, orphans, unsaved, unlocked>>
  BY DEF Issue, Update, tables, history
<1> QED BY <1>1, <1>3, <1>5, <1>7, <1>8, VoucherMarkers

(* What a handler under its lock is about to pay is due.                   *)
LEMMA PaymentIsDue ==
    ASSUME Settled, FundingsAreCovered, RevokedRowsAreOld,
           NEW s \in Slots, Running(s), handlers[s].step \in {"issue", "update"},
           WalletOf(s) \in Quiet, NEW f \in FundingRecords, f.wallet = WalletOf(s), Covered(f)
    PROVE  f.at + Interval <= now
<1>0. /\ Basics /\ LooksHold /\ LocksAreHeld /\ RowsAreKnown /\ RowsAreFresh
      /\ now \in Nat /\ f.at \in Nat /\ Interval \in Nat
  <2>1. MaxTime \in Nat /\ Interval \in Nat
    BY VoucherAssumption
  <2> QED BY <2>1 DEF Settled, RowsKept, Basics, VoucherTypes, VoucherTypeOK, Time, FundingRecords
<1>1. Safe(s)
  BY DEF Safe, PastLock, Quiet
<1>2. ASSUME NEW t \in Slots, Running(t), handlers[t].step \in {"insert", "renew"},
             WalletOf(t) = f.wallet
      PROVE  FALSE
  <2>1. Safe(t)
    BY <1>1, <1>2 DEF Safe, PastLock
  <2>2. t = s
    BY <1>0, <1>1, <1>2, <2>1, SafeIsAlone
  <2> QED BY <1>2, <2>2
<1>3. PICK v \in VoucherIds : rows[v] # NoRow /\ rows[v].account = f.wallet
                              /\ f.at <= rows[v].lastRenewedAt
  BY <1>2 DEF Covered
<1>4. rows[v] \in RowRecords
  BY <1>0, <1>3 DEF Basics, VoucherTypes, VoucherTypeOK
<1>5. rows[v].lastRenewedAt \in Nat
  BY <1>4, RowNumbers
<1>6. CASE rows[v].revoked
  <2>1. rows[v].lastRenewedAt + Interval <= now
    BY <1>3, <1>6 DEF RevokedRowsAreOld
  <2> QED BY <1>0, <1>3, <1>5, <2>1
<1>7. CASE ~rows[v].revoked
  <2>1. v \in LiveRows(WalletOf(s))
    BY <1>3, <1>7 DEF LiveRows
  <2>2. KnowsRows(s) /\ HoldsRow(s)
    BY <1>0, <1>1 DEF RowsAreKnown, RowsAreFresh
  <2>3. handlers[s].step = "update" /\ v = handlers[s].id /\ handlers[s].existing # NoRow
    BY <2>1, <2>2 DEF KnowsRows, WalletOf
  <2>4. handlers[s].existing = rows[v]
    BY <2>2, <2>3 DEF HoldsRow
  <2>5. rows[v].lastRenewedAt + Interval <= now
    BY <1>0, <2>3, <2>4 DEF LooksHold, PastLock
  <2> QED BY <1>0, <1>3, <1>5, <2>5
<1> QED BY <1>6, <1>7

LEMMA OldRowsStep ==
    ASSUME Settled, RevokedRowsAreOld, [Next]_vars, Interval + MaxLag <= Duration + 1
    PROVE  RevokedRowsAreOld'
<1>0. /\ Basics /\ Basics' /\ LooksHold /\ RowsFitTheChain
      /\ now \in Nat /\ now' \in Nat /\ now' >= now /\ lag \in Nat /\ lag <= MaxLag
      /\ Interval \in Nat /\ Duration \in Nat /\ MaxLag \in Nat
  <2>1. Basics /\ LooksHold /\ RowsFitTheChain
    BY DEF Settled
  <2>2. lag \in 0..MaxLag
    BY <2>1 DEF Basics, VoucherTypes, VoucherTypeOK
  <2> QED BY <2>1, <2>2, BasicsStep, ClockStep, VoucherAssumption
<1> SUFFICES ASSUME NEW v \in VoucherIds, rows'[v] # NoRow, rows'[v].revoked
             PROVE  rows'[v].lastRenewedAt + Interval <= now'
  BY DEF RevokedRowsAreOld
<1>1. rows'[v] \in RowRecords
  BY <1>0 DEF Basics, VoucherTypes, VoucherTypeOK
<1>2. rows'[v].lastRenewedAt \in Nat
  BY <1>1, RowNumbers
<1>3. CASE rows'[v] = rows[v]
  <2>1. rows[v].lastRenewedAt + Interval <= now
    BY <1>3 DEF RevokedRowsAreOld
  <2> QED BY <1>0, <1>2, <1>3, <2>1
<1>4. ASSUME NEW t \in Slots, Saves(t), handlers[t].id = v
      PROVE  rows'[v].lastRenewedAt + Interval <= now'
  <2>1. PICK e : e = handlers[t].existing
    OBVIOUS
  <2>2. /\ Running(t) /\ handlers[t].step \in {"mark", "retire"} /\ e # NoRow /\ e \in RowRecords
        /\ rows'[v].lastRenewedAt = e.lastRenewedAt
    BY <1>0, <1>4, <2>1, HoldsARow DEF Saves
  <2>3. e.lastRenewedAt \in Nat /\ e.validUpTo \in Nat /\ e.validUpToBlock \in Nat
    BY <2>2, RowNumbers
  <2>4. CASE handlers[t].step = "retire"
    <3>1. e.lastRenewedAt + Interval <= now
      BY <1>0, <2>1, <2>2, <2>4 DEF LooksHold, PastLock
    <3> QED BY <1>0, <2>2, <2>3, <3>1
  <2>5. CASE handlers[t].step = "mark"
    <3>1. handlers[t].cron
      BY <1>0, <2>2, <2>5, RunningTyped DEF Basics, HandlersAreShaped, HandlerShape, Handlers
    <3>2. e.validUpTo < now
      BY <1>0, <2>1, <2>2, <2>5, <3>1 DEF LooksHold, PastLock
    <3>3. e.validUpTo >= e.validUpToBlock /\ e.validUpToBlock + lag >= e.lastRenewedAt + Duration
      BY <1>0, <2>1, <2>2 DEF RowsFitTheChain, Fits
    <3>4. e.lastRenewedAt + Interval <= now
      BY <1>0, <2>3, <3>2, <3>3
    <3> QED BY <1>0, <2>2, <2>3, <3>4
  <2> QED BY <2>2, <2>4, <2>5
<1>5. rows'[v] = rows[v] \/ \E t \in Slots : Saves(t) /\ handlers[t].id = v
  BY <1>0, RowsChange, SavedWallet
<1> QED BY <1>3, <1>4, <1>5

LEMMA SpacedStep ==
    ASSUME Settled, Spaced, [Next]_vars, Interval + MaxLag <= Duration + 1
    PROVE  Spaced'
<1>0. /\ Basics /\ FundingsAreCovered /\ RevokedRowsAreOld /\ TranchesAreSpaced
      /\ fundings \in Seq(FundingRecords) /\ now \in Nat /\ Interval \in Nat
      /\ unsaved \subseteq unsaved' /\ unlocked \subseteq unlocked'
  BY ClockStep, HistoryStep, VoucherAssumption
     DEF Settled, Spaced, Basics, VoucherTypes, VoucherTypeOK, FundingRecords
<1>1. RevokedRowsAreOld'
  BY <1>0, OldRowsStep
<1>2. ASSUME NEW i \in DOMAIN fundings
      PROVE  /\ fundings[i] \in FundingRecords /\ fundings[i].at \in Nat
             /\ fundings[i].wallet \in Quiet' => Covered(fundings[i]) /\ fundings[i].wallet \in Quiet
  <2>1. MaxTime \in Nat
    BY VoucherAssumption
  <2>2. fundings[i] \in FundingRecords
    BY <1>0
  <2>3. fundings[i].wallet \in Quiet' => fundings[i].wallet \in Quiet
    BY <1>0 DEF Quiet
  <2> QED BY <1>0, <2>1, <2>2, <2>3 DEF FundingRecords, Time, FundingsAreCovered
<1>3. ASSUME NEW f \in FundingRecords, f.wallet \in Quiet', Covered(f) PROVE Covered(f)'
  BY <1>3, CoveredStays
<1>4. CASE fundings' = fundings
  <2>1. FundingsAreCovered'
    <3> SUFFICES ASSUME NEW i \in DOMAIN fundings, fundings[i].wallet \in Quiet'
                 PROVE  Covered(fundings[i])'
      BY <1>4 DEF FundingsAreCovered
    <3>1. PICK f \in FundingRecords : f = fundings[i]
      BY <1>2
    <3>2. Covered(f)'
      BY <1>2, <1>3, <3>1
    <3> QED BY <1>4, <3>1, <3>2 DEF Covered
  <2>2. TranchesAreSpaced'
    BY <1>0, <1>4 DEF TranchesAreSpaced
  <2> QED BY <1>1, <2>1, <2>2 DEF Spaced
<1>5. ASSUME NEW m, Funds(m),
             \/ m.wallet \in unsaved'
             \/ \E s \in Slots : (Issue(s) \/ Update(s)) /\ m = handlers[s]
      PROVE  Spaced'
  <2> DEFINE n == Len(fundings)
  <2>1. PICK g : g = [wallet |-> m.wallet, at |-> now, ip |-> m.ip, day |-> m.day]
    OBVIOUS
  <2>2. /\ n \in Nat /\ DOMAIN fundings = 1..n /\ DOMAIN fundings' = 1..(n + 1)
        /\ \A i \in 1..n : fundings'[i] = fundings[i]
        /\ fundings'[n + 1] = g
    BY <1>0, <1>5, <2>1, FundedEntries
  <2>3. g.wallet = m.wallet /\ g.at = now
    BY <2>1
  <2> HIDE DEF n
  <2>4. FundingsAreCovered'
    <3> SUFFICES ASSUME NEW i \in 1..(n + 1), fundings'[i].wallet \in Quiet'
                 PROVE  Covered(fundings[i])'
      BY <2>2 DEF FundingsAreCovered
    <3>1. CASE i \in 1..n
      <4>1. PICK f \in FundingRecords : f = fundings[i]
        BY <1>2, <2>2, <3>1
      <4>2. Covered(f)'
        BY <1>2, <1>3, <2>2, <3>1, <4>1
      <4> QED BY <2>2, <3>1, <4>1, <4>2 DEF Covered
    <3>2. CASE i = n + 1
      <4>1. m.wallet \notin unsaved'
        BY <2>2, <2>3, <3>2 DEF Quiet
      <4>2. PICK s \in Slots : (Issue(s) \/ Update(s)) /\ m = handlers[s]
        BY <1>5, <4>1
      <4>3. /\ handlers'[s] # NoHandler /\ handlers'[s].step \in {"insert", "renew"}
            /\ handlers'[s].wallet = m.wallet /\ handlers'[s].existing.lastRenewedAt = now
        BY <1>0, <4>2, PaidIsHeld
      <4>4. Covered(g)'
        BY <1>0, <2>3, <4>3 DEF Covered, Running, WalletOf
      <4> QED BY <2>2, <3>2, <4>4 DEF Covered
    <3> QED BY <2>2, <3>1, <3>2
  <2>5. TranchesAreSpaced'
    <3> SUFFICES ASSUME NEW i \in 1..(n + 1), NEW j \in 1..(n + 1), i < j,
                        fundings'[i].wallet = fundings'[j].wallet,
                        fundings'[i].wallet \notin (unsaved \cup unlocked)'
                 PROVE  fundings'[j].at - fundings'[i].at >= Interval
      BY <2>2 DEF TranchesAreSpaced
    <3>1. i \in 1..n
      BY <2>2
    <3>2. CASE j \in 1..n
      BY <1>0, <2>2, <3>1, <3>2 DEF TranchesAreSpaced
    <3>3. CASE j = n + 1
      <4>1. PICK f : f = fundings[i]
        OBVIOUS
      <4>2. /\ f \in FundingRecords /\ f.at \in Nat /\ f.wallet = m.wallet
            /\ m.wallet \notin unsaved' /\ m.wallet \notin unlocked'
            /\ fundings'[i] = f /\ fundings'[j] = g
        BY <1>2, <2>2, <2>3, <3>1, <3>3, <4>1
      <4>3. f.wallet \in Quiet' /\ f.wallet \in Quiet
        BY <1>0, <4>2 DEF Quiet, FundingRecords
      <4>4. Covered(f)
        BY <1>2, <2>2, <3>1, <4>1, <4>3
      <4>5. PICK s \in Slots : (Issue(s) \/ Update(s)) /\ m = handlers[s]
        BY <1>5, <4>2
      <4>6. Running(s) /\ handlers[s].step \in {"issue", "update"}
        BY <1>0, <4>5, PaidIsHeld
      <4>7. f.at + Interval <= now
        BY <1>0, <4>2, <4>3, <4>4, <4>5, <4>6, PaymentIsDue DEF WalletOf
      <4> QED BY <1>0, <2>3, <4>2, <4>7
    <3> QED BY <2>2, <3>2, <3>3
  <2> QED BY <1>1, <2>4, <2>5 DEF Spaced
<1>6. ASSUME NEW o \in orphans, LandsLate(o), o.step \in {"issue", "update"}
      PROVE  o.wallet \in unsaved'
  BY <1>0, <1>6 DEF Basics, OrphansAreUnsaved
<1> QED BY <1>0, <1>4, <1>5, <1>6, FundingsChange

----------------------------------------------------------------------------
(* The reservations bound what an address is paid                          *)

\* What an address and day have been paid or may still be.
Claims(ip, d) ==
    Cardinality(Paid(ip, d)) + Cardinality(ToPay(ip, d)) + Cardinality(Sent(ip, d))

LEMMA OneMore ==
    ASSUME NEW S, IsFiniteSet(S), NEW T, T \subseteq S, NEW x
    PROVE  /\ IsFiniteSet(T \cup {x}) /\ Cardinality(T \cup {x}) \in Nat
           /\ Cardinality(T \cup {x}) <= Cardinality(S) + 1
<1>1. IsFiniteSet(T) /\ Cardinality(T) \in Nat /\ Cardinality(S) \in Nat
      /\ Cardinality(T) <= Cardinality(S)
  BY FS_Subset, FS_CardinalityType
<1>2. CASE x \in T
  <2>1. PICK U : U = T \cup {x}
    OBVIOUS
  <2>2. U = T
    BY <1>2, <2>1
  <2>3. IsFiniteSet(U) /\ Cardinality(U) \in Nat /\ Cardinality(U) <= Cardinality(S) + 1
    BY <1>1, <2>2
  <2> QED BY <2>1, <2>3
<1>3. CASE x \notin T
  <2>1. IsFiniteSet(T \cup {x}) /\ Cardinality(T \cup {x}) = Cardinality(T) + 1
    BY <1>1, <1>3, FS_AddElement
  <2> QED BY <1>1, <2>1
<1> QED BY <1>2, <1>3

LEMMA OneLess ==
    ASSUME NEW S, IsFiniteSet(S), NEW x \in S, NEW T, T \subseteq S \ {x}
    PROVE  IsFiniteSet(T) /\ Cardinality(T) \in Nat /\ Cardinality(T) + 1 <= Cardinality(S)
<1>1. /\ IsFiniteSet(S \ {x}) /\ Cardinality(S \ {x}) = Cardinality(S) - 1
      /\ Cardinality(S) \in Nat
  BY FS_RemoveElement, FS_CardinalityType
<1>2. IsFiniteSet(T) /\ Cardinality(T) <= Cardinality(S \ {x}) /\ Cardinality(T) \in Nat
  BY <1>1, FS_Subset, FS_CardinalityType
<1> QED BY <1>1, <1>2

LEMMA ClaimsFinite ==
    ASSUME Basics, IsFiniteSet(orphans), NEW ip, NEW d
    PROVE  /\ IsFiniteSet(Paid(ip, d)) /\ Cardinality(Paid(ip, d)) \in Nat
           /\ IsFiniteSet(ToPay(ip, d)) /\ Cardinality(ToPay(ip, d)) \in Nat
           /\ IsFiniteSet(Sent(ip, d)) /\ Cardinality(Sent(ip, d)) \in Nat
<1>1. IsFiniteSet(DOMAIN fundings)
  <2>1. fundings \in Seq(FundingRecords)
    BY DEF Basics, VoucherTypes, VoucherTypeOK, FundingRecords
  <2>2. DOMAIN fundings = 1..Len(fundings) /\ Len(fundings) \in Nat
    BY <2>1
  <2> QED BY <2>2, FS_Interval
<1>2. Paid(ip, d) \subseteq DOMAIN fundings
  BY DEF Paid
<1>3. ToPay(ip, d) \subseteq Slots /\ IsFiniteSet(Slots)
  BY VoucherAssumption DEF ToPay
<1>4. Sent(ip, d) \subseteq orphans
  BY DEF Sent
<1> QED BY <1>1, <1>2, <1>3, <1>4, FS_Subset, FS_CardinalityType

LEMMA ReservationsInit == Init => ReservationsCover
<1> SUFFICES ASSUME Init PROVE ReservationsCover
  OBVIOUS
<1>1. /\ orphans = {} /\ fundings = <<>> /\ \A s \in Slots : handlers[s] = NoHandler
      /\ \A c \in Ips \X Days : usage[c] = 0
  BY DEF Init
<1>2. IsFiniteSet(orphans)
  BY <1>1, FS_EmptySet
<1>3. ASSUME NEW ip \in Ips, NEW d \in Days
      PROVE  Paid(ip, d) = {} /\ ToPay(ip, d) = {} /\ Sent(ip, d) = {}
  <2>1. DOMAIN fundings = {}
    BY <1>1
  <2> QED BY <1>1, <2>1 DEF Paid, ToPay, Sent, Running
<1>4. ASSUME NEW ip \in Ips, NEW d \in Days PROVE usage[<<ip, d>>] = 0
  BY <1>1
<1>5. Cardinality({}) = 0 /\ Ceiling \in Nat
  BY FS_EmptySet, VoucherAssumption
<1> QED BY <1>2, <1>3, <1>4, <1>5 DEF ReservationsCover

(* Whoever comes to have a tranche to pay has just reserved it.            *)
LEMMA ToPayGrows ==
    ASSUME Basics, [Next]_vars, NEW ip, NEW d, NEW t \in ToPay(ip, d)', t \notin ToPay(ip, d)
    PROVE  /\ ip = handlers[t].ip /\ d = today /\ Reserves(t)
           /\ ToPay(ip, d)' \subseteq ToPay(ip, d) \cup {t}
<1>1. /\ t \in Slots /\ handlers'[t] # NoHandler /\ handlers'[t].ip = ip /\ handlers'[t].day = d
      /\ \/ handlers'[t].step \in {"issue", "update"}
         \/ handlers'[t].step = "retire" /\ ~handlers'[t].window
  BY DEF ToPay, Running
<1>2. handlers'[t] # handlers[t]
  BY <1>1 DEF ToPay, Running
<1>3. Moves(t) /\ \A u \in Slots \ {t} : handlers'[u] = handlers[u]
  BY <1>1, <1>2, HandlerMoves
<1>4. ~FindsStale(t)
  BY <1>1 DEF ToPay, FindsStale, KeepsRow, KeepsDay, Keeps
<1>5. ~Retires(t)
  BY <1>1 DEF ToPay, Retires, KeepsRow, KeepsDay, Keeps
<1>6. Decides(t)
  BY <1>1, <1>3, <1>4, <1>5 DEF Moves, Starts, Enters, Pays, Widens, Revokes
<1>7. ip = handlers[t].ip /\ d = today /\ Reserves(t)
  BY <1>1, <1>6 DEF Decides, KeepsRow, Keeps
<1>8. ToPay(ip, d)' \subseteq ToPay(ip, d) \cup {t}
  BY <1>3 DEF ToPay, Running
<1> QED BY <1>7, <1>8

(* A tranche paid is one more for its address and day.                     *)
LEMMA PaidGrows ==
    ASSUME Basics, NEW m, Funds(m), NEW ip, NEW d
    PROVE  \E x : Paid(ip, d)' = IF m.ip = ip /\ m.day = d THEN Paid(ip, d) \cup {x} ELSE Paid(ip, d)
<1>1. PICK g : g = [wallet |-> m.wallet, at |-> now, ip |-> m.ip, day |-> m.day]
  OBVIOUS
<1>2. /\ Len(fundings) \in Nat /\ DOMAIN fundings = 1..Len(fundings)
      /\ DOMAIN fundings' = 1..(Len(fundings) + 1)
      /\ \A i \in 1..Len(fundings) : fundings'[i] = fundings[i]
      /\ fundings'[Len(fundings) + 1] = g
  BY <1>1, FundedEntries
<1>3. g.ip = m.ip /\ g.day = m.day
  BY <1>1
<1>4. PICK n \in Nat : n = Len(fundings)
  BY <1>2
<1>5. DOMAIN fundings' = DOMAIN fundings \cup {n + 1}
  BY <1>2, <1>4
<1>6. CASE m.ip = ip /\ m.day = d
  <2>1. Paid(ip, d)' = Paid(ip, d) \cup {n + 1}
    BY <1>2, <1>3, <1>4, <1>5, <1>6 DEF Paid
  <2> QED BY <1>6, <2>1
<1>7. CASE ~(m.ip = ip /\ m.day = d)
  <2>1. Paid(ip, d)' = Paid(ip, d)
    BY <1>2, <1>3, <1>4, <1>5, <1>7 DEF Paid
  <2> QED BY <1>7, <2>1
<1> QED BY <1>6, <1>7

LEMMA ReservationsStep ==
    ASSUME Basics, ReservationsCover, [Next]_vars
    PROVE  ReservationsCover'
<1>1. IsFiniteSet(orphans)'
  <2>1. ASSUME NEW s \in Slots, SendTimesOut(s) PROVE IsFiniteSet(orphans)'
    <3>1. IsFiniteSet(orphans \cup {OrphanOf(handlers[s])})
      BY OneMore DEF ReservationsCover
    <3> QED BY <2>1, <3>1 DEF SendTimesOut
  <2>2. ASSUME NEW o \in orphans, LandsLate(o) PROVE IsFiniteSet(orphans)'
    <3>1. IsFiniteSet(orphans \ {o})
      BY FS_RemoveElement DEF ReservationsCover
    <3> QED BY <2>2, <3>1 DEF LandsLate
  <2> QED BY <2>1, <2>2, OrphansChange DEF ReservationsCover
<1> SUFFICES ASSUME NEW ip \in Ips, NEW d \in Days
             PROVE  Claims(ip, d)' <= usage'[<<ip, d>>] /\ Claims(ip, d)' <= Ceiling
  BY <1>1 DEF ReservationsCover, Claims
<1> DEFINE k == <<ip, d>>
<1>2. PICK p, t, o : p = Paid(ip, d) /\ t = ToPay(ip, d) /\ o = Sent(ip, d)
  OBVIOUS
<1>3. PICK p2, t2, o2 : p2 = Paid(ip, d)' /\ t2 = ToPay(ip, d)' /\ o2 = Sent(ip, d)'
  OBVIOUS
<1>4. /\ IsFiniteSet(p) /\ Cardinality(p) \in Nat /\ IsFiniteSet(t) /\ Cardinality(t) \in Nat
      /\ IsFiniteSet(o) /\ Cardinality(o) \in Nat
  BY <1>2, ClaimsFinite DEF ReservationsCover
<1>5. /\ k \in Ips \X Days /\ usage[k] \in Nat /\ usage'[k] \in Nat /\ Ceiling \in Nat
      /\ Cardinality(p) + Cardinality(t) + Cardinality(o) <= usage[k]
      /\ Cardinality(p) + Cardinality(t) + Cardinality(o) <= Ceiling
  <2>1. k \in Ips \X Days
    OBVIOUS
  <2>2. usage[k] \in Nat /\ usage'[k] \in Nat
    BY <2>1, UsageStep DEF Basics, VoucherTypes, VoucherTypeOK
  <2> QED BY <1>2, <2>1, <2>2, VoucherAssumption DEF ReservationsCover
<1> SUFFICES /\ Cardinality(p2) + Cardinality(t2) + Cardinality(o2) <= usage'[k]
             /\ Cardinality(p2) + Cardinality(t2) + Cardinality(o2) <= Ceiling
  BY <1>3 DEF Claims
<1>6. usage'[k] >= usage[k]
  <2>1. ASSUME NEW s \in Slots, Counts(s) PROVE usage'[k] >= usage[k]
    <3>1. PICK c \in Ips \X Days : usage' = [usage EXCEPT ![c] = @ + 1]
      BY <2>1 DEF Counts
    <3>2. usage'[k] = IF c = k THEN usage[k] + 1 ELSE usage[k]
      BY <1>5, <3>1 DEF Basics, VoucherTypes, VoucherTypeOK
    <3> QED BY <1>5, <3>2
  <2> QED BY <1>5, <2>1, UsageChange
<1>7. ASSUME p2 = p, t2 \subseteq t, o2 \subseteq o
      PROVE  /\ Cardinality(p2) + Cardinality(t2) + Cardinality(o2) <= usage'[k]
             /\ Cardinality(p2) + Cardinality(t2) + Cardinality(o2) <= Ceiling
  <2>1. Cardinality(t2) <= Cardinality(t) /\ Cardinality(t2) \in Nat
        /\ Cardinality(o2) <= Cardinality(o) /\ Cardinality(o2) \in Nat
    BY <1>4, <1>7, FS_Subset, FS_CardinalityType
  <2> QED BY <1>4, <1>5, <1>6, <1>7, <2>1
<1>8. CASE \E s \in Slots : Issue(s) \/ Update(s)
  <2>1. PICK s \in Slots : Issue(s) \/ Update(s)
    BY <1>8
  <2>2. /\ handlers'[s].step \in {"insert", "renew"} /\ UNCHANGED <<usage, orphans>>
        /\ \A u \in Slots \ {s} : handlers'[u] = handlers[u]
        /\ Running(s) /\ handlers[s].step \in {"issue", "update"}
    BY <2>1, PaidIsHeld
  <2>3. Funds(handlers[s])
    BY <2>1, <2>2, RunningTyped DEF Issue, Update, ChainIssues, ChainUpdates, Pay, Funds, Basics,
                                   Handlers
  <2>4. o2 = o /\ t2 \subseteq t \ {s}
    BY <1>2, <1>3, <2>2 DEF Sent, ToPay, Running
  <2>5. PICK x : p2 = IF handlers[s].ip = ip /\ handlers[s].day = d THEN p \cup {x} ELSE p
    BY <1>2, <1>3, <2>3, PaidGrows
  <2>6. CASE handlers[s].ip = ip /\ handlers[s].day = d
    <3>1. s \in t
      BY <1>2, <2>2, <2>6 DEF ToPay
    <3>2. Cardinality(t2) \in Nat /\ Cardinality(t2) + 1 <= Cardinality(t)
      BY <1>4, <2>4, <3>1, OneLess
    <3>3. Cardinality(p2) \in Nat /\ Cardinality(p2) <= Cardinality(p) + 1
      BY <1>4, <2>5, <2>6, OneMore
    <3> QED BY <1>4, <1>5, <1>6, <2>4, <3>2, <3>3
  <2>7. CASE ~(handlers[s].ip = ip /\ handlers[s].day = d)
    BY <1>7, <2>4, <2>5, <2>7
  <2> QED BY <2>6, <2>7
<1>9. CASE \E m \in orphans : LandsLate(m)
  <2>1. PICK m \in orphans : LandsLate(m)
    BY <1>9
  <2>2. orphans' = orphans \ {m} /\ handlers' = handlers
    BY <2>1 DEF LandsLate
  <2>3. t2 = t /\ o2 \subseteq o \ {m}
    BY <1>2, <1>3, <2>2 DEF Sent, ToPay, Running
  <2>4. CASE fundings' = fundings
    <3>1. p2 = p
      BY <1>2, <1>3, <2>4 DEF Paid
    <3> QED BY <1>7, <2>3, <3>1
  <2>5. CASE m.step \in {"issue", "update"} /\ Funds(m)
    <3>1. PICK x : p2 = IF m.ip = ip /\ m.day = d THEN p \cup {x} ELSE p
      BY <1>2, <1>3, <2>5, PaidGrows
    <3>2. CASE m.ip = ip /\ m.day = d
      <4>1. m \in o
        BY <1>2, <2>5, <3>2 DEF Sent
      <4>2. Cardinality(o2) \in Nat /\ Cardinality(o2) + 1 <= Cardinality(o)
        BY <1>4, <2>3, <4>1, OneLess
      <4>3. Cardinality(p2) \in Nat /\ Cardinality(p2) <= Cardinality(p) + 1
        BY <1>4, <3>1, <3>2, OneMore
      <4> QED BY <1>4, <1>5, <1>6, <2>3, <4>2, <4>3
    <3>3. CASE ~(m.ip = ip /\ m.day = d)
      BY <1>7, <2>3, <3>1, <3>3
    <3> QED BY <3>2, <3>3
  <2>6. fundings' = fundings \/ (m.step \in {"issue", "update"} /\ Funds(m))
    <3>1. m \in Orphans
      BY DEF Basics, VoucherTypes, VoucherTypeOK
    <3>2. fundings' = fundings \/ (m.step \in {"issue", "update"} /\ Pay(m))
      BY <2>1 DEF LandsLate, ChainIssues, ChainUpdates
    <3> QED BY <3>1, <3>2 DEF Funds, Pay, Orphans
  <2> QED BY <2>4, <2>5, <2>6
<1>10. CASE \E s \in Slots : SendTimesOut(s)
  <2>1. PICK s \in Slots : SendTimesOut(s)
    BY <1>10
  <2>2. PICK m : m = OrphanOf(handlers[s])
    OBVIOUS
  <2>3. /\ m.step = handlers[s].step /\ m.ip = handlers[s].ip /\ m.day = handlers[s].day
        /\ orphans' = orphans \cup {m} /\ fundings' = fundings
        /\ Running(s) /\ handlers[s].step \in {"issue", "update", "revoke"}
    BY <2>1, <2>2, OrphanTyped DEF SendTimesOut, At, Running
  <2>4. t2 \subseteq t \ {s}
    <3>1. /\ \A u \in Slots \ {s} : handlers'[u] = handlers[u]
          /\ handlers'[s] = NoHandler \/ handlers'[s].step = "mark"
      BY <2>1, <2>3, RunningTyped
         DEF SendTimesOut, GoOn, Ends, Basics, VoucherTypes, VoucherTypeOK, Handlers
    <3> QED BY <1>2, <1>3, <3>1 DEF ToPay, Running
  <2>5. p2 = p
    BY <1>2, <1>3, <2>3 DEF Paid
  <2>6. CASE m \in o2
    <3>1. s \in t
      BY <1>2, <1>3, <2>3, <2>6 DEF ToPay, Sent
    <3>2. Cardinality(t2) \in Nat /\ Cardinality(t2) + 1 <= Cardinality(t)
      BY <1>4, <2>4, <3>1, OneLess
    <3>3. o2 = o \cup {m}
      BY <1>2, <1>3, <2>3, <2>6 DEF Sent
    <3>4. Cardinality(o2) \in Nat /\ Cardinality(o2) <= Cardinality(o) + 1
      BY <1>4, <3>3, OneMore
    <3> QED BY <1>4, <1>5, <1>6, <2>5, <3>2, <3>4
  <2>7. CASE m \notin o2
    <3>1. o2 \subseteq o
      BY <1>2, <1>3, <2>3, <2>7 DEF Sent
    <3> QED BY <1>7, <2>4, <2>5, <3>1
  <2> QED BY <2>6, <2>7
<1>11. CASE UNCHANGED <<fundings, orphans>>
  <2>1. p2 = p /\ o2 = o
    BY <1>2, <1>3, <1>11 DEF Paid, Sent
  <2>2. CASE t2 \subseteq t
    BY <1>7, <2>1, <2>2
  <2>3. ASSUME NEW u \in t2, u \notin t
        PROVE  /\ Cardinality(p2) + Cardinality(t2) + Cardinality(o2) <= usage'[k]
               /\ Cardinality(p2) + Cardinality(t2) + Cardinality(o2) <= Ceiling
    <3>1. /\ ip = handlers[u].ip /\ d = today /\ Reserves(u) /\ t2 \subseteq t \cup {u}
      BY <1>2, <1>3, <2>3, ToPayGrows
    <3>2. usage'[k] = usage[k] + 1 /\ usage'[k] <= Ceiling
      BY <1>5, <3>1 DEF Reserves, Basics, VoucherTypes, VoucherTypeOK
    <3>3. t2 = (t \cap t2) \cup {u}
      BY <2>3, <3>1
    <3>4. Cardinality(t2) \in Nat /\ Cardinality(t2) <= Cardinality(t) + 1
      BY <1>4, <3>3, OneMore
    <3> QED BY <1>4, <1>5, <2>1, <3>2, <3>4
  <2> QED BY <2>2, <2>3
<1>12. \/ \E s \in Slots : Issue(s) \/ Update(s)
       \/ \E m \in orphans : LandsLate(m)
       \/ \E s \in Slots : SendTimesOut(s)
       \/ UNCHANGED <<fundings, orphans>>
  BY OrphansChange, FundingsChange
<1> QED BY <1>8, <1>9, <1>10, <1>11, <1>12

----------------------------------------------------------------------------
(* Theorems                                                                *)

VoucherIInv == Settled /\ ReservationsCover

(* The inductive invariant: what the tables, the handlers and the chain    *)
(* say of each other, who holds a wallet's lock and what it knows of the   *)
(* wallet's rows, and what the reservations of an address still cover.     *)
THEOREM VouchersInvariant == Spec => []VoucherIInv
<1>1. Init => VoucherIInv
  BY BasicsInit, FitsInit, LocksInit, RowsInit, ReservationsInit DEF VoucherIInv, Settled
<1>2. VoucherIInv /\ [Next]_vars => VoucherIInv'
  BY SettledStep, ReservationsStep DEF VoucherIInv, Settled
<1> QED BY <1>1, <1>2, PTL DEF Spec

(* The tables, the chain's vouchers and the handlers are what the service  *)
(* keeps, whatever the length of the run and the number of handlers.       *)
THEOREM VouchersTypes == Spec => []VoucherTypeOK
<1>1. VoucherIInv => VoucherTypeOK
  BY DEF VoucherIInv, Settled, Basics, VoucherTypes
<1> QED BY <1>1, VouchersInvariant, PTL

(* A wallet whose lock was never lost has at most one row that is not      *)
(* revoked, so getVoucher never has a choice.                              *)
THEOREM OneLiveRowPerWallet == Spec => []OneLiveRow
<1>1. VoucherIInv => OneLiveRow
  <2> SUFFICES ASSUME VoucherIInv, NEW w \in Wallets \ unlocked
               PROVE  Cardinality(LiveRows(w)) <= 1
    BY DEF OneLiveRow
  <2>1. \A u, v \in LiveRows(w) : u = v
    BY DEF VoucherIInv, Settled, RowsKept, AtMostOneLive
  <2>2. CASE LiveRows(w) = {}
    <3>1. Cardinality({}) = 0
      BY FS_EmptySet
    <3> QED BY <2>2, <3>1
  <2>3. ASSUME NEW v \in LiveRows(w) PROVE Cardinality(LiveRows(w)) <= 1
    <3>1. LiveRows(w) = {v}
      BY <2>1
    <3>2. Cardinality({v}) = 1
      BY FS_Singleton
    <3> QED BY <3>1, <3>2
  <2> QED BY <2>2, <2>3
<1> QED BY <1>1, VouchersInvariant, PTL

(* The tranches paid on the reservations of an address and day stay within *)
(* its ceiling, whatever fails or lands late.                              *)
THEOREM CeilingBoundsPayments == Spec => []CeilingHolds
<1>1. VoucherIInv => CeilingHolds
  <2> SUFFICES ASSUME VoucherIInv, NEW ip \in Ips, NEW d \in Days
               PROVE  Cardinality(Paid(ip, d)) <= Ceiling
    BY DEF CeilingHolds, Paid
  <2>1. Basics /\ ReservationsCover
    BY DEF VoucherIInv, Settled
  <2>2. /\ Cardinality(Paid(ip, d)) \in Nat /\ Cardinality(ToPay(ip, d)) \in Nat
        /\ Cardinality(Sent(ip, d)) \in Nat
    BY <2>1, ClaimsFinite DEF ReservationsCover
  <2>3. Cardinality(Paid(ip, d)) + Cardinality(ToPay(ip, d)) + Cardinality(Sent(ip, d)) <= Ceiling
    BY <2>1 DEF ReservationsCover
  <2> QED BY <2>2, <2>3, VoucherAssumption
<1> QED BY <1>1, VouchersInvariant, PTL

(* Tranches of a wallet are an interval apart, while the blocks are not so *)
(* late that a renewed tranche could expire within the interval: a renewal *)
(* that finds its voucher prolonged far enough does not prolong the row.   *)
THEOREM SpacedTranches ==
    ASSUME Interval + MaxLag <= Duration + 1
    PROVE  Spec => []TranchesAreSpaced
<1>1. Init => Spaced
  BY SpacedInit
<1>2. VoucherIInv /\ Spaced /\ [Next]_vars => Spaced'
  BY SpacedStep DEF VoucherIInv
<1>3. Spaced => TranchesAreSpaced
  BY DEF Spaced
<1> QED BY <1>1, <1>2, <1>3, VouchersInvariant, PTL DEF Spec

(* A row is marked as revoked only once it has expired or the chain has    *)
(* refused its voucher to a request; never on the strength of an old look. *)
THEOREM RevokedOnlyWhenOver == Spec => RenewedStaysLive
<1> DEFINE Kept(v) ==
      LET row == rows[v]
      IN  row # NoRow /\ ~row.revoked /\ rows'[v].revoked /\ row.account \notin unlocked
              => \/ row.validUpTo < now
                 \/ \E s \in Slots : At(s, "retire") /\ handlers[s].id = v
<1>1. VoucherIInv /\ [Next]_vars => [\A v \in VoucherIds : Kept(v)]_vars
  <2> SUFFICES ASSUME VoucherIInv, [Next]_vars, NEW v \in VoucherIds,
                      rows[v] # NoRow, ~rows[v].revoked, rows'[v].revoked,
                      rows[v].account \notin unlocked
               PROVE  \/ rows[v].validUpTo < now
                      \/ \E s \in Slots : At(s, "retire") /\ handlers[s].id = v
    OBVIOUS
  <2>1. Basics /\ LooksHold /\ RowsAreFresh
    BY DEF VoucherIInv, Settled, RowsKept
  <2>2. PICK t \in Slots : Saves(t) /\ handlers[t].id = v
    BY <2>1, RowsChange, SavedWallet
  <2>3. CASE handlers[t].step = "retire"
    BY <2>2, <2>3 DEF At, Saves, Running
  <2>4. CASE handlers[t].step = "mark"
    <3>1. handlers[t].cron /\ Running(t) /\ handlers[t].existing # NoRow
      BY <2>1, <2>2, <2>4, RunningTyped DEF Saves, Basics, HandlersAreShaped, HandlerShape, Handlers
    <3>2. handlers[t].existing.validUpTo < now
      BY <2>1, <2>4, <3>1 DEF LooksHold, PastLock
    <3>3. WalletOf(t) = rows[v].account
      BY <2>1, <2>2, SavedWallet
    <3>4. HoldsRow(t)
      BY <2>1, <2>4, <3>1, <3>3 DEF RowsAreFresh, Safe, PastLock
    <3>5. handlers[t].existing = rows[v]
      BY <2>2, <2>4, <3>1, <3>4 DEF HoldsRow
    <3> QED BY <3>2, <3>5
  <2> QED BY <2>2, <2>3, <2>4 DEF Saves
<1> QED BY <1>1, VouchersInvariant, PTL DEF Spec, RenewedStaysLive
=============================================================================
