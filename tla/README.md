# Smart Cup League in TLA+

A verification development for Smart Cup League, a prediction league for
football tournaments on the Vara network: its on-chain programs and the services
that feed, pay for and index them. The specifications are translated from the
Rust and TypeScript source, TLC checks them on small instances, and TLAPS proves
almost all invariants that TLC checks for every value of the constants.

Source paths are relative to `src/`; `service.rs` and `state.rs` without a
directory are those of `smart-programs/BolaoCore-Program/app/src/services/`.

## 1. The system

| Component | State | Operations | Talks to |
|---|---|---|---|
| **BolaoCore** (`smart-programs/BolaoCore-Program`) | roles, trusted programs, cached price, migration flags; phases, matches, bets, points, refunds, fee and prize pots; podium picks, final prize | 40 message handlers | asks an Oracle program for prices and results, sends freebet principal to the FreebetLedger |
| **FreebetLedger** (`smart-programs/FreebetLedger-Program`) | freebet balances, grants, pending spends, authorized bet programs | grant, spend, return, withdrawals | bets in BolaoCore for a user, gets principal back |
| **Oracle program** (`smart-programs/Oracle-Program`) | feeders, threshold, submissions and final result per match, price | submit, force, cancel, set price | answers BolaoCore's queries |
| **DAO** (`smart-programs/DAO-SmartCupLeague-Program`) | proposals, votes | create, vote, finalize, execute | sends BolaoCore messages as one of its admins |
| **deploy/migrate** scripts | none | deploy; lock, export, import, seal, drain | both ends of a migration |
| **oracle-server** | timers, id mapping | auto-feed, bridge of `ConsensusReached`, finalize timers, recovery scan, price loop | Oracle program, BolaoCore, a sports API |
| **voucher-backend** | gas vouchers, per-IP budgets | issue, top up, revoke under advisory locks | chain, Postgres |
| **rewards-backend** | campaign submissions, referrals | grant rewards | FreebetLedger `grant`, Postgres |
| **indexer**, **api**, **frontend** | projections, caches, UI | read, display | all of the above |

### How a match is played

A match is registered with a phase whose weight says whether it is a knockout.
Until shortly before kick-off wallets bet on it, with their own VARA (5 % fee,
10 % final prize, 85 % match pool) or through the FreebetLedger (all of it to
the pool, to be returned as principal). An oracle proposes a result, pushed or
pulled; for a challenge window an admin may withdraw it; then anyone may
finalize it. Finalization awards points and fixes the winners' stake. Winners
claim floored proportional shares of the pool; freebet principal goes back to
the ledger first. What is unclaimed when the deadline passes is swept into the
final prize. Cancelling a match instead turns cash stakes into refunds and sends
freebet principal back. At the end the final prize is split over the first five
places of the leaderboard.

### What is hard

* **Awaits.** `refresh_vara_price`, `propose_from_oracle`, `claim_match_reward`
  and `cancel_match` suspend on a call to another program. What they changed is
  committed when they suspend; other messages run before they resume; a panic
  after the await undoes only the part after it; the value of a failed call
  comes back.
* **One balance, many owners.** Fees, prize, pools and refunds are numbers over
  one balance, from which admins withdraw a computed surplus, and which a
  forced withdrawal or a drain takes without looking.
* **Floors and rankings.** Bets are cut, pools shared and prizes split with
  integer division, ties cross the fifth place, and the order of tied wallets
  is a hash map's.
* **Two writings of one rule.** Points and payouts of a bet are decided by
  separately written comparisons.
* **Services that die.** The oracle-server, the voucher- and the rewards-backend
  run between awaits of chains, databases and APIs, keep timers, locks and maps
  in memory, and may stop at any of them; a send that timed out may still land.
* **Time.** Betting close, challenge window, claim deadline, podium lock and
  price staleness are compared with block timestamps; the migration lock may
  fall between any two steps.

### What makes each component correct

* *BolaoCore, rules*: points exactly when payout; prizes follow the ranking and
  fit the pool; shares fit the pool; the minimum bet is worth its target.
* *BolaoCore, configuration*: an admin remains; a locked source stays locked and
  its configuration and books still; the minimum bet follows a fresh price.
* *BolaoCore, matches*: books covered by the balance; winners covered until the
  sweep; no bet overpaid whatever fails; results final; proposals stable and
  eventually resolved; refunds exact.
* *BolaoCore, whole*: solvent except for what was taken past the books; prize
  books balance; points are those of the bets and the podium.
* *FreebetLedger*: value held covers all freebet balances; a freebet is at any
  time either in a balance, in a bet, or on its way; each grant applies once.
* *Oracle program*: a finalized result never changes and, unless forced, had
  the threshold's support among feeders authorized at that moment.
* *oracle-server*: a proposal is the result of the teams registered for that
  match; every consensus is proposed, and every proposal finalized.
* *voucher-backend*: one tranche per wallet and interval, no more per address
  and day than the ceiling, one live row per wallet, no voucher revoked that was
  just renewed.
* *rewards-backend*: one reward per X account, task and week; what the tables call
  paid is in the ledger; the weekly cap.
* *indexer*: the tables say what the chain says, however events are batched.
* *Migration*: the sink's books are the source's, and the value follows.
* *DAO*: one vote per wallet, one execution per proposal.

The hazards behind this list, each at its line, are in `PROJECT.json`.

## 2. Modules

```
Sums ── SumsProofs
 ├─ BolaoRules ── FinalPrizeLoop ── BolaoRulesCases ── BolaoRulesMC
 │   └─ BolaoAdmin
 │       └─ BolaoMatches (refines ResultLifecycle)
 │           ├─ BolaoMatchesMC, BolaoMatchesProofs (BolaoAdmin's proofs, too)
 │           ├─ OracleServer (with an instance of OracleProgram) ── OracleServerMC
 │           │   └─ OracleServerProofs (over BolaoMatchesProofs)
 │           └─ BolaoCore ── Indexer ── BolaoCoreMC
 │               └─ CoreProofs (over BolaoCoreMC, BolaoRulesCases and BolaoMatchesProofs)
 └─ FreebetLedger ── FreebetLedgerMC, FreebetLedgerProofs
OracleProgram ── OracleProgramMC, OracleProgramProofs
Rewards (with an instance of FreebetLedger) ── RewardsMC, RewardsProofs
Vouchers ── VouchersMC, VouchersProofs
```

| Module | Models | Correspondence |
|---|---|---|
| `Sums` | sums over finite sets | one operator, over the folds of the community modules |
| `BolaoRules` | `utils.rs`, `constants.rs`, and what the handlers compute in line | one operator per function or formula; amounts are naturals |
| `FinalPrizeLoop` | the loop of `finalize_final_prize_pool` | index, position and allocations as the loop has them; compared with `BolaoRules!Allocations` |
| `BolaoRulesCases` | nothing of its own | every bounded input of those rules as the initial states of a specification, with the properties of the rules |
| `BolaoAdmin` | roles, oracles, ledger, price, lock | variables named as the fields of `SmartCupState`; one action per handler; `refresh_vara_price` is `RefreshVaraPrice` and then `PriceReply` or `PriceReplyFailed` |
| `BolaoMatches` | phases, matches, bets, results, claims, refunds, sweep | one action per handler or per part of a handler between awaits (below) |
| `ResultLifecycle` | what BolaoCore promises about results | no code of its own; `BolaoMatches!LifecycleBoard` maps a match to its entry |
| `BolaoCore` | podium, final prize, withdrawals, drain | the whole program: `Next` has every handler of the modules below it |
| `FreebetLedger` | the whole ledger program, and what a bet program may do with the calls it gets | variables named as the fields of its state, `spends` for the calls in flight; one action per handler or per part of a handler between awaits |
| `OracleProgram` | feeders, threshold, submissions, consensus, forced and cancelled results | variables named as the fields of `OracleState`; `set_feeder_authorized` is `AuthorizeFeeder` and `RevokeFeeder`, `find_consensus` is `Backing` and `Leads` |
| `OracleServer` | `oracle-server/src/server.ts`, `result-mapping.ts`, between both programs | one action per stretch between two awaits (below) |
| `Rewards` | `rewards-backend`: tasks on X, referrals, their grants | a request is a record with the step it has reached; tables are sets of rows |
| `Vouchers` | `voucher-backend`: requests, hourly cron, locks; the chain's vouchers | a handler is a record with its step and the entity it holds |
| `Indexer` | `indexer/src/handlers/bolao.ts` behind the whole of BolaoCore | `Preload` is `collectPreloadIds` with what it loads, `HandleEvent` is `handleEvent`; `Processed` is `process`, and `IndexBatch` adds `save` |

`BolaoMatches` keeps the map `bets` and reads `participants`, `has_bets` and
`user_bets` off it: each bet appends to all of them, nothing removes from them,
and their order decides only in which order `cancel_match` returns freebets,
which the model leaves open. A suspended handler is a record in `queries`
(oracle) or `returns` (ledger) that holds what the handler still needs:

| Handler | Actions |
|---|---|
| `propose_from_oracle` | `ProposeFromOracle`; `OracleReply` or `OracleReplyFailed` |
| `claim_match_reward` | `ClaimMatchReward` without principal; else `ClaimFreebetReward`, then `ReturnDone`, `ReturnRejected` or `ReturnAbandoned` |
| `cancel_match` | `CancelMatch` without freebets; else `CancelMatchWithFreebets`, `ReturnNext` for each further one, then as above |

`ReturnRejected` is a ledger that fails the call (Gear returns its value),
`ReturnAbandoned` a resumption that panics for any other reason. The variables
`paid`, `refunded`, `forced` and `raided` are history: no action reads them,
except `forced` for its bound.

In `FreebetLedger`, `spend_freebet` is `SpendFreebet` up to its await and then
one of `SpendSucceeds`, `SpendFails` and `SpendTimesOut`. A call in flight is a
record in `spends`: who spends how much on what, whether the handler still
`waiting`s for the reply, and whether the bet program has not yet seen the
message, has kept the stake, or has refused it (its value is then on its way
back). `SpendTimesOut` is a resumption before the bet program has answered, so
the bet program may keep the stake of a call that the ledger has given up. The
bet program itself is external: `BetProgramKeeps`, `BetProgramRefuses`, and
`ReturnFreebet`, which it may call whenever it is authorized. `recovered`,
`staked`, `late`, `forced` and `hasty` are history: no action reads them except
through the bounds.

`OracleServer` composes all of `BolaoMatches` with an instance of
`OracleProgram` whose roles, feeders and threshold stay as they were set up.
`sendTx` throws when the transaction was not included and returns when it was,
whether or not the program accepted the message, so a send has three outcomes:
executed, refused, and not sent. A registration job goes through its list with
`SyncBolao` and `SyncOracle` and is written to the files by `SyncEnd`. The
bridge is `BridgeConsensus`, which sets a timer when it has sent its message,
`OracleAnswers` is BolaoCore's own call, `FireTimer` sends `finalize_result` once,
`RecoverProposedMatches` is the scan. `Stop` loses the memory, the timers and
the events not yet handled, and may lose the files (a redeploy); `Boot` loads
them, and the server listens and feeds. `Connect` is `getApi()` at boot: when it
resolves, the bridge and the scan are installed and an empty mapping is rebuilt
from the chain; when it rejects, the process stays up without any of them
(server.ts:2550), although its endpoints and auto-feed connect again on their
own. The variable `bridge` says which. `manual`, `guessed` and `misnumbered` are
history: the matches that are left to an administrator, because their one event
met no bridge or failed, those fed by `/oracle/feed-match` without a mapping, and
whether a list's registration was refused somewhere.

In `Rewards` the ledger is the `Grant` of `FreebetLedger`, with the backend as
its admin. `Abandon` is a handler that throws or a process that dies; a grant
that timed out goes to `orphans` and may be executed later by `LateGrant`.
`payments` and `lost` are history: the referral rewards that the ledger paid, and
those whose row nobody is left to save, because the handler ended after the grant
or stopped waiting for it.

In `Vouchers` the lock of a wallet is taken by `GetVoucher` or `RevokeWithLock`
and released when the handler ends, or by `LoseLock`, after which the handler
goes on. `unsaved` and `unlocked` are history: wallets with an outcome that the
tables never saw, and wallets whose lock was lost. The chain's vouchers are
external, modelled from how the service uses them.

In `Indexer` a batch is one step: it runs in one database transaction, so a
crash or a reorganisation leaves no trace of it. Messages of BolaoCore go to
`backlog` with the events they emit; how many are in a batch is open.

Three constants stand for the world outside. `ReportsOn(m)` is what an oracle may
report: with `EarlyReports = FALSE`, nothing before the kick-off. No handler
checks that, so it is an assumption about the feeders, and the properties that
need it are `ResultsAreFinal`, `WinnersStayCovered`, `NoBetIsOverpaid` and
`PointsAddUp`: a result finalized before the kick-off would still take bets.
`KnownPodiums` says the same of the podium. In `OracleProgram` it is `Faulty`,
the feeders whose submissions may be wrong; in `OracleServer` none is, and what
could go wrong is the mapping.

## 3. Runs

Each run finishes in about three minutes or less. Deadlock is not checked: a
tournament ends, a locked program stops, and the bounds on matches, time and
requests end every behaviour.

| Run | States | What it asks |
|---|---|---|
| `rules` | 914 | the rules over bounded inputs |
| `matches` | 271,416 | one match with everything that may go wrong around it, the lock included; that it implements `ResultLifecycle` |
| `core` | 959,783 | the whole program in five scenarios: solvency, prize books, points, refunds, the lock, and the index that follows it |
| `ledger` | 1,551,420 | value and credit of the freebet ledger under overlapping spends |
| `oracle` | 500,256 | that a consensus is true and final |
| `server` | 544,571 | that the right results reach BolaoCore, and that they do at last |
| `rewards` | 2,546,908 | that each reward is paid once and never only on paper, and how far the weekly cap can be missed |
| `vouchers` | 3,910,720 | that tranches are spaced, bounded and not taken away |
| `closewindow`, `surplus`, `latebet`, `podiumrow` | violated | see section 5 |

**Bounds and why they are enough.**

* `rules`: goals 0 to 2 give every order of the two scores, exact and inexact
  draws and both shoot-outs; six wallets make a tie group that starts inside
  and ends beyond the fifth place, and a sixth rank; pools of 1 and 99 make the
  floors bite.
* `matches`: two bettors, so that a first claim can starve a second; a right, a
  wrong and a shoot-out prediction; stakes of 27 (floors to 23 in the pool) and
  a freebet of 20; two weights, so group and knockout; times at the close, the
  kick-off, on both windows' ends and past them; two queries and two ledger
  calls in flight, so that replies overtake each other. One match suffices here
  because no handler of these reads a second one.
* `core`: every instance takes part of the program's life. `office`: two
  accounts, the fewest that can remove each other; times at and just past the
  staleness limit; prices unset, one that divides the target unevenly, another;
  one refresh in flight while all other handlers run; sealed at deployment or
  not. `tournament`: two matches and the podium, because points and refunds
  accumulate over matches. `treasury`: one match and the podium with all
  withdrawals, the drain and the lock, forced withdrawals bounded in total by
  `MaxForced`. `freebets`: one match with stakes from the ledger, one call to it
  in flight and the withdrawals, so that an administrator can take as surplus what
  a suspended claim or cancellation has still to send (`raided`). `index`: one
  match and the podium behind an indexer that is up to three messages late, so
  that any split of them into batches occurs. The clock takes the times of the
  scenario (`TimesOf`).
* `ledger`: two users and two calls in flight, so that one user's failed spend
  can meet another's grant, spend or withdrawal, and so that one user's two
  spends on the same match meet the pending marker; two grants, so that an
  identifier is reused; grants of 1 and 2 with deposits up to 2, so that a grant
  may be covered, just covered or not covered; one forced withdrawal and one
  late reply, since either alone breaks the books and the invariant has to
  account for it.
* `oracle`: two correct and two faulty feeders of whom at most three are
  authorized at once, so that the faulty ones are below, at or above the
  threshold, and so that only a revocation lets the fourth in; thresholds 1 to 3;
  one true result and two wrong ones, so that first places tie. One match: the
  handlers treat each on its own. Nothing else is bounded.
* `server`: one match, which any of two fixtures of the cup may be registered as,
  so that a list, a single registration, the mapping, the rebuilt mapping and the
  numbers at the sports API can each name another fixture; a fixture decided on
  penalties; another feeder beside the server, threshold 1, so that either brings
  consensus; the process dies at most once (`MaxRestarts`), at any step, and reaches
  the node or not at each of its two starts. Times at
  the kick-off and one window and buffer after each report; reports end at
  `LastReport`, without which an administrator could withdraw for ever.
* `rewards`: tasks and referrals in turn, since they share only the ledger; two
  requests at once; two claimants who may share the posts and X accounts; two
  referrers who invite each other and two more friends with a cap of one; two
  weeks, so that a week ends in the middle of a request; one grant that nobody
  waits for at a time.
* `vouchers`: one wallet, because locks, rows and tranches are each wallet's own
  and what wallets share is an address, which two requests of one wallet meet at
  as well; two handlers at once; two voucher numbers, so that one is replaced;
  two programs, one given only once; a day of two intervals with a ceiling of two,
  so that the third tranche is over it; blocks up to one unit late; one fault.

Symmetry permutes users, oracles, accounts except the deployer, grants, call and
request slots, claimants, invited friends, the correct and the faulty feeders,
and the wrong results; no action orders or names them. `server`, which checks
liveness, uses none.

Every action and every disjunct of the next-state relations fires in some
passing run. Every checked property has a mutant in `PROJECT.json`: a variant of
one definition (its name ends in `_Bug`) as a plausible mistake would write it,
under which the same run finds the property violated.

**Fairness** (`ServerFairness`, used by `server`). Blocks come: weak fairness of
`ChainStep`. The host starts a dead process again: `Boot`; its attempt to reach the
node ends, one way or the other: `Connect`. The event loop runs the callbacks that
were installed: `BridgeConsensus`, `RecoverProposedMatches` (on connecting and every
ten minutes, server.ts:2531), both enabled only with `bridge = "on"`. That the
node is ever reached is not assumed, and nothing restarts a process that failed
to: both liveness properties except it as `Deaf` (section 5). Gear answers or times out every awaited call:
`OracleAnswers`. A message sent again and again is executed at last, though any
one may be lost: strong fairness of `FinalizationLands`, whose repetition is the
scan's. Nothing is assumed of administrators, other feeders and bettors.
`ProposalsAreFinalized` is stated of proposals that `finalize_result` accepts,
and both liveness properties end where the server can no longer decode
BolaoCore's state (section 5).

## 4. Proofs

TLAPS checks the proofs in `SumsProofs`, `BolaoMatchesProofs` (its four parts
are configuration, matches, results and money), `CoreProofs` (rules, whole
program and index),
`FreebetLedgerProofs`, `OracleProgramProofs`, `OracleServerProofs`,
`RewardsProofs` and `VouchersProofs`. They use the assumptions named in the modules, which TLC
evaluates on each run, and two hypotheses where a theorem says so,
`~EarlyReports` and, in `SpacedTranches`, a bound on late blocks; nothing else.

* **Rules.** The five properties of `BolaoRulesCases` are proved for all inputs:
  any goals, weights, wallets, points, pools, stakes and prices. Its specification
  has one variable, the `input`. `PointsGoWithPayouts` and `MinBetIsLeast` are case
  splits and arithmetic of the ceiling; `SettlementsFit` bounds a sum of floors by
  the floor of the sum; `FinalPrizeIsFair` compares the groups of tied wallets by
  what a place is worth on average, which falls from group to group.
  `LoopIsTheRanking` says that the loop of `finalize_final_prize_pool` computes
  what the ranking defines, for every order of tied wallets. The loop is a
  recursive function of its iterations, which no prover unfolds by itself:
  `LoopRun` unfolds it by a least counterexample, and the loop invariant
  (`LoopBodyKeeps`) is that the wallets passed are those ahead of the current
  group, with the place and the prizes the ranking gives them.
* **Configuration.** `AdminInv` (types, and an admin remains) is inductive:
  `AdminInvariant`. The second conjunct is not inductive alone, since the guard
  `Cardinality(admins) > 1` says nothing unless `admins` is finite, which the
  invariant carries. The three action properties follow handler by handler.
* **Matches.** `MatchesInvariant` proves types for every reachable state. What
  makes it inductive is the shape of suspended calls (their match is registered,
  their bets exist) and that the stake of a bet and the pool are naturals, so
  that saturating subtractions, sums over bettors and floored shares stay
  naturals. One lemma per handler keeps the steps short.
* **Results.** The lemma `ResultLife` classifies what a step may do to a
  result; `ProposalsAreStable` follows from it. `LockFreezesTheBooks` takes the
  handlers that the lock lets through: those of roles, prices and time, which touch
  no books, an admin's refund, and the resumptions, which start nothing and
  propose only where nothing was. `PoolsAreFinal` shows that
  finalized and cancelled are final, pool and winner stake included, under
  `~EarlyReports`: the strengthening is that a match with a result is past its
  kick-off, so that betting on it is closed.
* **Refinement.** `MatchesRefine` proves that `BolaoMatches` implements
  `ResultLifecycle`, for any number of matches and oracles and whenever they
  report: what counts has stood unchanged, open to withdrawal, for the whole
  challenge window. A step changes at most one match (`OthersStay`); what it does
  to a result (`MovesOfResults`, from the classification of the previous proof)
  is one action of the lifecycle or nothing (`StepRefines`). The invariant it
  needs is `BlankWhenOpen`: an unresolved match has nothing left of a withdrawn proposal.
* **Money.** `MoneyMoves` sorts the handlers by what they do to matches, bets and
  refunds, and each invariant is shown move by move. `RefundsAreExact`:
  what a wallet was and will be refunded is a sum over its voided bets; it needs
  that a bet is closed only by a claim or a cancellation (`OpenUntilDecided`), so
  that no bet is voided that was paid. `WinnersCovered`: the winner stake is the
  stake of exactly those who may claim, and what was claimed is the sum of their
  shares (`ClaimsBooked`); floored shares of all winners fit into the pool
  (`SharesFit`), so those still open do. `BooksCovered`: `Books` are
  `LockedInMatches` with what every suspended call has still to send (the payout
  of a claim, the freebets that follow in a cancellation), and no step adds more
  to them than to the balance (`BooksKept`). That rests on the pool of an
  undecided match being the stakes in it (`PoolHeld`), without which a
  cancellation could promise more than it takes out of the books.
  `BetsAreNotOverpaid`: what was paid for a bet, together with what suspended
  calls have still to send for it, is at most what the bet is entitled to
  (`PaidInv`), which is nothing until it is closed and never changes afterwards
  (`EntitledStays`). So it is the closing of a bet that pays, once, and the
  ledger's answers only move value from what is owed to what was paid
  (`ReturnNextPays`, `ReturnEndsPays`). It needs that the pool of a finalized
  match is all its stakes until the sweep (`PoolsKept`), that a freebet is all
  principal (`PrincipalsAreStakes`) and that no call has both freebets and a
  payout to send (`PayoutsComeLast`). The three of shares, books and payments
  assume `~EarlyReports`, by `KickedOff`.
* **Whole program.** A step of `Next` is one of `MatchesNext` that leaves podium and
  prize alone, or one of the program's own that leaves matches and calls alone
  (`StepKinds`, `OwnStepFrame`), so the money invariants carry over. What is new is
  the final prize: `PrizesFit` shows that the prizes of any leaderboard with any
  ties are within the pool, by taking the group with the fewest points off the
  set of those placed: the shares of consecutive groups are consecutive intervals
  of places, and the five places share 100 %. `PrizeIsOwedExactly` follows, since
  the total owed then drops by each claim exactly, and `StaysSolvent` adds the
  withdrawals: a surplus withdrawal without a suspended call sees all of `Books`.
  `PointsAreEarnedOnce`: only a
  finalization changes what a match has earned its bettors (`OnlyFinalizeEarns`),
  since weights and predictions stay and, past the kick-off, no bet is added; and
  the podium is known only after the lock of the picks, which no later
  registration moves into the past (`PicksEnded`).
* **Index.** `TheIndexFollows`: for any number of wallets, matches and messages, and
  however the messages fall into batches, tables that have caught up say what
  the chain says. The difficulty is that a batch works on maps that hold only
  some rows, loaded before the first event, and that the chain has moved on by
  the time the batch is read. The proof goes through tables that are loaded as a
  whole and take one event at a time. A batch comes to the same as such a replay
  of its messages (`ProcessedAgrees`): where a map has an entry, it is the
  replayed row; where it has none, the table's row is still the replayed one, and
  no event of the batch needs it, because the ids it names were loaded
  (`Loaded`) or, for the bettors of a final result, are loaded then. The two
  loops of a batch are recursive functions, unfolded by a least counterexample
  (`FoldExists`). On the side of the chain, every handler emits the events that
  make up for what it changes (`IndexMoves`, one lemma per handler): tables that
  said what the chain says do so again after the replay. A cancellation, which
  sets a pool to zero, is right only as every cash bet of the match is refunded in
  the same step; a final result only as the prediction of every bet is in the
  tables by then. The inductive invariant `IndexInv` puts them together: read one
  by one, the messages in the backlog lead from the tables to what the chain says
  (`BacklogLeadsToChain`). A step of the chain makes the replay longer, a batch
  takes as much from the backlog as it brings to the tables, and with an empty
  backlog the tables are the replay. Wallets with a podium bonus are left out
  (section 5, `podiumrow`); they stay out, as a bonus once given is kept. It
  assumes `~EarlyReports`, by which no bet comes after the result, and rests on
  the invariants of the whole program, since the chain takes only its steps
  (`TheIndexedChainIsBolaoCore`).
* **Freebet ledger.** Type correctness, `MarkersMatchCalls`, `LiabilityIsBacked`
  and `CreditIsConserved` are proved for any number of users, grants, programs
  and calls. `LiabilityIsBacked` says that what the program owes is covered by
  what it holds, except for three amounts it keeps apart: what an admin forced
  out, what a hasty surplus withdrawal took, and what a late reply credited
  twice. It is not inductive alone: a surplus withdrawal without pending markers
  is not put to `hasty`, and takes nothing it should not only because then, by
  `MarkersMatchCalls`, no refused stake waits to become credit again; and
  `LateBooks` bounds what calls given up by the ledger may still bring home.
  Each step moves value between at most two terms; `SumOverZero` and the
  one-term lemmas of `SumsProofs` do the rest.
* **Oracle program.** `ConsensusHolds` and `ResultsStay` are proved for any
  number of feeders, matches and results. The strengthening is
  `VotesAreSound`: one submission per feeder, true unless the feeder is faulty.
  Then mapping a submission to its feeder is an injection from the backers of a
  wrong result into the authorized faulty feeders, so there are fewer of them
  than the threshold. Which of several best backed results `find_consensus`
  takes does not matter to the argument.
* **Oracle server.** `ServerRunsBolao` shows that in the composition BolaoCore takes
  only steps of `MatchesSpec`, so that what is proved of it carries over.
  `ResultsAreRight` holds for any number of matches, fixtures, feeders, lists and
  crashes. Two strengthenings make it inductive. `Aligned`, as long as no list was
  misnumbered: the Oracle program's fixtures, both directions of the mapping and
  the file name for an id the fixture BolaoCore has under it, or none; BolaoCore's
  next id is free; and the list being worked off is in step with BolaoCore's
  counter. So a registration contradicts nothing that was known, a crash only
  forgets, and what a boot loads or rebuilds agrees again. `Truths`: every
  submission, not only the agreed result, is what was played, because whoever
  submits takes the fixture from one of those names (`FeedMoves`): so the answer to
  BolaoCore is that, too, however late it comes. `ApiAssumption` says what the sports API answers about a fixture
  that is over, as `result-mapping.ts` describes it: from that, `ResolvesToPlayed`
  shows that the score taken off it is the one played. The other assumptions are
  that ids are 1 to N and that a stage is listed by kick-off.
* **Rewards.** Proved for any number of wallets, posts, X accounts, weeks and
  requests, `RewardsInvariant` follows a payment from its row to the ledger:
  whatever is sent, on its way after a timeout or granted has a row saved before
  it (`RequestsAreBacked`, `MessagesAreBacked`, `GrantsAreBacked`), for the wallet
  and amount its identifier stands for. Hence `PaidRowsAreCredited`; and with the
  unique indexes (`RowsAreUnique`), on which alone it rests that racing requests
  save one row, `XAccountsArePaidOnce`. `CapIsMissedByRequestsAndLosses` bounds what
  the ledger paid a referrer in a week. A payment is in the table, or about to be
  saved by its handler, or lost (`PaymentsAreAccounted`, which also says that a grant
  on its way without a handler is lost from the start). The rows of the week and
  the requests past the check exceed the cap by less than the slots together
  (`CapWithRequests`), since the check admits a request only below the cap; the
  payments with a lost row come on top, one each.
* **Vouchers.** `VouchersInvariant` holds for any number of wallets, handlers and
  rows. `Moves` lists what a handler may do to its own record, its row and the
  chain. Under a lock that was never lost (`LocksAreHeld`) a handler knows all live
  rows of its wallet (`RowsAreKnown`) and holds the table's row, or one newer by
  what it will save (`RowsAreFresh`): so there is one live row, and the cron
  revokes none that was renewed since it looked (`RevokedOnlyWhenOver`).
  `CeilingBoundsPayments` counts what was paid on an address and day with what
  handlers and abandoned sends may still pay (`ReservationsCover`).
  `SpacedTranches` needs that every tranche is in a row or in the handler about to
  save it (`FundingsAreCovered`) and that revoked rows are old
  (`RevokedRowsAreOld`). The latter holds for the cron because a voucher outlives
  its interval, but only while blocks come: what a renewal adds is counted in
  blocks. It is the hypothesis `Interval + MaxLag <= Duration + 1`, true of the
  run and, with an interval of an hour and a duration of a day, of the configured
  service unless the chain stands still for most of a day. Without it TLC finds
  the second tranche at once, with `MaxLag` as long as the duration: a renewal
  while no block comes prolongs nothing, the cron marks the row as expired, and
  the next request is a first one.
* **Sums.** `SumOver` is a fold, and no prover knows folds: `SumsProofs` proves
  from the definition that a sum can be split, changed in one term and bounded,
  by a minimal counterexample over finite sets.

Only model-checked: the two liveness properties `ProposalsAreFinalized` and
`EveryConsensusSettles`, which are out of the prover's reach. Every other property
of a passing run is the statement of a theorem.

## 5. Where the code and its description disagree

Shown by a run:

* `closewindow`: betting closes 0.6 s before kick-off, not ten minutes:
  `BET_CLOSE_WINDOW_SECONDS` is subtracted from milliseconds (service.rs:278;
  README.md:24 of the program, constants.rs:8).
* `surplus`: `total_locked_vara` leaves out the net payout of a claim that
  waits for the ledger, and `withdraw_surplus_vara` can take it (state.rs:350).
* `latebet`: a bet on a match cancelled before its kick-off is accepted and
  never refunded (service.rs:276; README.md:31 of the program).
* `podiumrow`: the leaderboard's total is the sum of points and podium bonuses
  (`indexer/README.md:157`), but a wallet that a batch names only by a podium
  bonus is not loaded, and the row saved for it has the bonus alone
  (`indexer/src/handlers/bolao.ts:296`): 41 points on chain, 35 in the row, and
  its bets and stakes are gone.

Found while stating `LiabilityIsBacked`, which carries both as terms of their own
(without either term TLC finds it violated):

* A test named `withdraw_surplus_vara_does_not_touch_user_liability`
  (freebet_ledger_gtest.rs:165) says what its name says. A refused stake comes
  back to the program before the spend that sent it resumes; a surplus
  withdrawal that runs in between takes it, and the balance restored afterwards
  has nothing behind it (`hasty`).
* A spend whose await ends before the bet program has answered restores the
  user's credit; the bet program may still keep the stake, and the user has both
  the bet and the credit (`late`).

Found while stating `ProposalsAreFinalized`, which excepts it as `Deaf` (without
the exception TLC finds the behaviour: the process dies, starts while the node is
out of reach, and a proposal stays proposed for ever):

* `oracle-server/README.md` says that the server "scans BolaoCore on startup for any
  matches stuck in `Proposed` state" (42) and that the scan "runs on boot and every
  10 minutes" (249). When the node is out of reach at boot, the error is logged
  (server.ts:2550) and the process stays up without bridge, scan and rebuilding;
  nothing restarts it, and auto-feed goes on bringing about consensuses that nobody
  forwards.

Read, and not run:

* A stale price is to pause betting (state.rs:43, and 149: the caller must reject
  the bet), and constants.rs:13 says the fallback is used "only if the price oracle
  has never been set"; the code falls back to `MIN_BET_PLANCK` and takes the bet
  (state.rs:157).
* service.rs:114 says the program asked by `refresh_vara_price` must be an
  authorized or the stored oracle; the handler asks whatever it is given, and
  nothing reads `price_oracle_program_id`.
* A proposal with an inconsistent shoot-out passes `propose_result` and
  `propose_from_oracle`, is refused by `finalize_result`, and once its window is
  over can only be ended by voiding the match.
* `Oracle-Program/README.md:24` says that consensus is reached when the
  threshold's number of authorized feeders agree; `submit_result` is the only
  handler that looks, so a match whose votes suffice only after the threshold is
  lowered, or a feeder authorized again, stays pending.
* The indexer has no case for `FreebetBetAccepted`, `ResultProposalCancelled`
  (the match stays PROPOSED, against `indexer/README.md:142`), `RefundPushed` and
  `MatchDustSwept`; `IndexFollowsTheChain` allows for them. Its accuracy counts
  a drawn knockout with the wrong shoot-out winner as exact, which earns no
  points.
* The oracle-server hands the same sequential id to both programs
  (server.ts:2056, 2098) but hands it out beforehand (2198): a match that
  BolaoCore refuses shifts all that follow (`misnumbered`).
* Its client of BolaoCore has no `Cancelled` among the result statuses
  (bolao.ts:57, against types.rs:34): once a match is cancelled, the state does
  not decode, and the recovery scan, the list of pending finalizations and the
  checks before a proposal all fail.
* Fixtures are "never guessed" (server.ts:282), but a match without a mapping is
  fed with the fixture whose number is the match's id (959, 2376).
* `force_finalize_result` emits `ResultForced` (Oracle-Program service.rs:208);
  the bridge hears `ConsensusReached` only, and a consensus reached while the
  server is down is never bridged either.
* A mapping is written when its whole list is registered: a crash in between
  loses the matches that are registered already, until it is rebuilt by hand.
* rewards-backend: a task whose grant failed stays "approved", which the same
  request will not retry; a referral grant that landed after its timeout, or whose
  handler died before the save, is never recorded, and not counted by the weekly
  cap either (`ReferralCapHolds` says by how much it can be missed); `/milestone` pays any pair it is given; with `chainDisabled` rows are
  marked as paid without a grant.
* voucher-backend: a new voucher's row is saved once, a topped-up one's four
  times; the lock idles out after 120 s while a send may take 180.
* `withdraw_final_prize_rounding_dust` can never run (service.rs:1359).
* The DAO encodes routes as `register_phase` and the like
  (`DAO-SmartCupLeague-Program/app/src/services/service.rs:59`), where the
  generated clients use the exported names.

## 6. Not modelled

*Within the modelled parts.* Gas (the loops over participants have no bound in
the code), message and event encoding, names and their length checks, zero
addresses, queries, u128 widths (amounts stay far below them). Of the ledger the
reasons given for grants; of the Oracle program the price, `bolao_program_id`
and its withdrawals, which touch no result, and the order of admins. Of the
oracle-server the price feed and the endpoints that pass one message on; of the
rewards-backend its dashboards and the administrator's endpoints except the
backfill; of the indexer the tables with one row per event and the DAO handler.

*Whole components.*

* *Migration pages and scripts*: a copy of fields in pages by one script run by
  hand, on a source that is locked and a sink not yet sealed; what it rests on,
  that the lock is for good and freezes the configuration and the books, is checked
  (`LockFreezesConfig`, `LockFreezesBooks`) and proved (`LockFreezes`,
  `LockFreezesTheBooks`).
* *DAO*: it reaches BolaoCore as one more admin, whose messages the models let
  come at any time.
* *API*: read-only queries and a price cache.
* *Frontend*: most of the repository's TypeScript. It keeps no state that outlives
  a page and decides nothing that the programs do not decide again; what it does
  is layout, forms and queries.
* *Generated clients* (`hocs/lib.ts`, `bolao.ts`, `oracle.ts`, `dao.ts`) and
  `review-bundles`: encodings written by a tool, and archived copies of older
  sources.

This is why the modules cover a small part of the repository's lines: the state
and the decisions are in the programs (Rust) and in four services, and those are
modelled; the bulk of the TypeScript has neither.

## 7. Plan

*Done*: rules, configuration, matches, the whole of BolaoCore, FreebetLedger,
OracleProgram, OracleServer, Rewards, Vouchers, Indexer; proved are the rules,
types, results, the refinement, every invariant of BolaoCore that a run checks,
and those of the ledger, the oracle, the server between them, the two backends and
the indexer.

Left, in the order in which they matter for the value at stake:

1. `FreebetFlow`, which composes `FreebetLedger` with the betting part of
   BolaoCore over calls in flight: no freebet is duplicated or lost by an
   accepted or a failed call, and the run that shows the net payout lost by a
   failed return.
2. `BolaoMigration`: two copies of the books, pages in flight, lock, import,
   seal, drain; the sink equals the source.
3. DAO.
