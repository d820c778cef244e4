----------------------------- MODULE BolaoAdmin -----------------------------
(***************************************************************************)
(* Configuration of the BolaoCore program: who may administer it, which    *)
(* oracles and which freebet ledger it trusts, the cached VARA price, and  *)
(* the migration lock that every handler consults.  BolaoMatches and       *)
(* BolaoCore extend this module with the betting state.                    *)
(*                                                                         *)
(* One action is one message handled by the program.  A handler that       *)
(* panics before it awaits leaves no trace, so its checks are the guard of *)
(* its action.  refresh_vara_price awaits a reply: its first part and its  *)
(* resumption are two actions, and other messages run between them.        *)
(*                                                                         *)
(* Left out: emitted events; the program id and zero-address checks (the   *)
(* constants hold real accounts only); import_state_page and               *)
(* import_metadata, which only an unsealed importer accepts: properties    *)
(* that an import could break are stated of sealed programs.               *)
(***************************************************************************)
EXTENDS BolaoRules

CONSTANTS
    Accounts,        \* accounts that may hold a role or receive fees
    Deployer,        \* the admin given to the constructor
    Treasury,        \* the treasury given to the constructor
    Oracles,         \* programs that may be asked for a price or a result
    Ledgers,         \* FreebetLedger programs that may be configured
    Nobody,          \* Option::None for an account or a program
    SealedAtDeploy,  \* TRUE: `new`; FALSE: `new_as_importer`
    Times,           \* the block timestamps an instance visits (ms)
    Prices,          \* prices an oracle may answer; 0 is "never set"
    StalenessLimits, \* values for set_price_staleness_limit
    DEFAULT_PRICE_STALENESS_LIMIT_MS,
    MIN_BET_PLANCK,  \* minimum bet without a usable price
    BET_TARGET,      \* minimum bet in micro-USD times coins per VARA
    RefreshSlots     \* refresh_vara_price calls that may be in flight

ASSUME AdminAssumption ==
    /\ Deployer \in Accounts /\ Treasury \in Accounts
    /\ Nobody \notin Accounts \cup Oracles \cup Ledgers
    /\ SealedAtDeploy \subseteq BOOLEAN
    /\ Times \subseteq Nat /\ Times # {}
    /\ Prices \subseteq Nat
    /\ StalenessLimits \subseteq Nat
    /\ DEFAULT_PRICE_STALENESS_LIMIT_MS \in Nat
    /\ MIN_BET_PLANCK \in Nat \ {0}
    /\ BET_TARGET \in Nat \ {0}

VARIABLES
    now,                        \* exec::block_timestamp()
    admins,
    operators,
    treasury,
    authorized_oracles,         \* the oracles mapped to true
    freebet_ledger_program_id,
    price_oracle_program_id,
    vara_price_usd_micro,
    price_cached_at,
    price_staleness_limit_ms,
    migration_locked,
    migration_sealed,
    refreshes                   \* suspended refresh_vara_price calls

roleVars == <<admins, operators, treasury>>
trustVars == <<authorized_oracles, freebet_ledger_program_id, price_oracle_program_id>>
priceVars == <<vara_price_usd_micro, price_cached_at, price_staleness_limit_ms>>
lockVars == <<migration_locked, migration_sealed>>
adminVars == <<now, roleVars, trustVars, priceVars, lockVars, refreshes>>

\* Everything but the clock and the suspended refreshes.
configVars == <<roleVars, trustVars, priceVars, lockVars>>

AdminTypeOK ==
    /\ now \in Times
    /\ admins \subseteq Accounts
    /\ operators \subseteq Accounts
    /\ treasury \in Accounts
    /\ authorized_oracles \subseteq Oracles
    /\ freebet_ledger_program_id \in Ledgers \cup {Nobody}
    /\ price_oracle_program_id \in Oracles \cup {Nobody}
    /\ vara_price_usd_micro \in Nat
    /\ price_cached_at \in Nat
    /\ price_staleness_limit_ms \in Nat
    /\ migration_locked \in BOOLEAN
    /\ migration_sealed \in BOOLEAN
    /\ refreshes \in [RefreshSlots -> Oracles \cup {Nobody}]

\* SmartCupState::init and init_as_importer.
AdminInit ==
    /\ now \in {t \in Times : \A u \in Times : t <= u}
    /\ admins = {Deployer}
    /\ operators = {}
    /\ treasury = Treasury
    /\ authorized_oracles = {}
    /\ freebet_ledger_program_id = Nobody
    /\ price_oracle_program_id = Nobody
    /\ vara_price_usd_micro = 0
    /\ price_cached_at = 0
    /\ price_staleness_limit_ms = DEFAULT_PRICE_STALENESS_LIMIT_MS
    /\ migration_locked = FALSE
    /\ migration_sealed \in SealedAtDeploy
    /\ refreshes = [s \in RefreshSlots |-> Nobody]

----------------------------------------------------------------------------
(* Guards of state.rs.  Every caller is a member of Accounts. *)

WritesAllowed == ~migration_locked /\ migration_sealed
NotLockedForExport == ~migration_locked
OnlyAdmin(caller) == caller \in admins
OnlyAdminOrOperator(caller) == caller \in admins \cup operators

PriceUsable(t) ==
    /\ vara_price_usd_micro # 0
    /\ price_staleness_limit_ms # 0
    /\ t - price_cached_at <= price_staleness_limit_ms

\* compute_min_bet_planck
ComputeMinBet(t) ==
    IF PriceUsable(t) THEN MinBet(BET_TARGET, vara_price_usd_micro)
                      ELSE MIN_BET_PLANCK

----------------------------------------------------------------------------
(* A later block. *)
Tick ==
    /\ now' \in {t \in Times : t > now}
    /\ UNCHANGED <<configVars, refreshes>>

AddAdmin(caller, account) ==
    /\ NotLockedForExport /\ OnlyAdmin(caller)
    /\ account \notin admins
    /\ admins' = admins \cup {account}
    /\ UNCHANGED <<now, operators, treasury, trustVars, priceVars, lockVars, refreshes>>

RemoveAdmin(caller, account) ==
    /\ NotLockedForExport /\ OnlyAdmin(caller)
    /\ Cardinality(admins) > 1
    /\ account \in admins
    /\ admins' = admins \ {account}
    /\ UNCHANGED <<now, operators, treasury, trustVars, priceVars, lockVars, refreshes>>

AddOperator(caller, account) ==
    /\ NotLockedForExport /\ OnlyAdmin(caller)
    /\ account \notin operators
    /\ operators' = operators \cup {account}
    /\ UNCHANGED <<now, admins, treasury, trustVars, priceVars, lockVars, refreshes>>

RemoveOperator(caller, account) ==
    /\ NotLockedForExport /\ OnlyAdmin(caller)
    /\ account \in operators
    /\ operators' = operators \ {account}
    /\ UNCHANGED <<now, admins, treasury, trustVars, priceVars, lockVars, refreshes>>

SetTreasury(caller, account) ==
    /\ NotLockedForExport /\ OnlyAdmin(caller)
    /\ treasury' = account
    /\ UNCHANGED <<now, admins, operators, trustVars, priceVars, lockVars, refreshes>>

SetOracleAuthorized(caller, oracle, authorized) ==
    /\ NotLockedForExport /\ OnlyAdmin(caller)
    /\ authorized_oracles' = IF authorized THEN authorized_oracles \cup {oracle}
                                           ELSE authorized_oracles \ {oracle}
    /\ UNCHANGED <<now, roleVars, freebet_ledger_program_id,
                   price_oracle_program_id, priceVars, lockVars, refreshes>>

\* Stored and exported, but no handler reads it.
SetPriceOracle(caller, oracle) ==
    /\ NotLockedForExport /\ OnlyAdmin(caller)
    /\ price_oracle_program_id' = oracle
    /\ UNCHANGED <<now, roleVars, authorized_oracles, freebet_ledger_program_id,
                   priceVars, lockVars, refreshes>>

SetPriceStalenessLimit(caller, limit) ==
    /\ NotLockedForExport /\ OnlyAdmin(caller)
    /\ price_staleness_limit_ms' = limit
    /\ UNCHANGED <<now, roleVars, trustVars, vara_price_usd_micro, price_cached_at,
                   lockVars, refreshes>>

SetFreebetLedger_Bug(caller, ledger) ==
    /\ OnlyAdmin(caller)
    /\ freebet_ledger_program_id' = ledger
    /\ UNCHANGED <<now, roleVars, authorized_oracles, price_oracle_program_id,
                   priceVars, lockVars, refreshes>>

SetFreebetLedger(caller, ledger) ==
    /\ NotLockedForExport /\ OnlyAdmin(caller)
    /\ freebet_ledger_program_id' = ledger
    /\ UNCHANGED <<now, roleVars, authorized_oracles, price_oracle_program_id,
                   priceVars, lockVars, refreshes>>

----------------------------------------------------------------------------
(* refresh_vara_price, up to its await: the program asked is the caller's  *)
(* choice.                                                                 *)
RefreshVaraPrice(caller, oracle, slot) ==
    /\ WritesAllowed /\ OnlyAdminOrOperator(caller)
    /\ refreshes[slot] = Nobody
    /\ refreshes' = [refreshes EXCEPT ![slot] = oracle]
    /\ UNCHANGED <<now, configVars>>

(* The resumption with the oracle's answer: nothing is checked again but   *)
(* the price itself.                                                       *)
PriceReply(slot, price) ==
    /\ refreshes[slot] # Nobody
    /\ price # 0
    /\ refreshes' = [refreshes EXCEPT ![slot] = Nobody]
    /\ vara_price_usd_micro' = price
    /\ price_cached_at' = now
    /\ UNCHANGED <<now, roleVars, trustVars, price_staleness_limit_ms, lockVars>>

(* The resumption that panics: an error reply, no reply in time, an answer *)
(* that does not decode, or a zero price.                                  *)
PriceReplyFailed(slot) ==
    /\ refreshes[slot] # Nobody
    /\ refreshes' = [refreshes EXCEPT ![slot] = Nobody]
    /\ UNCHANGED <<now, configVars>>

----------------------------------------------------------------------------
LockForMigration(caller) ==
    /\ OnlyAdmin(caller)
    /\ migration_locked' = TRUE
    /\ UNCHANGED <<now, roleVars, trustVars, priceVars, migration_sealed, refreshes>>

\* The only handler that releases the lock, and only while not yet sealed.
SealMigration(caller) ==
    /\ OnlyAdmin(caller)
    /\ ~migration_sealed
    /\ migration_sealed' = TRUE
    /\ migration_locked' = FALSE
    /\ UNCHANGED <<now, roleVars, trustVars, priceVars, refreshes>>

----------------------------------------------------------------------------
RoleStep ==
    \E caller, account \in Accounts :
        \/ AddAdmin(caller, account)
        \/ RemoveAdmin(caller, account)
        \/ AddOperator(caller, account)
        \/ RemoveOperator(caller, account)
        \/ SetTreasury(caller, account)

TrustStep ==
    \E caller \in Accounts :
        \/ \E oracle \in Oracles, authorized \in BOOLEAN :
              SetOracleAuthorized(caller, oracle, authorized)
        \/ \E oracle \in Oracles : SetPriceOracle(caller, oracle)
        \/ \E ledger \in Ledgers \cup {Nobody} : SetFreebetLedger(caller, ledger)

PriceStep ==
    \/ \E caller \in Accounts, limit \in StalenessLimits :
          SetPriceStalenessLimit(caller, limit)
    \/ \E caller \in Accounts, oracle \in Oracles, slot \in RefreshSlots :
          RefreshVaraPrice(caller, oracle, slot)
    \/ \E slot \in RefreshSlots, price \in Prices : PriceReply(slot, price)
    \/ \E slot \in RefreshSlots : PriceReplyFailed(slot)

LockStep ==
    \E caller \in Accounts : LockForMigration(caller) \/ SealMigration(caller)

ConfigStep == RoleStep \/ TrustStep \/ PriceStep \/ LockStep

AdminNext == Tick \/ ConfigStep

AdminSpec == AdminInit /\ [][AdminNext]_adminVars

----------------------------------------------------------------------------
(* Properties *)

(* remove_admin never leaves the program without an admin, whoever removes *)
(* whom and in whatever order: nobody could ever act on it again.          *)
AlwaysAnAdmin == admins # {}

(* Once a deployed (or sealed) program is locked for export it stays so:   *)
(* seal_migration refuses to run twice and nothing else releases the lock, *)
(* so a source cannot accept bets again after its state was snapshot.      *)
SourceStaysLocked ==
    [][migration_locked /\ migration_sealed
        => migration_locked' /\ migration_sealed']_adminVars

(* While a source (a sealed program) is locked for export, no handler      *)
(* changes a role, a trusted program or the staleness limit: the exported  *)
(* metadata stays what the program holds.                                  *)
LockFreezesConfig ==
    [][migration_sealed /\ migration_locked
        => UNCHANGED <<roleVars, trustVars, price_staleness_limit_ms>>]_adminVars

(* In a program that takes bets the cached price never becomes unset: once *)
(* an oracle answered, no late, failed or zero answer brings back the zero *)
(* (compute_min_bet_planck divides by the price).                          *)
PriceNeverUnset ==
    [][migration_sealed /\ vara_price_usd_micro # 0
        => vara_price_usd_micro' # 0]_adminVars
=============================================================================
