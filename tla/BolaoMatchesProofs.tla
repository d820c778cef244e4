------------------------- MODULE BolaoMatchesProofs -------------------------
(***************************************************************************)
(* Theorems about the configuration, the matches, their results and their  *)
(* money, for any number of accounts, bettors, matches, oracles and        *)
(* suspended calls, and for every price and time.                          *)
(*                                                                         *)
(* Four parts, each resting on the ones before:                            *)
(*   1. the configuration (AdminInv);                                      *)
(*   2. the types of matches, bets and calls (MatchesInv);                 *)
(*   3. the life of a result (MatchMoves);                                 *)
(*   4. the money (MoneyMoves).                                            *)
(***************************************************************************)
EXTENDS BolaoMatches, SumsProofs

----------------------------------------------------------------------------
(***************************************************************************)
(* PART 1: the configuration handlers.                                     *)
(*                                                                         *)
(* AdminInv is inductive: the types, and that admins is a finite non-empty *)
(* set.  Finiteness is what makes the handler's test `admins.len() > 1`    *)
(* mean that somebody else remains.                                        *)
(***************************************************************************)

AdminInv ==
    /\ AdminTypeOK
    /\ IsFiniteSet(admins)
    /\ AlwaysAnAdmin

(* AdminInv holds of a program just deployed. *)
LEMMA AdminInitInv == AdminInit => AdminInv
<1>. SUFFICES ASSUME AdminInit
              PROVE  AdminInv
  OBVIOUS
<1>1. AdminTypeOK
  BY AdminAssumption DEF AdminInit, AdminTypeOK
<1>2. IsFiniteSet(admins)
  BY FS_Singleton DEF AdminInit
<1>3. AlwaysAnAdmin
  BY DEF AdminInit, AlwaysAnAdmin
<1>. QED
  BY <1>1, <1>2, <1>3 DEF AdminInv

(* Each group of handlers preserves the types. *)
LEMMA TickTyped == AdminTypeOK /\ Tick => AdminTypeOK'
BY DEF AdminTypeOK, Tick, configVars, roleVars, trustVars, priceVars, lockVars

LEMMA RoleStepTyped == AdminTypeOK /\ RoleStep => AdminTypeOK'
<1>. SUFFICES ASSUME AdminTypeOK, RoleStep
              PROVE  AdminTypeOK'
  OBVIOUS
<1>. USE DEF AdminTypeOK, trustVars, priceVars, lockVars
<1>1. PICK caller, account \in Accounts :
          \/ AddAdmin(caller, account)
          \/ RemoveAdmin(caller, account)
          \/ AddOperator(caller, account)
          \/ RemoveOperator(caller, account)
          \/ SetTreasury(caller, account)
  BY DEF RoleStep
<1>2. CASE AddAdmin(caller, account)
  BY <1>2 DEF AddAdmin
<1>3. CASE RemoveAdmin(caller, account)
  BY <1>3 DEF RemoveAdmin
<1>4. CASE AddOperator(caller, account)
  BY <1>4 DEF AddOperator
<1>5. CASE RemoveOperator(caller, account)
  BY <1>5 DEF RemoveOperator
<1>6. CASE SetTreasury(caller, account)
  BY <1>6 DEF SetTreasury
<1>. QED
  BY <1>1, <1>2, <1>3, <1>4, <1>5, <1>6

LEMMA TrustStepTyped == AdminTypeOK /\ TrustStep => AdminTypeOK'
<1>. SUFFICES ASSUME AdminTypeOK, TrustStep
              PROVE  AdminTypeOK'
  OBVIOUS
<1>. USE DEF AdminTypeOK, roleVars, priceVars, lockVars
<1>1. ASSUME NEW caller \in Accounts, NEW oracle \in Oracles, NEW authorized \in BOOLEAN,
             SetOracleAuthorized(caller, oracle, authorized)
      PROVE  AdminTypeOK'
  BY <1>1 DEF SetOracleAuthorized
<1>2. ASSUME NEW caller \in Accounts, NEW oracle \in Oracles, SetPriceOracle(caller, oracle)
      PROVE  AdminTypeOK'
  BY <1>2 DEF SetPriceOracle
<1>3. ASSUME NEW caller \in Accounts, NEW ledger \in Ledgers \cup {Nobody},
             SetFreebetLedger(caller, ledger)
      PROVE  AdminTypeOK'
  BY <1>3 DEF SetFreebetLedger
<1>. QED
  BY <1>1, <1>2, <1>3 DEF TrustStep

LEMMA PriceStepTyped == AdminTypeOK /\ PriceStep => AdminTypeOK'
<1>. SUFFICES ASSUME AdminTypeOK, PriceStep
              PROVE  AdminTypeOK'
  OBVIOUS
<1>. USE AdminAssumption DEF AdminTypeOK, configVars, roleVars, trustVars, priceVars, lockVars
<1>1. ASSUME NEW caller \in Accounts, NEW limit \in StalenessLimits,
             SetPriceStalenessLimit(caller, limit)
      PROVE  AdminTypeOK'
  BY <1>1 DEF SetPriceStalenessLimit
<1>2. ASSUME NEW caller \in Accounts, NEW oracle \in Oracles, NEW slot \in RefreshSlots,
             RefreshVaraPrice(caller, oracle, slot)
      PROVE  AdminTypeOK'
  BY <1>2 DEF RefreshVaraPrice
<1>3. ASSUME NEW slot \in RefreshSlots, NEW price \in Prices, PriceReply(slot, price)
      PROVE  AdminTypeOK'
  BY <1>3 DEF PriceReply
<1>4. ASSUME NEW slot \in RefreshSlots, PriceReplyFailed(slot)
      PROVE  AdminTypeOK'
  BY <1>4 DEF PriceReplyFailed
<1>. QED
  BY <1>1, <1>2, <1>3, <1>4 DEF PriceStep

LEMMA LockStepTyped == AdminTypeOK /\ LockStep => AdminTypeOK'
BY DEF AdminTypeOK, LockStep, LockForMigration, SealMigration,
       roleVars, trustVars, priceVars

LEMMA AdminNextTyped == AdminTypeOK /\ AdminNext => AdminTypeOK'
BY TickTyped, RoleStepTyped, TrustStepTyped, PriceStepTyped, LockStepTyped
   DEF AdminNext, ConfigStep

----------------------------------------------------------------------------
(* Only add_admin and remove_admin touch the admins. *)
LEMMA AdminsChange ==
    ASSUME AdminNext, admins' # admins
    PROVE  \E caller, account \in Accounts :
              AddAdmin(caller, account) \/ RemoveAdmin(caller, account)
<1>. USE DEF configVars, roleVars, trustVars, priceVars, lockVars
<1>1. ~Tick
  BY DEF Tick
<1>2. ~TrustStep
  BY DEF TrustStep, SetOracleAuthorized, SetPriceOracle, SetFreebetLedger
<1>3. ~PriceStep
  BY DEF PriceStep, SetPriceStalenessLimit, RefreshVaraPrice, PriceReply, PriceReplyFailed
<1>4. ~LockStep
  BY DEF LockStep, LockForMigration, SealMigration
<1>5. RoleStep
  BY <1>1, <1>2, <1>3, <1>4 DEF AdminNext, ConfigStep
<1>. QED
  BY <1>5 DEF RoleStep, AddOperator, RemoveOperator, SetTreasury

(* remove_admin leaves somebody: a set of two or more minus one element. *)
LEMMA AdminsStay ==
    ASSUME IsFiniteSet(admins), admins # {}, AdminNext
    PROVE  IsFiniteSet(admins') /\ admins' # {}
<1>1. CASE admins' = admins
  BY <1>1
<1>2. CASE admins' # admins
  <2>1. PICK caller, account \in Accounts :
            AddAdmin(caller, account) \/ RemoveAdmin(caller, account)
    BY <1>2, AdminsChange
  <2>2. CASE AddAdmin(caller, account)
    BY <2>2, FS_AddElement DEF AddAdmin
  <2>3. CASE RemoveAdmin(caller, account)
    <3>1. /\ admins' = admins \ {account}
          /\ account \in admins
          /\ Cardinality(admins) > 1
      BY <2>3 DEF RemoveAdmin
    <3>2. /\ IsFiniteSet(admins')
          /\ Cardinality(admins') = Cardinality(admins) - 1
      BY <3>1, FS_RemoveElement
    <3>3. Cardinality(admins) \in Nat
      BY FS_CardinalityType
    <3>4. Cardinality(admins') # 0
      BY <3>1, <3>2, <3>3
    <3>. QED
      BY <3>2, <3>4, FS_EmptySet
  <2>. QED
    BY <2>1, <2>2, <2>3
<1>. QED
  BY <1>1, <1>2

(* AdminInv is inductive. *)
LEMMA AdminInvStep == AdminInv /\ [AdminNext]_adminVars => AdminInv'
<1>. SUFFICES ASSUME AdminInv, [AdminNext]_adminVars
              PROVE  AdminInv'
  OBVIOUS
<1>1. CASE AdminNext
  <2>1. AdminTypeOK'
    BY <1>1, AdminNextTyped DEF AdminInv
  <2>2. IsFiniteSet(admins') /\ admins' # {}
    BY <1>1, AdminsStay DEF AdminInv, AlwaysAnAdmin
  <2>. QED
    BY <2>1, <2>2 DEF AdminInv, AlwaysAnAdmin
<1>2. CASE UNCHANGED adminVars
  BY <1>2 DEF AdminInv, AdminTypeOK, AlwaysAnAdmin, adminVars, roleVars, trustVars,
              priceVars, lockVars
<1>. QED
  BY <1>1, <1>2

(* The types of the configuration hold, and there is an admin, always. *)
THEOREM AdminInvariant == AdminSpec => []AdminInv
BY AdminInitInv, AdminInvStep, PTL DEF AdminSpec

(* The configuration is well typed in every reachable state. *)
THEOREM AdminTypes == AdminSpec => []AdminTypeOK
BY AdminInvariant, PTL DEF AdminInv

(* remove_admin can never leave the program without an admin. *)
THEOREM AdminRemains == AdminSpec => []AlwaysAnAdmin
BY AdminInvariant, PTL DEF AdminInv

----------------------------------------------------------------------------
(* A locked and sealed program stays locked: lock_for_migration only sets  *)
(* the lock and seal_migration panics.                                     *)
THEOREM LockIsForGood == AdminSpec => SourceStaysLocked
<1>1. [AdminNext]_adminVars =>
          [migration_locked /\ migration_sealed
              => migration_locked' /\ migration_sealed']_adminVars
  <2>. SUFFICES ASSUME AdminNext, migration_locked, migration_sealed
                PROVE  migration_locked' /\ migration_sealed'
    OBVIOUS
  <2>. USE DEF configVars, lockVars
  <2>1. CASE Tick
    BY <2>1 DEF Tick
  <2>2. CASE RoleStep
    BY <2>2 DEF RoleStep, AddAdmin, RemoveAdmin, AddOperator, RemoveOperator, SetTreasury
  <2>3. CASE TrustStep
    BY <2>3 DEF TrustStep, SetOracleAuthorized, SetPriceOracle, SetFreebetLedger
  <2>4. CASE PriceStep
    BY <2>4 DEF PriceStep, SetPriceStalenessLimit, RefreshVaraPrice, PriceReply,
                PriceReplyFailed
  <2>5. CASE LockStep
    BY <2>5 DEF LockStep, LockForMigration, SealMigration
  <2>. QED
    BY <2>1, <2>2, <2>3, <2>4, <2>5 DEF AdminNext, ConfigStep
<1>. QED
  BY <1>1, PTL DEF AdminSpec, SourceStaysLocked

(* A locked source: the roles, the trusted programs and the staleness limit*)
(* do not change.                                                          *)
THEOREM LockFreezes == AdminSpec => LockFreezesConfig
<1>1. [AdminNext]_adminVars =>
          [migration_sealed /\ migration_locked
              => UNCHANGED <<roleVars, trustVars, price_staleness_limit_ms>>]_adminVars
  <2>. SUFFICES ASSUME AdminNext, migration_sealed, migration_locked
                PROVE  UNCHANGED <<roleVars, trustVars, price_staleness_limit_ms>>
    OBVIOUS
  <2>. USE DEF configVars, priceVars, NotLockedForExport
  <2>1. CASE Tick
    BY <2>1 DEF Tick
  <2>2. ~RoleStep
    BY DEF RoleStep, AddAdmin, RemoveAdmin, AddOperator, RemoveOperator, SetTreasury
  <2>3. ~TrustStep
    BY DEF TrustStep, SetOracleAuthorized, SetPriceOracle, SetFreebetLedger
  <2>4. CASE PriceStep
    BY <2>4 DEF PriceStep, SetPriceStalenessLimit, RefreshVaraPrice, PriceReply,
                PriceReplyFailed
  <2>5. CASE LockStep
    BY <2>5 DEF LockStep, LockForMigration, SealMigration
  <2>. QED
    BY <2>1, <2>2, <2>3, <2>4, <2>5 DEF AdminNext, ConfigStep
<1>. QED
  BY <1>1, PTL DEF AdminSpec, LockFreezesConfig

(* Once set, the price is never zero again. *)
THEOREM PriceStaysSet == AdminSpec => PriceNeverUnset
<1>1. [AdminNext]_adminVars =>
          [migration_sealed /\ vara_price_usd_micro # 0
              => vara_price_usd_micro' # 0]_adminVars
  <2>. SUFFICES ASSUME AdminNext, migration_sealed, vara_price_usd_micro # 0
                PROVE  vara_price_usd_micro' # 0
    OBVIOUS
  <2>. USE DEF configVars, priceVars
  <2>1. CASE Tick
    BY <2>1 DEF Tick
  <2>2. CASE RoleStep
    BY <2>2 DEF RoleStep, AddAdmin, RemoveAdmin, AddOperator, RemoveOperator, SetTreasury
  <2>3. CASE TrustStep
    BY <2>3 DEF TrustStep, SetOracleAuthorized, SetPriceOracle, SetFreebetLedger
  <2>4. CASE PriceStep
    BY <2>4 DEF PriceStep, SetPriceStalenessLimit, RefreshVaraPrice, PriceReply,
                PriceReplyFailed
  <2>5. CASE LockStep
    BY <2>5 DEF LockStep, LockForMigration, SealMigration
  <2>. QED
    BY <2>1, <2>2, <2>3, <2>4, <2>5 DEF AdminNext, ConfigStep
<1>. QED
  BY <1>1, PTL DEF AdminSpec, PriceNeverUnset

----------------------------------------------------------------------------
(***************************************************************************)
(* PART 2: matches, bets and suspended calls keep their types.             *)
(*                                                                         *)
(* MatchesInv is inductive: the types, and what keeps them through the     *)
(* resumptions.  A resumption works on what its call remembers, so the     *)
(* invariant says that a remembered match is registered and a remembered   *)
(* bet exists.                                                             *)
(***************************************************************************)

(* A suspended propose_from_oracle asks about a registered match. *)
QueriesRegistered ==
    \A s \in QuerySlots : queries[s] # NoCall => queries[s].match \in Registered

(* The freebets that a suspended cancel_match has yet to return are bets. *)
ReturnsHaveBets ==
    \A s \in ReturnSlots :
        returns[s] # NoCall =>
            \A u \in returns[s].todo : bets[<<u, returns[s].match>>] # NoBet

(* register_match hands out ids above every id in use. *)
IdsAreAssigned == \A m \in Registered : m <= next_match_id

MatchesInv ==
    /\ AdminTypeOK
    /\ MatchesTypeOK
    /\ QueriesRegistered
    /\ ReturnsHaveBets
    /\ IdsAreAssigned

(* The three cuts of a stake add up to it. *)
LEMMA CutsNat ==
    ASSUME NEW value \in Nat
    PROVE  /\ ProtocolFee(value) \in Nat
           /\ FinalPrizeCut(value) \in Nat
           /\ MatchPoolCut(value) \in Nat
           /\ ProtocolFee(value) + FinalPrizeCut(value) + MatchPoolCut(value) = value
BY DEF ProtocolFee, FinalPrizeCut, MatchPoolCut, Bps, BPS_DENOMINATOR,
       PROTOCOL_FEE_BPS, FINAL_PRIZE_BPS

(* Points, shares and weights are natural numbers. *)
LEMMA PointsNat ==
    ASSUME NEW bet, NEW final, NEW weight \in Nat
    PROVE  PointsFor(bet, final, weight) \in Nat
BY DEF PointsFor

LEMMA ShareNat ==
    ASSUME NEW stake \in Nat, NEW pool \in Nat, NEW winnerStake \in Nat \ {0}
    PROVE  Share(stake, pool, winnerStake) \in Nat
<1>1. stake * pool \in Nat
  OBVIOUS
<1>2. \A n \in Nat : n \div winnerStake \in Nat
  OBVIOUS
<1>. QED
  BY <1>1, <1>2 DEF Share

(* What a registered match and an existing bet look like. *)
LEMMA BettorsBet ==
    ASSUME MatchesTypeOK, NEW m \in MatchIds, NEW u \in Users, bets[<<u, m>>] # NoBet
    PROVE  bets[<<u, m>>] \in Bets
BY DEF MatchesTypeOK

LEMMA MatchTyped ==
    ASSUME MatchesTypeOK, NEW m \in Registered
    PROVE  m \in MatchIds /\ matches[m] \in Matches
BY DEF MatchesTypeOK, Registered

(* Stakes add up to a natural number. *)
LEMMA StakeOfNat ==
    ASSUME MatchesTypeOK, NEW m \in MatchIds, NEW us \in SUBSET Bettors(m)
    PROVE  StakeOf(us, m) \in Nat
<1>. DEFINE stake == [u \in us |-> bets[<<u, m>>].stake_in_match_pool]
<1>1. us \subseteq Users /\ IsFiniteSet(us)
  BY MatchesAssumption, FS_Subset DEF Bettors
<1>2. \A u \in us : stake[u] \in Nat
  BY <1>1, BettorsBet DEF Bettors, Bets
<1>. HIDE DEF stake
<1>3. SumOver(stake, us) \in Nat
  BY <1>1, <1>2, SumOverNat
<1>. QED
  BY <1>3 DEF StakeOf, stake

(* The principal returned to the ledger is part of the share. *)
LEMMA ShareOfNat ==
    ASSUME MatchesTypeOK, NEW m \in Registered, NEW u \in Bettors(m),
           matches[m].total_winner_stake # 0
    PROVE  /\ ShareOf(u, m) \in Nat
           /\ PrincipalOf(u, m) \in Nat
           /\ ShareOf(u, m) - PrincipalOf(u, m) \in Nat
<1>1. /\ matches[m].match_prize_pool \in Nat
      /\ matches[m].total_winner_stake \in Nat \ {0}
  BY MatchTyped DEF Matches
<1>2. /\ bets[<<u, m>>].stake_in_match_pool \in Nat
      /\ bets[<<u, m>>].freebet_principal \in Nat
  BY MatchTyped, BettorsBet DEF Bets, Bettors
<1>3. ShareOf(u, m) \in Nat
  BY <1>1, <1>2, ShareNat DEF ShareOf
<1>. QED
  BY <1>2, <1>3 DEF PrincipalOf

LEMMA WeightNat ==
    ASSUME MatchesTypeOK, NEW m \in Registered
    PROVE  Weight(m) \in Nat
BY MatchTyped DEF MatchesTypeOK, Weight, Matches, MAX_POINTS_WEIGHT
----------------------------------------------------------------------------
(* Every action preserves the types.  Variables that an action leaves      *)
(* alone are dispatched by the groups of UNCHANGED.                        *)

(* A step that keeps the registered matches, and one that keeps the bets.  *)
MatchesKept ==
    /\ matches' \in [MatchIds -> Matches \cup {NoMatch}]
    /\ Registered' = Registered

BetsKept ==
    /\ bets' \in [Users \X MatchIds -> Bets \cup {NoBet}]
    /\ \A k \in Users \X MatchIds : bets[k] # NoBet => bets'[k] # NoBet

(* What every step of the handlers keeps: the types, the registered        *)
(* matches and the bets.                                                   *)
StepTyped ==
    /\ MatchesTypeOK'
    /\ Registered \subseteq Registered'
    /\ \A n \in Registered' \ Registered :
          n = next_match_id + 1 /\ next_match_id' = next_match_id + 1
    /\ \A k \in Users \X MatchIds : bets[k] # NoBet => bets'[k] # NoBet

(* Most steps keep the registered matches and the bets. *)
LEMMA StepTypedKept ==
    ASSUME MatchesTypeOK', UNCHANGED matches \/ MatchesKept, UNCHANGED bets \/ BetsKept
    PROVE  StepTyped
<1>1. Registered' = Registered
  BY DEF MatchesKept, Registered
<1>2. \A k \in Users \X MatchIds : bets[k] # NoBet => bets'[k] # NoBet
  BY DEF BetsKept
<1>. QED
  BY <1>1, <1>2 DEF StepTyped

(* Replacing a registered match, or placing or changing a bet. *)
LEMMA UpdateMatch ==
    ASSUME MatchesTypeOK, NEW m \in Registered, NEW new \in Matches,
           matches' = [matches EXCEPT ![m] = new]
    PROVE  MatchesKept
<1>1. m \in MatchIds /\ new # NoMatch
  BY MatchTyped, MarkerAssumption
<1>2. matches' \in [MatchIds -> Matches \cup {NoMatch}]
  BY <1>1 DEF MatchesTypeOK
<1>3. \A n \in MatchIds : matches'[n] # NoMatch <=> matches[n] # NoMatch
  BY <1>1 DEF MatchesTypeOK, Registered
<1>. QED
  BY <1>2, <1>3 DEF MatchesKept, Registered

LEMMA UpdateBet ==
    ASSUME MatchesTypeOK, NEW u \in Users, NEW m \in MatchIds, NEW new \in Bets,
           bets' = [bets EXCEPT ![<<u, m>>] = new]
    PROVE  BetsKept
<1>1. new # NoBet
  BY MarkerAssumption
<1>2. bets' \in [Users \X MatchIds -> Bets \cup {NoBet}]
  BY DEF MatchesTypeOK
<1>3. \A k \in Users \X MatchIds : bets[k] # NoBet => bets'[k] # NoBet
  BY <1>1 DEF MatchesTypeOK
<1>. QED
  BY <1>2, <1>3 DEF BetsKept

(* The registration handlers. *)
LEMMA RegisterTyped ==
    ASSUME MatchesTypeOK, RegisterStep
    PROVE  StepTyped
<1>. USE MatchesAssumption
     DEF MatchesTypeOK, boardVars, potVars, callVars
<1>1. ASSUME NEW caller \in Accounts, NEW phase \in PhaseNames, NEW weight \in Weights,
             RegisterPhase(caller, phase, weight)
      PROVE  StepTyped
  BY <1>1, StepTypedKept DEF RegisterPhase
<1>2. ASSUME NEW caller \in Accounts, NEW phase \in PhaseNames, NEW kickOff \in KickOffs,
             RegisterMatch(caller, phase, kickOff)
      PROVE  StepTyped
  <2>1. NewMatch(phase, kickOff) \in Matches
    BY DEF NewMatch, Matches, Results, Unresolved, Statuses, NoTime
  <2>2. MatchesTypeOK'
    BY <1>2, <2>1 DEF RegisterMatch
  <2>3. /\ Registered \subseteq Registered'
        /\ \A n \in Registered' \ Registered :
              n = next_match_id + 1 /\ next_match_id' = next_match_id + 1
    BY <1>2, <2>1, MarkerAssumption DEF RegisterMatch, Registered
  <2>4. \A k \in Users \X MatchIds : bets[k] # NoBet => bets'[k] # NoBet
    BY <1>2 DEF RegisterMatch
  <2>. QED
    BY <2>2, <2>3, <2>4 DEF StepTyped
<1>. QED
  BY <1>1, <1>2 DEF RegisterStep

(* The betting handlers. *)
LEMMA RecordBetTyped ==
    ASSUME MatchesTypeOK, NEW u \in Users, NEW m \in Registered, NEW p \in Guesses,
           NEW stake \in Nat, NEW principal \in Nat,
           RecordBet(u, m, p, stake, principal)
    PROVE  MatchesKept /\ BetsKept
<1>. DEFINE pooled == [matches[m] EXCEPT !.match_prize_pool = @ + stake]
            bet == [prediction |-> p, stake_in_match_pool |-> stake,
                    freebet_principal |-> principal, claimed |-> FALSE]
<1>1. m \in MatchIds /\ matches[m] \in Matches
  BY MatchTyped
<1>2. pooled \in Matches
  BY <1>1 DEF Matches
<1>3. bet \in Bets
  BY MatchesAssumption DEF Bets
<1>4. /\ matches' = [matches EXCEPT ![m] = pooled]
      /\ bets' = [bets EXCEPT ![<<u, m>>] = bet]
  BY DEF RecordBet
<1>. HIDE DEF pooled, bet
<1>. QED
  BY <1>1, <1>2, <1>3, <1>4, UpdateMatch, UpdateBet

LEMMA BetTyped ==
    ASSUME MatchesTypeOK, BetStep
    PROVE  StepTyped
<1>. USE StepTypedKept DEF boardVars, potVars, callVars, MatchesKept, BetsKept
<1>1. ASSUME NEW u \in Users, NEW m \in MatchIds, NEW p \in Guesses, NEW value \in BetValues,
             PlaceBet(u, m, p, value)
      PROVE  StepTyped
  <2>1. value \in Nat /\ m \in Registered
    BY <1>1, MatchesAssumption DEF PlaceBet, AcceptsBet
  <2>2. /\ ProtocolFee(value) \in Nat
        /\ FinalPrizeCut(value) \in Nat
        /\ MatchPoolCut(value) \in Nat
    BY <2>1, CutsNat
  <2>3. MatchesKept /\ BetsKept
    BY <1>1, <2>1, <2>2, RecordBetTyped DEF PlaceBet
  <2>. QED
    BY <1>1, <2>1, <2>2, <2>3 DEF MatchesTypeOK, PlaceBet
<1>2. ASSUME NEW u \in Users, NEW m \in MatchIds, NEW p \in Guesses,
             NEW value \in FreebetValues, PlaceBetFromFreebetLedger(u, m, p, value)
      PROVE  StepTyped
  <2>1. value \in Nat /\ m \in Registered
    BY <1>2, MatchesAssumption DEF PlaceBetFromFreebetLedger, AcceptsBet
  <2>2. MatchesKept /\ BetsKept
    BY <1>2, <2>1, RecordBetTyped DEF PlaceBetFromFreebetLedger
  <2>. QED
    BY <1>2, <2>1, <2>2 DEF MatchesTypeOK, PlaceBetFromFreebetLedger
<1>. QED
  BY <1>1, <1>2 DEF BetStep

(* Replacing the result of a registered match keeps matches well typed. *)
LEMMA NewResultTyped ==
    ASSUME MatchesTypeOK, NEW m \in Registered, NEW r \in Results,
           matches' = [matches EXCEPT ![m].result = r]
    PROVE  MatchesKept
<1>. DEFINE new == [matches[m] EXCEPT !.result = r]
<1>1. new \in Matches
  BY MatchTyped DEF Matches
<1>2. matches' = [matches EXCEPT ![m] = new]
  OBVIOUS
<1>. HIDE DEF new
<1>. QED
  BY <1>1, <1>2, UpdateMatch

(* A proposal made now is a result. *)
LEMMA ProposalTyped ==
    ASSUME AdminTypeOK, NEW r \in Reports
    PROVE  Proposed(r, now) \in Results
BY AdminAssumption, MatchesAssumption DEF AdminTypeOK, Proposed, Results, Statuses

(* finalize_result. *)
LEMMA FinalizeTyped ==
    ASSUME AdminTypeOK, MatchesTypeOK, NEW m \in MatchIds, FinalizeResult(m)
    PROVE  StepTyped
<1>. DEFINE f == matches[m].result.final
            winnerStake == WinnerStake(m, f)
            settled == [matches[m] EXCEPT
                           !.result = Finalized(f),
                           !.total_winner_stake = winnerStake,
                           !.match_prize_pool = IF winnerStake = 0 THEN 0 ELSE @,
                           !.dust_swept = @ \/ winnerStake = 0,
                           !.settlement_prepared = TRUE,
                           !.finalized_at = now]
<1>1. m \in Registered /\ matches[m] \in Matches /\ now \in Nat
  BY MatchTyped, AdminAssumption DEF FinalizeResult, AdminTypeOK
<1>2. winnerStake \in Nat
  BY StakeOfNat DEF WinnerStake, Winners
<1>3. Finalized(f) \in Results
  BY <1>1 DEF Finalized, Matches, Results, Statuses
<1>4. \A u \in Bettors(m) : PointsFor(bets[<<u, m>>].prediction, f, Weight(m)) \in Nat
  BY <1>1, WeightNat, PointsNat
<1>5. user_points' \in [Users -> Nat]
  BY <1>4 DEF FinalizeResult, PointsAfter, MatchesTypeOK
<1>6. matches' = [matches EXCEPT ![m] = settled]
  BY DEF FinalizeResult
<1>7. settled \in Matches
  <2>. HIDE DEF winnerStake, f
  <2>. QED BY <1>1, <1>2, <1>3 DEF Matches
<1>8. MatchesKept
  <2>. HIDE DEF settled
  <2>. QED BY <1>1, <1>6, <1>7, UpdateMatch
<1>9. final_prize_accumulated' \in Nat
  BY <1>1 DEF FinalizeResult, MatchesTypeOK, Matches
<1>. QED
  BY <1>5, <1>8, <1>9, StepTypedKept
     DEF FinalizeResult, MatchesTypeOK, boardVars, callVars, MatchesKept

(* cancel_match, its committed part. *)
LEMMA VoidTyped ==
    ASSUME AdminTypeOK, MatchesTypeOK, NEW m \in MatchIds, NEW caller, VoidMatch(caller, m)
    PROVE  /\ pending_refunds' \in [Users -> Nat]
           /\ MatchesKept
           /\ BetsKept
<1>. DEFINE void == [matches[m] EXCEPT
                        !.match_prize_pool = 0,
                        !.total_winner_stake = 0,
                        !.settlement_prepared = TRUE,
                        !.dust_swept = TRUE,
                        !.result = Cancelled,
                        !.finalized_at = now]
<1>1. m \in Registered /\ matches[m] \in Matches /\ now \in Nat
  BY MatchTyped, AdminAssumption DEF VoidMatch, AdminTypeOK
<1>2. void \in Matches
  BY <1>1 DEF Matches, Cancelled, Results, Statuses
<1>3. matches' = [matches EXCEPT ![m] = void]
  BY DEF VoidMatch
<1>4. MatchesKept
  <2>. HIDE DEF void
  <2>. QED BY <1>1, <1>2, <1>3, UpdateMatch
<1>5. \A u \in CashRefunds(m) : u \in Users /\ bets[<<u, m>>].stake_in_match_pool \in Nat
  BY BettorsBet DEF CashRefunds, Refundable, Bettors, Bets
<1>6. pending_refunds' \in [Users -> Nat]
  BY <1>5 DEF VoidMatch, RefundsAfter, MatchesTypeOK
<1>7. \A k \in Users \X MatchIds :
          bets'[k] \in Bets \cup {NoBet} /\ (bets[k] # NoBet => bets'[k] # NoBet)
  <2>. SUFFICES ASSUME NEW k \in Users \X MatchIds
                PROVE  /\ bets'[k] \in Bets \cup {NoBet}
                       /\ bets[k] # NoBet => bets'[k] # NoBet
    OBVIOUS
  <2>1. bets'[k] = IF k[2] = m /\ k[1] \in Refundable(m)
                   THEN [bets[k] EXCEPT !.claimed = TRUE] ELSE bets[k]
    BY DEF VoidMatch
  <2>2. bets[k] \in Bets \cup {NoBet}
    BY DEF MatchesTypeOK
  <2>3. CASE k[2] = m /\ k[1] \in Refundable(m)
    <3>1. k = <<k[1], m>> /\ bets[k] \in Bets
      BY <2>2, <2>3 DEF Refundable, Bettors
    <3>2. bets'[k] \in Bets
      BY <2>1, <2>3, <3>1 DEF Bets
    <3>. QED
      BY <3>2, MarkerAssumption
  <2>. QED
    BY <2>1, <2>2, <2>3
<1>8. bets' = [k \in Users \X MatchIds |-> bets'[k]]
  BY DEF VoidMatch
<1>9. BetsKept
  BY <1>7, <1>8 DEF BetsKept
<1>. QED
  BY <1>4, <1>6, <1>9

(* A call to the ledger is recorded with its types. *)
LEMMA SendTyped ==
    ASSUME MatchesTypeOK, NEW u \in Users, NEW m \in MatchIds, NEW amount \in Nat,
           NEW todo \in SUBSET Users, NEW payout \in Nat, NEW slot \in ReturnSlots,
           SendToLedger(u, m, amount, todo, payout, slot)
    PROVE  /\ balance' \in Nat
           /\ paid' \in [Users \X MatchIds -> Int]
           /\ returns' \in [ReturnSlots -> Returns \cup {NoCall}]
<1>1. [match |-> m, user |-> u, amount |-> amount, todo |-> todo, payout |-> payout]
          \in Returns
  BY DEF Returns
<1>. QED
  BY <1>1 DEF SendToLedger, MatchesTypeOK

(* The handlers that propose, withdraw, finalize and cancel. *)
LEMMA ResultTyped ==
    ASSUME AdminTypeOK, MatchesTypeOK, QueriesRegistered, ResultStep
    PROVE  StepTyped
<1>. USE StepTypedKept DEF boardVars, potVars, callVars, MatchesKept, BetsKept
<1>1. ASSUME NEW m \in MatchIds, NEW oracle \in Oracles, NEW r \in Reports,
             ProposeResult(oracle, m, r)
      PROVE  StepTyped
  <2>1. MatchesKept
    BY <1>1, NewResultTyped, ProposalTyped DEF ProposeResult
  <2>. QED
    BY <1>1, <2>1 DEF ProposeResult, MatchesTypeOK
<1>2. ASSUME NEW m \in MatchIds, NEW oracle \in Oracles, NEW slot \in QuerySlots,
             ProposeFromOracle(m, oracle, slot)
      PROVE  StepTyped
  BY <1>2 DEF ProposeFromOracle, MatchesTypeOK, Queries
<1>3. ASSUME NEW slot \in QuerySlots, NEW r \in Reports, OracleReply(slot, r)
      PROVE  StepTyped
  <2>1. queries[slot].match \in Registered
    BY <1>3 DEF OracleReply, QueriesRegistered
  <2>2. MatchesKept
    BY <1>3, <2>1, NewResultTyped, ProposalTyped DEF OracleReply
  <2>. QED
    BY <1>3, <2>2 DEF OracleReply, MatchesTypeOK
<1>4. ASSUME NEW slot \in QuerySlots, OracleReplyFailed(slot)
      PROVE  StepTyped
  BY <1>4 DEF OracleReplyFailed, MatchesTypeOK
<1>5. ASSUME NEW m \in MatchIds, NEW caller \in Accounts, CancelProposedResult(caller, m)
      PROVE  StepTyped
  <2>1. Unresolved \in Results
    BY DEF Unresolved, Results, Statuses
  <2>2. MatchesKept
    BY <1>5, <2>1, NewResultTyped DEF CancelProposedResult
  <2>. QED
    BY <1>5, <2>2 DEF CancelProposedResult, MatchesTypeOK
<1>6. ASSUME NEW m \in MatchIds, NEW caller \in Accounts, CancelMatch(caller, m)
      PROVE  StepTyped
  BY <1>6, VoidTyped DEF CancelMatch, MatchesTypeOK
<1>7. ASSUME NEW m \in MatchIds, NEW caller \in Accounts, NEW u \in Users,
             NEW slot \in ReturnSlots, CancelMatchWithFreebets(caller, m, u, slot)
      PROVE  StepTyped
  <2>1. /\ pending_refunds' \in [Users -> Nat]
        /\ MatchesKept /\ BetsKept
    BY <1>7, VoidTyped DEF CancelMatchWithFreebets
  <2>2. bets[<<u, m>>].stake_in_match_pool \in Nat
    BY <1>7, BettorsBet DEF CancelMatchWithFreebets, FreebetsOf, Refundable, Bettors, Bets
  <2>3. FreebetsOf(m) \ {u} \in SUBSET Users
    BY DEF FreebetsOf, Refundable, Bettors
  <2>4. /\ balance' \in Nat
        /\ paid' \in [Users \X MatchIds -> Int]
        /\ returns' \in [ReturnSlots -> Returns \cup {NoCall}]
    BY <1>7, <2>2, <2>3, SendTyped DEF CancelMatchWithFreebets
  <2>. QED
    BY <1>7, <2>1, <2>4 DEF CancelMatchWithFreebets, MatchesTypeOK
<1>8. ASSUME NEW m \in MatchIds, FinalizeResult(m)
      PROVE  StepTyped
  BY <1>8, FinalizeTyped
<1>. QED
  BY <1>1, <1>2, <1>3, <1>4, <1>5, <1>6, <1>7, <1>8 DEF ResultStep

(* The claims. *)
LEMMA MarkClaimedTyped ==
    ASSUME MatchesTypeOK, NEW u \in Users, NEW m \in Registered, bets[<<u, m>>] # NoBet,
           ShareOf(u, m) \in Nat, MarkClaimed(u, m)
    PROVE  MatchesKept /\ BetsKept
<1>. DEFINE claim == [matches[m] EXCEPT !.total_claimed = @ + ShareOf(u, m)]
            closed == [bets[<<u, m>>] EXCEPT !.claimed = TRUE]
<1>1. m \in MatchIds /\ matches[m] \in Matches /\ bets[<<u, m>>] \in Bets
  BY MatchTyped, BettorsBet
<1>2. claim \in Matches /\ closed \in Bets
  <2>1. closed \in Bets
    BY <1>1 DEF Bets
  <2>2. claim \in Matches
    BY <1>1 DEF Matches
  <2>. QED
    BY <2>1, <2>2
<1>3. /\ matches' = [matches EXCEPT ![m] = claim]
      /\ bets' = [bets EXCEPT ![<<u, m>>] = closed]
  BY DEF MarkClaimed
<1>. HIDE DEF claim, closed
<1>4. MatchesKept
  BY <1>1, <1>2, <1>3, UpdateMatch
<1>5. BetsKept
  BY <1>1, <1>2, <1>3, UpdateBet
<1>. QED
  BY <1>4, <1>5

LEMMA ClaimableTyped ==
    ASSUME MatchesTypeOK, NEW u \in Users, NEW m \in MatchIds, Claimable(u, m)
    PROVE  /\ m \in Registered
           /\ bets[<<u, m>>] # NoBet
           /\ ShareOf(u, m) \in Nat
           /\ PrincipalOf(u, m) \in Nat
           /\ ShareOf(u, m) - PrincipalOf(u, m) \in Nat
<1>1. m \in Registered /\ u \in Bettors(m) /\ matches[m].total_winner_stake # 0
  BY DEF Claimable, Bettors
<1>. QED
  BY <1>1, ShareOfNat DEF Bettors

(* The refunds. *)
LEMMA SendRefundTyped ==
    ASSUME MatchesTypeOK, NEW u \in Users, SendRefund(u)
    PROVE  StepTyped
BY StepTypedKept DEF SendRefund, MatchesTypeOK, boardVars, potVars, callVars

(* The handlers that pay, and the resumptions of suspended payments. *)
LEMMA PayoutTyped ==
    ASSUME MatchesTypeOK, ReturnsHaveBets, PayoutStep
    PROVE  StepTyped
<1>. USE StepTypedKept DEF boardVars, potVars, callVars, MatchesKept, BetsKept
<1>1. ASSUME NEW u \in Users, NEW m \in MatchIds, ClaimMatchReward(u, m)
      PROVE  StepTyped
  <2>1. /\ m \in Registered /\ bets[<<u, m>>] # NoBet
        /\ ShareOf(u, m) \in Nat
    BY <1>1, ClaimableTyped DEF ClaimMatchReward
  <2>2. MatchesKept /\ BetsKept
    BY <1>1, <2>1, MarkClaimedTyped DEF ClaimMatchReward
  <2>3. balance' \in Nat /\ paid' \in [Users \X MatchIds -> Int]
    BY <1>1, <2>1 DEF ClaimMatchReward, MatchesTypeOK
  <2>. QED
    BY <1>1, <2>2, <2>3 DEF ClaimMatchReward, MatchesTypeOK
<1>2. ASSUME NEW u \in Users, NEW m \in MatchIds, NEW slot \in ReturnSlots,
             ClaimFreebetReward(u, m, slot)
      PROVE  StepTyped
  <2>1. /\ m \in Registered /\ bets[<<u, m>>] # NoBet
        /\ ShareOf(u, m) \in Nat
        /\ PrincipalOf(u, m) \in Nat
        /\ ShareOf(u, m) - PrincipalOf(u, m) \in Nat
    BY <1>2, ClaimableTyped DEF ClaimFreebetReward
  <2>2. MatchesKept /\ BetsKept
    BY <1>2, <2>1, MarkClaimedTyped DEF ClaimFreebetReward
  <2>3. /\ balance' \in Nat
        /\ paid' \in [Users \X MatchIds -> Int]
        /\ returns' \in [ReturnSlots -> Returns \cup {NoCall}]
    BY <1>2, <2>1, SendTyped DEF ClaimFreebetReward
  <2>. QED
    BY <1>2, <2>2, <2>3 DEF ClaimFreebetReward, MatchesTypeOK
<1>3. ASSUME NEW slot \in ReturnSlots, NEW u \in Users, ReturnNext(slot, u)
      PROVE  StepTyped
  <2>1. /\ returns[slot].match \in MatchIds
        /\ returns[slot].todo \ {u} \in SUBSET Users
        /\ returns[slot].payout \in Nat
    BY <1>3 DEF ReturnNext, MatchesTypeOK, Returns
  <2>2. bets[<<u, returns[slot].match>>].stake_in_match_pool \in Nat
    <3>1. bets[<<u, returns[slot].match>>] # NoBet
      BY <1>3 DEF ReturnNext, ReturnsHaveBets
    <3>. QED
      BY <2>1, <3>1, BettorsBet DEF Bets
  <2>3. /\ balance' \in Nat
        /\ paid' \in [Users \X MatchIds -> Int]
        /\ returns' \in [ReturnSlots -> Returns \cup {NoCall}]
    BY <1>3, <2>1, <2>2, SendTyped DEF ReturnNext
  <2>. QED
    BY <1>3, <2>3 DEF ReturnNext, MatchesTypeOK
<1>4. ASSUME NEW slot \in ReturnSlots, ReturnDone(slot)
      PROVE  StepTyped
  <2>1. returns[slot] \in Returns
    BY <1>4 DEF ReturnDone, MatchesTypeOK
  <2>. QED
    BY <1>4, <2>1 DEF ReturnDone, MatchesTypeOK, Returns
<1>5. ASSUME NEW slot \in ReturnSlots, ReturnRejected(slot)
      PROVE  StepTyped
  <2>1. returns[slot] \in Returns
    BY <1>5 DEF ReturnRejected, MatchesTypeOK
  <2>. QED
    BY <1>5, <2>1 DEF ReturnRejected, MatchesTypeOK, Returns
<1>6. ASSUME NEW slot \in ReturnSlots, ReturnAbandoned(slot)
      PROVE  StepTyped
  BY <1>6 DEF ReturnAbandoned, MatchesTypeOK
<1>7. ASSUME NEW u \in Users, SendRefund(u)
      PROVE  StepTyped
  BY <1>7, SendRefundTyped
<1>8. ASSUME NEW m \in MatchIds, SweepMatchDust(m)
      PROVE  StepTyped
  <2>. DEFINE swept == [matches[m] EXCEPT !.match_prize_pool = 0, !.dust_swept = TRUE]
  <2>1. matches[m] \in Matches
    BY <1>8, MatchTyped DEF SweepMatchDust
  <2>2. swept \in Matches
    BY <2>1 DEF Matches
  <2>3. matches' = [matches EXCEPT ![m] = swept]
    BY <1>8 DEF SweepMatchDust
  <2>4. MatchesKept
    <3>. HIDE DEF swept
    <3>. QED BY <1>8, <2>2, <2>3, UpdateMatch DEF SweepMatchDust
  <2>5. final_prize_accumulated' \in Nat
    BY <1>8, <2>1 DEF SweepMatchDust, SaturatingSub, MatchesTypeOK, Matches
  <2>. QED
    BY <1>8, <2>4, <2>5 DEF SweepMatchDust, MatchesTypeOK
<1>. QED
  BY <1>1, <1>2, <1>3, <1>4, <1>5, <1>6, <1>7, <1>8
     DEF PayoutStep, ClaimRefund, AdminPushRefund

(* Every betting and settlement handler keeps the types. *)
LEMMA MatchesStepTyped ==
    ASSUME MatchesInv, MatchesStep
    PROVE  StepTyped
BY RegisterTyped, BetTyped, ResultTyped, PayoutTyped DEF MatchesInv, MatchesStep

----------------------------------------------------------------------------
(* The other parts of MatchesInv. *)

(* A query is made about a registered match, which stays registered. *)
LEMMA QueriesStep ==
    ASSUME MatchesInv, MatchesStep
    PROVE  QueriesRegistered'
<1>. USE DEF callVars
<1>. SUFFICES ASSUME NEW s \in QuerySlots, queries'[s] # NoCall
              PROVE  queries'[s].match \in Registered'
  BY DEF QueriesRegistered
<1>0. Registered \subseteq Registered'
  BY MatchesStepTyped DEF StepTyped
<1>1. CASE queries'[s] = queries[s]
  BY <1>0, <1>1 DEF MatchesInv, QueriesRegistered
<1>2. ASSUME queries'[s] # queries[s]
      PROVE  \E m \in MatchIds, oracle \in Oracles, slot \in QuerySlots :
                ProposeFromOracle(m, oracle, slot)
  <2>1. ~RegisterStep
    BY <1>2 DEF RegisterStep, RegisterPhase, RegisterMatch
  <2>2. ~BetStep
    BY <1>2 DEF BetStep, PlaceBet, PlaceBetFromFreebetLedger
  <2>3. ~PayoutStep
    BY <1>2 DEF PayoutStep, ClaimMatchReward, ClaimFreebetReward, ReturnNext, ReturnDone,
                ReturnRejected, ReturnAbandoned, ClaimRefund, AdminPushRefund, SendRefund,
                SweepMatchDust
  <2>4. ResultStep
    BY <2>1, <2>2, <2>3 DEF MatchesStep
  <2>5. \A slot \in QuerySlots :
           queries' # [queries EXCEPT ![slot] = NoCall]
    BY <1>2 DEF MatchesInv, MatchesTypeOK
  <2>. QED
    BY <1>2, <2>4, <2>5
       DEF ResultStep, ProposeResult, OracleReply, OracleReplyFailed, CancelProposedResult,
           CancelMatch, CancelMatchWithFreebets, FinalizeResult
<1>3. CASE queries'[s] # queries[s]
  <2>1. PICK m \in MatchIds, oracle \in Oracles, slot \in QuerySlots :
                ProposeFromOracle(m, oracle, slot)
    BY <1>2, <1>3
  <2>2. queries'[s] = [match |-> m, oracle |-> oracle] /\ m \in Registered
    BY <1>3, <2>1 DEF ProposeFromOracle, MatchesInv, MatchesTypeOK
  <2>. QED
    BY <1>0, <2>2
<1>. QED
  BY <1>1, <1>3

(* The ledger calls of a cancellation are about bets, which stay bets. *)
LEMMA ReturnsStep ==
    ASSUME MatchesInv, MatchesStep
    PROVE  ReturnsHaveBets'
<1>. USE DEF callVars
<1>. SUFFICES ASSUME NEW s \in ReturnSlots, returns'[s] # NoCall
              PROVE  \A v \in returns'[s].todo : bets'[<<v, returns'[s].match>>] # NoBet
  BY DEF ReturnsHaveBets
<1>0. \A k \in Users \X MatchIds : bets[k] # NoBet => bets'[k] # NoBet
  BY MatchesStepTyped DEF StepTyped
<1>1. CASE returns'[s] = returns[s]
  BY <1>0, <1>1 DEF MatchesInv, MatchesTypeOK, Returns, ReturnsHaveBets
<1>2. CASE returns'[s] # returns[s]
  <2>1. ~RegisterStep
    BY <1>2 DEF RegisterStep, RegisterPhase, RegisterMatch
  <2>2. ~BetStep
    BY <1>2 DEF BetStep, PlaceBet, PlaceBetFromFreebetLedger
  <2>3. ASSUME NEW u \in Users, NEW m \in MatchIds, NEW amount, NEW todo \in SUBSET Bettors(m),
               NEW payout, NEW slot \in ReturnSlots,
               SendToLedger(u, m, amount, todo, payout, slot)
        PROVE  \A v \in returns'[s].todo : bets'[<<v, returns'[s].match>>] # NoBet
    <3>1. returns'[s] = [match |-> m, user |-> u, amount |-> amount,
                         todo |-> todo, payout |-> payout]
      BY <1>2, <2>3 DEF SendToLedger, MatchesInv, MatchesTypeOK
    <3>. QED
      BY <1>0, <2>3, <3>1 DEF Bettors
  <2>4. CASE ResultStep
    <3>1. PICK m \in MatchIds, caller \in Accounts, u \in Users, slot \in ReturnSlots :
              CancelMatchWithFreebets(caller, m, u, slot)
      BY <1>2, <2>4
         DEF ResultStep, ProposeResult, ProposeFromOracle, OracleReply, OracleReplyFailed,
             CancelProposedResult, CancelMatch, FinalizeResult
    <3>2. FreebetsOf(m) \ {u} \in SUBSET Bettors(m)
      BY DEF FreebetsOf, Refundable
    <3>. QED
      BY <2>3, <3>1, <3>2 DEF CancelMatchWithFreebets
  <2>5. CASE PayoutStep
    <3>1. \A slot \in ReturnSlots : returns' # [returns EXCEPT ![slot] = NoCall]
      BY <1>2 DEF MatchesInv, MatchesTypeOK
    <3>2. \/ \E u \in Users, m \in MatchIds, slot \in ReturnSlots :
                ClaimFreebetReward(u, m, slot)
          \/ \E slot \in ReturnSlots, u \in Users : ReturnNext(slot, u)
      BY <1>2, <2>5, <3>1
         DEF PayoutStep, ClaimMatchReward, ReturnDone, ReturnRejected, ReturnAbandoned,
             ClaimRefund, AdminPushRefund, SendRefund, SweepMatchDust
    <3>3. ASSUME NEW u \in Users, NEW m \in MatchIds, NEW slot \in ReturnSlots,
                 ClaimFreebetReward(u, m, slot)
          PROVE  \A v \in returns'[s].todo : bets'[<<v, returns'[s].match>>] # NoBet
      BY <2>3, <3>3 DEF ClaimFreebetReward
    <3>4. ASSUME NEW slot \in ReturnSlots, NEW u \in Users, ReturnNext(slot, u)
          PROVE  \A v \in returns'[s].todo : bets'[<<v, returns'[s].match>>] # NoBet
      <4>1. /\ returns[slot].match \in MatchIds
            /\ returns[slot].todo \ {u} \in SUBSET Bettors(returns[slot].match)
        BY <3>4 DEF ReturnNext, MatchesInv, MatchesTypeOK, Returns, ReturnsHaveBets, Bettors
      <4>. QED
        BY <2>3, <3>4, <4>1 DEF ReturnNext
    <3>. QED
      BY <3>2, <3>3, <3>4
  <2>. QED
    BY <2>1, <2>2, <2>4, <2>5 DEF MatchesStep
<1>. QED
  BY <1>1, <1>2

(* A new match takes the id after the last. *)
LEMMA IdsStep ==
    ASSUME MatchesInv, MatchesStep
    PROVE  IdsAreAssigned'
<1>. SUFFICES ASSUME NEW n \in Registered'
              PROVE  n <= next_match_id'
  BY DEF IdsAreAssigned
<1>1. next_match_id \in Nat /\ n \in MatchIds /\ MatchIds \subseteq Nat
  BY MatchesAssumption DEF MatchesInv, MatchesTypeOK, Registered
<1>2. next_match_id' \in {next_match_id, next_match_id + 1}
  BY DEF boardVars, MatchesStep,
         RegisterStep, RegisterPhase, RegisterMatch,
         BetStep, PlaceBet, PlaceBetFromFreebetLedger,
         ResultStep, ProposeResult, ProposeFromOracle, OracleReply, OracleReplyFailed,
         CancelProposedResult, CancelMatch, CancelMatchWithFreebets, FinalizeResult,
         PayoutStep, ClaimMatchReward, ClaimFreebetReward, ReturnNext, ReturnDone,
         ReturnRejected, ReturnAbandoned, ClaimRefund, AdminPushRefund, SendRefund,
         SweepMatchDust
<1>3. CASE n \in Registered
  BY <1>1, <1>2, <1>3 DEF MatchesInv, IdsAreAssigned
<1>4. CASE n \notin Registered
  BY <1>1, <1>4, MatchesStepTyped DEF StepTyped
<1>. QED
  BY <1>3, <1>4

(* MatchesInv is inductive. *)
LEMMA MatchesInvStep ==
    ASSUME MatchesInv, MatchesStep, AdminTypeOK'
    PROVE  MatchesInv'
BY MatchesStepTyped, QueriesStep, ReturnsStep, IdsStep DEF MatchesInv, StepTyped

(* Whatever leaves the betting state alone preserves its invariants.       *)
LEMMA MatchesInvFrame ==
    ASSUME MatchesInv, AdminTypeOK', UNCHANGED matchesVars
    PROVE  MatchesInv'
BY DEF MatchesInv, MatchesTypeOK, QueriesRegistered, ReturnsHaveBets, IdsAreAssigned,
       Registered, matchesVars, boardVars, potVars, callVars

(* MatchesInv holds of a program just deployed. *)
LEMMA MatchesInitInv == AdminInit /\ MatchesInit => MatchesInv
<1>. SUFFICES ASSUME AdminInit, MatchesInit
              PROVE  MatchesInv
  OBVIOUS
<1>1. AdminTypeOK
  BY AdminInitInv DEF AdminInv
<1>2. MatchesTypeOK
  BY DEF MatchesInit, MatchesTypeOK, NoTime, MAX_POINTS_WEIGHT
<1>3. QueriesRegistered /\ ReturnsHaveBets /\ IdsAreAssigned
  BY DEF MatchesInit, QueriesRegistered, ReturnsHaveBets, IdsAreAssigned, Registered
<1>. QED
  BY <1>1, <1>2, <1>3 DEF MatchesInv

(* No betting or settlement handler touches the configuration or the clock.*)
LEMMA MatchesStepFrame == MatchesStep => UNCHANGED adminVars
BY DEF MatchesStep,
       RegisterStep, RegisterPhase, RegisterMatch,
       BetStep, PlaceBet, PlaceBetFromFreebetLedger,
       ResultStep, ProposeResult, ProposeFromOracle, OracleReply, OracleReplyFailed,
       CancelProposedResult, CancelMatch, CancelMatchWithFreebets, FinalizeResult,
       PayoutStep, ClaimMatchReward, ClaimFreebetReward, ReturnNext, ReturnDone,
       ReturnRejected, ReturnAbandoned, ClaimRefund, AdminPushRefund, SendRefund,
       SweepMatchDust

(* Nothing but the configuration variables bears on its types. *)
LEMMA AdminFrame == AdminTypeOK /\ UNCHANGED adminVars => AdminTypeOK'
BY DEF AdminTypeOK, adminVars, roleVars, trustVars, priceVars, lockVars

(* The invariant holds in every reachable state. *)
THEOREM MatchesInvariant == MatchesSpec => []MatchesInv
<1>1. MatchesInv /\ [MatchesNext]_allMatchesVars => MatchesInv'
  <2>. SUFFICES ASSUME MatchesInv, [MatchesNext]_allMatchesVars
                PROVE  MatchesInv'
    OBVIOUS
  <2>1. CASE MatchesStep
    BY <2>1, MatchesStepFrame, AdminFrame, MatchesInvStep DEF MatchesInv
  <2>2. CASE AdminNext /\ UNCHANGED matchesVars
    BY <2>2, AdminNextTyped, MatchesInvFrame DEF MatchesInv
  <2>3. CASE UNCHANGED allMatchesVars
    BY <2>3, AdminFrame, MatchesInvFrame DEF MatchesInv, allMatchesVars
  <2>. QED
    BY <2>1, <2>2, <2>3 DEF MatchesNext
<1>. QED
  BY <1>1, MatchesInitInv, PTL DEF MatchesSpec

(* Matches, bets, pots and suspended calls are well typed in every         *)
(* reachable state.                                                        *)
THEOREM MatchesTypes == MatchesSpec => []MatchesTypeOK
BY MatchesInvariant, PTL DEF MatchesInv

----------------------------------------------------------------------------
(***************************************************************************)
(* PART 3: the life of a result.                                           *)
(*                                                                         *)
(* MatchMoves lists what a step may do to a registered match.  From it     *)
(* follow the moves of its result, and what a finalized match keeps.  The  *)
(* pool of a finalized match is safe only because bets end before the      *)
(* kick-off and reports come after it: KickedOff says so, and              *)
(* PoolsAreFinal therefore assumes that no oracle is early.                *)
(***************************************************************************)

(* What a step of the betting handlers may do to the registered match m.   *)
MatchMoves(m) ==
    \/ matches'[m] = matches[m]
    \/ /\ BettingOpen(m)
       /\ \E stake \in Nat :
             matches'[m] = [matches[m] EXCEPT !.match_prize_pool = @ + stake]
    \/ /\ Status(m) = "Unresolved"
       /\ ReportsOn(m) # {}
       /\ \E r \in Reports : matches'[m] = [matches[m] EXCEPT !.result = Proposed(r, now)]
    \/ /\ Status(m) = "Proposed" /\ ~ChallengeOver(m)
       /\ matches'[m] = [matches[m] EXCEPT !.result = Unresolved]
    \/ FinalizeResult(m)
    \/ \E caller \in Accounts : VoidMatch(caller, m)
    \/ \E claimed \in Nat :
          matches'[m] = [matches[m] EXCEPT !.total_claimed = claimed]
    \/ matches'[m] = [matches[m] EXCEPT !.match_prize_pool = 0, !.dust_swept = TRUE]

(* Registration adds a match and leaves the others. *)
LEMMA RegisterMoves ==
    ASSUME MatchesInv, RegisterStep, NEW m \in Registered
    PROVE  MatchMoves(m)
<1>1. /\ m # next_match_id + 1
      /\ matches \in [MatchIds -> Matches \cup {NoMatch}]
      /\ m \in MatchIds
  <2>1. m \in Nat /\ next_match_id \in Nat /\ m <= next_match_id
    BY MatchesAssumption DEF MatchesInv, MatchesTypeOK, IdsAreAssigned, Registered
  <2>. QED
    BY <2>1 DEF MatchesInv, MatchesTypeOK, Registered
<1>2. matches'[m] = matches[m]
  BY <1>1 DEF RegisterStep, RegisterPhase, RegisterMatch
<1>. QED
  BY <1>2 DEF MatchMoves

(* A bet adds to the pool of a match still open for betting. *)
LEMMA BetMoves ==
    ASSUME MatchesInv, BetStep, NEW m \in Registered
    PROVE  MatchMoves(m)
<1>1. m \in MatchIds /\ matches \in [MatchIds -> Matches \cup {NoMatch}]
  BY DEF MatchesInv, MatchesTypeOK, Registered
<1>2. ASSUME NEW n \in MatchIds, NEW u, NEW p, NEW stake \in Nat, NEW principal,
             RecordBet(u, n, p, stake, principal), BettingOpen(n)
      PROVE  MatchMoves(m)
  <2>1. CASE m = n
    <3>1. matches'[m] = [matches[m] EXCEPT !.match_prize_pool = @ + stake]
      BY <1>1, <1>2, <2>1 DEF RecordBet
    <3>. QED
      BY <1>2, <2>1, <3>1 DEF MatchMoves
  <2>2. CASE m # n
    BY <1>1, <1>2, <2>2 DEF RecordBet, MatchMoves
  <2>. QED
    BY <2>1, <2>2
<1>3. ASSUME NEW u \in Users, NEW n \in MatchIds, NEW p \in Guesses, NEW value \in BetValues,
             PlaceBet(u, n, p, value)
      PROVE  MatchMoves(m)
  <2>1. MatchPoolCut(value) \in Nat
    BY CutsNat, MatchesAssumption
  <2>. QED
    BY <1>2, <1>3, <2>1 DEF PlaceBet, AcceptsBet
<1>4. ASSUME NEW u \in Users, NEW n \in MatchIds, NEW p \in Guesses,
             NEW value \in FreebetValues, PlaceBetFromFreebetLedger(u, n, p, value)
      PROVE  MatchMoves(m)
  <2>1. value \in Nat
    BY MatchesAssumption
  <2>. QED
    BY <1>2, <1>4, <2>1 DEF PlaceBetFromFreebetLedger, AcceptsBet
<1>. QED
  BY <1>3, <1>4 DEF BetStep

(* The moves of results. *)
LEMMA ResultMoves ==
    ASSUME MatchesInv, ResultStep, NEW m \in Registered
    PROVE  MatchMoves(m)
<1>1. m \in MatchIds /\ matches \in [MatchIds -> Matches \cup {NoMatch}]
  BY DEF MatchesInv, MatchesTypeOK, Registered
<1>2. ASSUME NEW n, NEW r \in Reports, Status(n) = "Unresolved", ReportsOn(n) # {},
             matches' = [matches EXCEPT ![n].result = Proposed(r, now)]
      PROVE  MatchMoves(m)
  <2>1. CASE m = n
    <3>1. matches'[m] = [matches[m] EXCEPT !.result = Proposed(r, now)]
      BY <1>1, <1>2, <2>1
    <3>. QED
      BY <1>2, <2>1, <3>1 DEF MatchMoves
  <2>2. CASE m # n
    BY <1>1, <1>2, <2>2 DEF MatchMoves
  <2>. QED
    BY <2>1, <2>2
<1>3. ASSUME NEW n \in MatchIds, NEW oracle, NEW r \in Reports, ProposeResult(oracle, n, r)
      PROVE  MatchMoves(m)
  BY <1>2, <1>3 DEF ProposeResult
<1>4. ASSUME NEW slot, NEW r \in Reports, OracleReply(slot, r)
      PROVE  MatchMoves(m)
  BY <1>2, <1>4 DEF OracleReply
<1>5. ASSUME NEW n \in MatchIds, NEW caller, CancelProposedResult(caller, n)
      PROVE  MatchMoves(m)
  <2>1. CASE m = n
    BY <1>1, <1>5, <2>1 DEF CancelProposedResult, MatchMoves
  <2>2. CASE m # n
    BY <1>1, <1>5, <2>2 DEF CancelProposedResult, MatchMoves
  <2>. QED
    BY <2>1, <2>2
<1>6. ASSUME NEW n \in MatchIds, NEW caller \in Accounts, VoidMatch(caller, n)
      PROVE  MatchMoves(m)
  <2>1. CASE m = n
    BY <1>6, <2>1 DEF MatchMoves
  <2>2. CASE m # n
    BY <1>1, <1>6, <2>2 DEF VoidMatch, MatchMoves
  <2>. QED
    BY <2>1, <2>2
<1>7. ASSUME NEW n \in MatchIds, FinalizeResult(n)
      PROVE  MatchMoves(m)
  <2>1. CASE m = n
    BY <1>7, <2>1 DEF MatchMoves
  <2>2. CASE m # n
    BY <1>1, <1>7, <2>2 DEF FinalizeResult, MatchMoves
  <2>. QED
    BY <2>1, <2>2
<1>8. UNCHANGED matches => MatchMoves(m)
  BY DEF MatchMoves
<1>. QED
  BY <1>3, <1>4, <1>5, <1>6, <1>7, <1>8
     DEF ResultStep, ProposeFromOracle, OracleReplyFailed, CancelMatch,
         CancelMatchWithFreebets

(* Claims and the sweep. *)
LEMMA PayoutMoves ==
    ASSUME MatchesInv, PayoutStep, NEW m \in Registered
    PROVE  MatchMoves(m)
<1>1. m \in MatchIds /\ matches \in [MatchIds -> Matches \cup {NoMatch}]
  BY DEF MatchesInv, MatchesTypeOK, Registered
<1>2. ASSUME NEW u \in Users, NEW n \in MatchIds, Claimable(u, n), MarkClaimed(u, n)
      PROVE  MatchMoves(m)
  <2>1. CASE m = n
    <3>1. matches[m].total_claimed + ShareOf(u, m) \in Nat
      <4>1. ShareOf(u, m) \in Nat
        BY <1>2, <2>1, ClaimableTyped DEF MatchesInv
      <4>2. matches[m].total_claimed \in Nat
        BY MatchTyped DEF MatchesInv, Matches
      <4>. QED
        BY <4>1, <4>2
    <3>2. matches'[m] = [matches[m] EXCEPT !.total_claimed = @ + ShareOf(u, m)]
      BY <1>1, <1>2, <2>1 DEF MarkClaimed
    <3>. QED
      BY <3>1, <3>2 DEF MatchMoves
  <2>2. CASE m # n
    BY <1>1, <1>2, <2>2 DEF MarkClaimed, MatchMoves
  <2>. QED
    BY <2>1, <2>2
<1>3. ASSUME NEW n \in MatchIds, SweepMatchDust(n)
      PROVE  MatchMoves(m)
  <2>1. CASE m = n
    BY <1>1, <1>3, <2>1 DEF SweepMatchDust, MatchMoves
  <2>2. CASE m # n
    BY <1>1, <1>3, <2>2 DEF SweepMatchDust, MatchMoves
  <2>. QED
    BY <2>1, <2>2
<1>4. UNCHANGED matches => MatchMoves(m)
  BY DEF MatchMoves
<1>. QED
  BY <1>2, <1>3, <1>4
     DEF PayoutStep, ClaimMatchReward, ClaimFreebetReward, ReturnNext, ReturnDone,
         ReturnRejected, ReturnAbandoned, ClaimRefund, AdminPushRefund, SendRefund

(* Every step, of whichever handler. *)
LEMMA StepMoves ==
    ASSUME MatchesInv, [MatchesNext]_allMatchesVars, NEW m \in Registered
    PROVE  MatchMoves(m)
<1>1. CASE MatchesStep
  BY <1>1, RegisterMoves, BetMoves, ResultMoves, PayoutMoves DEF MatchesStep
<1>2. CASE UNCHANGED matchesVars
  BY <1>2 DEF matchesVars, MatchMoves
<1>. QED
  BY <1>1, <1>2 DEF MatchesNext, allMatchesVars

----------------------------------------------------------------------------
(* What finalize_result and cancel_match leave of a match. *)
LEMMA FinalizeMoves ==
    ASSUME MatchesInv, NEW m \in Registered, FinalizeResult(m)
    PROVE  /\ Status(m) = "Proposed"
           /\ matches'[m].result.status = "Finalized"
           /\ matches'[m].kick_off = matches[m].kick_off
BY MatchTyped DEF MatchesInv, MatchesTypeOK, FinalizeResult, Finalized, Matches

LEMMA VoidMoves ==
    ASSUME MatchesInv, NEW m \in Registered, NEW caller, VoidMatch(caller, m)
    PROVE  /\ Status(m) \in {"Unresolved", "Proposed"}
           /\ matches'[m].result.status = "Cancelled"
           /\ matches'[m].kick_off = matches[m].kick_off
BY MatchTyped DEF MatchesInv, MatchesTypeOK, VoidMatch, Cancelled, Matches

(* The moves of a result: proposed, withdrawn, finalized, cancelled.       *)
LEMMA ResultLife ==
    ASSUME MatchesInv, NEW m \in Registered, MatchMoves(m)
    PROVE  \/ matches'[m].result = matches[m].result
           \/ Status(m) = "Unresolved" /\ matches'[m].result.status = "Proposed"
           \/ Status(m) = "Proposed" /\ matches'[m].result.status \in {"Unresolved", "Finalized"}
           \/ /\ Status(m) \in {"Unresolved", "Proposed"}
              /\ matches'[m].result.status = "Cancelled"
<1>1. matches[m] \in Matches
  BY MatchTyped DEF MatchesInv
<1>2. ASSUME NEW stake \in Nat,
             matches'[m] = [matches[m] EXCEPT !.match_prize_pool = @ + stake]
      PROVE  matches'[m].result = matches[m].result
  BY <1>1, <1>2 DEF Matches
<1>3. ASSUME NEW claimed \in Nat, matches'[m] = [matches[m] EXCEPT !.total_claimed = claimed]
      PROVE  matches'[m].result = matches[m].result
  BY <1>1, <1>3 DEF Matches
<1>4. ASSUME matches'[m] = [matches[m] EXCEPT !.match_prize_pool = 0, !.dust_swept = TRUE]
      PROVE  matches'[m].result = matches[m].result
  BY <1>1, <1>4 DEF Matches
<1>5. ASSUME NEW r, matches'[m] = [matches[m] EXCEPT !.result = Proposed(r, now)]
      PROVE  matches'[m].result.status = "Proposed"
  BY <1>1, <1>5 DEF Matches, Proposed
<1>6. ASSUME matches'[m] = [matches[m] EXCEPT !.result = Unresolved]
      PROVE  matches'[m].result.status = "Unresolved"
  BY <1>1, <1>6 DEF Matches, Unresolved
<1>. QED
  BY <1>2, <1>3, <1>4, <1>5, <1>6, FinalizeMoves, VoidMoves DEF MatchMoves

(* A standing proposal is never replaced by another one.                   *)
THEOREM ProposalsAreStable == MatchesSpec => ProposalsStand
<1>1. MatchesInv /\ [MatchesNext]_allMatchesVars
        => [\A m \in Registered :
               Status(m) = "Proposed" /\ Status(m)' = "Proposed"
                 => matches'[m].result = matches[m].result]_allMatchesVars
  <2>. SUFFICES ASSUME MatchesInv, [MatchesNext]_allMatchesVars, NEW m \in Registered,
                       Status(m) = "Proposed", Status(m)' = "Proposed"
                PROVE  matches'[m].result = matches[m].result
    OBVIOUS
  <2>1. Status(m)' = matches'[m].result.status
    BY DEF Status
  <2>. QED
    BY <2>1, StepMoves, ResultLife
<1>. QED
  BY <1>1, MatchesInvariant, PTL DEF MatchesSpec, ProposalsStand

----------------------------------------------------------------------------
(* Under the lock the handlers that need WritesAllowed or                  *)
(* NotLockedForExport do not run; what is left is listed here.             *)
LEMMA LockedSteps ==
    ASSUME MatchesStep, migration_locked
    PROVE  \/ \E slot \in QuerySlots, r \in Reports : OracleReply(slot, r)
           \/ \E slot \in QuerySlots : OracleReplyFailed(slot)
           \/ \E slot \in ReturnSlots, u \in Users : ReturnNext(slot, u)
           \/ \E slot \in ReturnSlots :
                 ReturnDone(slot) \/ ReturnRejected(slot) \/ ReturnAbandoned(slot)
           \/ \E u \in Users : SendRefund(u)
<1>. USE DEF WritesAllowed, NotLockedForExport
<1>1. ~RegisterStep
  BY DEF RegisterStep, RegisterPhase, RegisterMatch
<1>2. ~BetStep
  BY DEF BetStep, PlaceBet, PlaceBetFromFreebetLedger, AcceptsBet
<1>3. CASE ResultStep
  BY <1>3 DEF ResultStep, ProposeResult, ProposeFromOracle, CancelProposedResult,
              CancelMatch, CancelMatchWithFreebets, VoidMatch, FinalizeResult
<1>4. CASE PayoutStep
  BY <1>4 DEF PayoutStep, ClaimMatchReward, ClaimFreebetReward, Claimable, ClaimRefund,
              AdminPushRefund, SweepMatchDust
<1>. QED
  BY <1>1, <1>2, <1>3, <1>4 DEF MatchesStep

(* The answer to a query frees its slot and touches its match alone. *)
LEMMA ReplyInFlight ==
    ASSUME MatchesInv, NEW slot \in QuerySlots, NEW r \in Reports, OracleReply(slot, r)
    PROVE  OnlyInFlightMoves
<1>1. /\ queries[slot] # NoCall /\ queries[slot].match \in Registered
      /\ queries' = [queries EXCEPT ![slot] = NoCall]
      /\ queries \in [QuerySlots -> Queries \cup {NoCall}]
      /\ matches \in [MatchIds -> Matches \cup {NoMatch}]
  BY DEF OracleReply, MatchesInv, MatchesTypeOK, QueriesRegistered
<1>2. PICK m \in Registered : m = queries[slot].match
  BY <1>1
<1>3. /\ m \in MatchIds /\ matches[m] \in Matches /\ Status(m) = "Unresolved"
      /\ matches' = [matches EXCEPT ![m].result = Proposed(r, now)]
      /\ UNCHANGED <<boardVars, bets, user_points, potVars, returns, pending_refunds>>
  BY <1>2, MatchTyped DEF OracleReply, MatchesInv
<1>4. Status(m)' = "Proposed"
  BY <1>1, <1>3 DEF Status, Proposed, Matches
<1>5. \A n \in MatchIds : n # m => matches'[n] = matches[n]
  BY <1>1, <1>3
<1>6. /\ queries'[slot] = NoCall
      /\ \A s \in QuerySlots : queries[s] = NoCall => queries'[s] = NoCall
  BY <1>1
<1>7. \A n \in MatchIds : matches'[n] # matches[n] =>
         /\ n \in Registered /\ Status(n) = "Unresolved" /\ Status(n)' = "Proposed"
         /\ \E s \in QuerySlots :
               queries[s] # NoCall /\ queries[s].match = n /\ queries'[s] = NoCall
  BY <1>1, <1>2, <1>3, <1>4, <1>5, <1>6
<1>. QED
  BY <1>3, <1>6, <1>7 DEF OnlyInFlightMoves

(* A refund that is sent leaves nothing owed to its wallet. *)
LEMMA RefundInFlight ==
    ASSUME MatchesInv, NEW u \in Users, SendRefund(u)
    PROVE  OnlyInFlightMoves
<1>1. /\ pending_refunds' = [pending_refunds EXCEPT ![u] = 0]
      /\ refunded' = [refunded EXCEPT ![u] = @ + pending_refunds[u]]
      /\ pending_refunds \in [Users -> Nat] /\ refunded \in [Users -> Nat]
      /\ UNCHANGED <<boardVars, matches, bets, user_points, potVars, queries, returns>>
  BY DEF SendRefund, MatchesInv, MatchesTypeOK, callVars
<1>2. \A v \in Users : pending_refunds'[v] # pending_refunds[v] =>
         /\ pending_refunds'[v] = 0
         /\ refunded'[v] = refunded[v] + pending_refunds[v]
  BY <1>1
<1>. QED
  BY <1>1, <1>2 DEF OnlyInFlightMoves

(* A suspended call that goes on, or ends, starts no other. *)
LEMMA ReturnInFlight ==
    ASSUME MatchesInv, NEW slot \in ReturnSlots, returns[slot] # NoCall,
           NEW call, returns' = [returns EXCEPT ![slot] = call],
           UNCHANGED <<boardVars, matches, bets, user_points, pending_refunds, potVars,
                       queries>>
    PROVE  OnlyInFlightMoves
<1>1. returns \in [ReturnSlots -> Returns \cup {NoCall}]
  BY DEF MatchesInv, MatchesTypeOK
<1>2. \A s \in ReturnSlots : returns[s] = NoCall => returns'[s] = NoCall
  BY <1>1
<1>. QED
  BY <1>2 DEF OnlyInFlightMoves

(* After the lock only what was in flight moves the books: every handler   *)
(* that starts something asks for the lock, and no resumption starts       *)
(* anything.                                                               *)
THEOREM LockFreezesTheBooks == MatchesSpec => LockFreezesBooks
<1>1. MatchesInv /\ [MatchesNext]_allMatchesVars
        => [migration_sealed /\ migration_locked => OnlyInFlightMoves]_allMatchesVars
  <2>. SUFFICES ASSUME MatchesInv, MatchesNext, migration_locked
                PROVE  OnlyInFlightMoves
    OBVIOUS
  <2>1. CASE UNCHANGED matchesVars
    BY <2>1 DEF matchesVars, callVars, OnlyInFlightMoves
  <2>2. ASSUME NEW slot \in QuerySlots, OracleReplyFailed(slot)
        PROVE  OnlyInFlightMoves
    <3>1. \A s \in QuerySlots : queries[s] = NoCall => queries'[s] = NoCall
      BY <2>2 DEF OracleReplyFailed, MatchesInv, MatchesTypeOK
    <3>. QED
      BY <2>2, <3>1 DEF OracleReplyFailed, OnlyInFlightMoves
  <2>3. ASSUME NEW slot \in ReturnSlots, NEW u \in Users, ReturnNext(slot, u)
        PROVE  OnlyInFlightMoves
    BY <2>3, ReturnInFlight DEF ReturnNext, SendToLedger
  <2>4. ASSUME NEW slot \in ReturnSlots,
               ReturnDone(slot) \/ ReturnRejected(slot) \/ ReturnAbandoned(slot)
        PROVE  OnlyInFlightMoves
    BY <2>4, ReturnInFlight DEF ReturnDone, ReturnRejected, ReturnAbandoned
  <2>. QED
    BY <2>1, <2>2, <2>3, <2>4, LockedSteps, ReplyInFlight, RefundInFlight DEF MatchesNext
<1>. QED
  BY <1>1, MatchesInvariant, PTL DEF MatchesSpec, LockFreezesBooks

----------------------------------------------------------------------------
(* No result is proposed before the kick-off. *)
KickedOff ==
    \A m \in Registered :
        Status(m) \in {"Proposed", "Finalized"} => now >= matches[m].kick_off

(* Nothing moves a kick-off. *)
LEMMA KickOffKept ==
    ASSUME MatchesInv, NEW m \in Registered, MatchMoves(m)
    PROVE  matches'[m].kick_off = matches[m].kick_off
BY MatchTyped, FinalizeMoves, VoidMoves DEF MatchesInv, MatchMoves, Matches

(* Block times do not decrease. *)
LEMMA TimePasses ==
    ASSUME MatchesInv, [MatchesNext]_allMatchesVars
    PROVE  now \in Nat /\ now' \in Nat /\ now' >= now
<1>1. now \in Times /\ Times \subseteq Nat
  BY AdminAssumption DEF MatchesInv, AdminTypeOK
<1>2. now' = now \/ now' \in {t \in Times : t > now}
  <2>1. CASE MatchesStep
    BY <2>1, MatchesStepFrame DEF adminVars
  <2>2. CASE Tick
    BY <2>2 DEF Tick
  <2>3. CASE ConfigStep
    BY <2>3 DEF ConfigStep, RoleStep, TrustStep, PriceStep, LockStep, AddAdmin, RemoveAdmin,
                AddOperator, RemoveOperator, SetTreasury, SetOracleAuthorized,
                SetPriceOracle, SetFreebetLedger, SetPriceStalenessLimit,
                RefreshVaraPrice, PriceReply, PriceReplyFailed, LockForMigration,
                SealMigration
  <2>4. CASE UNCHANGED allMatchesVars
    BY <2>4 DEF allMatchesVars, adminVars
  <2>. QED
    BY <2>1, <2>2, <2>3, <2>4 DEF MatchesNext, AdminNext
<1>3. CASE now' = now
  BY <1>1, <1>3
<1>4. CASE now' \in {t \in Times : t > now}
  <2>1. now' \in Times /\ now' > now
    BY <1>4
  <2>. QED
    BY <1>1, <2>1
<1>. QED
  BY <1>2, <1>3, <1>4

(* A match that registration adds has no result. *)
LEMMA NewMatchUnresolved ==
    ASSUME MatchesInv, [MatchesNext]_allMatchesVars, NEW m \in Registered',
           m \notin Registered
    PROVE  matches'[m].result = Unresolved
<1>1. m \in MatchIds /\ matches' # matches
  BY DEF Registered
<1>2. MatchesStep
  BY <1>1 DEF MatchesNext, allMatchesVars, matchesVars
<1>3. CASE RegisterStep
  <2>1. PICK phase, kickOff :
            matches' = [matches EXCEPT ![next_match_id + 1] = NewMatch(phase, kickOff)]
    BY <1>1, <1>3 DEF RegisterStep, RegisterPhase, RegisterMatch
  <2>2. matches'[m] = NewMatch(phase, kickOff)
    BY <1>1, <2>1 DEF Registered, MatchesInv, MatchesTypeOK
  <2>. QED
    BY <2>2 DEF NewMatch
<1>4. CASE BetStep \/ ResultStep \/ PayoutStep
  <2>1. \A n \in Registered' \ Registered :
            n = next_match_id + 1 /\ next_match_id' = next_match_id + 1
    BY <1>2, MatchesStepTyped DEF StepTyped
  <2>2. next_match_id' = next_match_id
    BY <1>4 DEF boardVars, BetStep, PlaceBet, PlaceBetFromFreebetLedger,
         ResultStep, ProposeResult, ProposeFromOracle, OracleReply, OracleReplyFailed,
         CancelProposedResult, CancelMatch, CancelMatchWithFreebets, FinalizeResult,
         PayoutStep, ClaimMatchReward, ClaimFreebetReward, ReturnNext, ReturnDone,
         ReturnRejected, ReturnAbandoned, ClaimRefund, AdminPushRefund, SendRefund,
         SweepMatchDust
  <2>3. next_match_id \in Nat
    BY DEF MatchesInv, MatchesTypeOK
  <2>. QED
    BY <2>1, <2>2, <2>3
<1>. QED
  BY <1>2, <1>3, <1>4 DEF MatchesStep

(* If no oracle is early, KickedOff is inductive. *)
LEMMA KickedOffStep ==
    ASSUME ~EarlyReports, MatchesInv, KickedOff, [MatchesNext]_allMatchesVars
    PROVE  KickedOff'
<1>. SUFFICES ASSUME NEW m \in Registered',
                     matches'[m].result.status \in {"Proposed", "Finalized"}
              PROVE  now' >= matches'[m].kick_off
  BY DEF KickedOff, Status
<1>1. m \in Registered
  BY NewMatchUnresolved DEF Unresolved
<1>2. MatchMoves(m)
  BY <1>1, StepMoves
<1>3. matches'[m].kick_off = matches[m].kick_off /\ matches[m].kick_off \in Nat
  BY <1>1, <1>2, KickOffKept, MatchTyped DEF MatchesInv, Matches
<1>4. now >= matches[m].kick_off
  <2>1. CASE Status(m) \in {"Proposed", "Finalized"}
    BY <1>1, <2>1 DEF KickedOff
  <2>2. CASE Status(m) \notin {"Proposed", "Finalized"}
    <3>1. matches'[m].result # matches[m].result
      BY <2>2 DEF Status
    <3>2. ReportsOn(m) # {}
      BY <1>1, <1>2, <2>2, <3>1, MatchTyped, FinalizeMoves, VoidMoves
         DEF MatchesInv, MatchMoves, Matches
    <3>. QED
      BY <3>2 DEF ReportsOn
  <2>. QED
    BY <2>1, <2>2
<1>. QED
  BY <1>3, <1>4, TimePasses

(* The winner stake of a finalized match stays, and its pool stays or is   *)
(* swept.                                                                  *)
LEMMA FinalizedKeeps ==
    ASSUME MatchesInv, KickedOff, NEW m \in Registered, MatchMoves(m), now \in Nat,
           Status(m) = "Finalized"
    PROVE  /\ matches'[m].total_winner_stake = matches[m].total_winner_stake
           /\ matches'[m].match_prize_pool \in {0, matches[m].match_prize_pool}
<1>1. matches[m] \in Matches
  BY MatchTyped DEF MatchesInv
<1>2. ~BettingOpen(m)
  BY <1>1, MatchesAssumption DEF KickedOff, BettingOpen, SaturatingSub, Matches
<1>3. ~FinalizeResult(m) /\ \A caller : ~VoidMatch(caller, m)
  BY FinalizeMoves, VoidMoves
<1>. QED
  BY <1>1, <1>2, <1>3 DEF MatchMoves, Matches

(* Finalized and cancelled results are final, and the shares of a finalized*)
(* match are always computed from the same winner stake and pool, provided *)
(* no oracle reports a result before the kick-off.                         *)
THEOREM PoolsAreFinal ==
    ASSUME ~EarlyReports
    PROVE  MatchesSpec => ResultsAreFinal
<1>. DEFINE Kept ==
        \A m \in Registered :
          /\ Status(m) \in {"Finalized", "Cancelled"} =>
                matches'[m].result = matches[m].result
          /\ Status(m) = "Finalized" =>
                /\ matches'[m].total_winner_stake = matches[m].total_winner_stake
                /\ matches'[m].match_prize_pool \in {0, matches[m].match_prize_pool}
<1>1. MatchesInit => KickedOff
  BY DEF MatchesInit, KickedOff, Registered
<1>2. MatchesInv /\ KickedOff /\ [MatchesNext]_allMatchesVars => KickedOff'
  BY KickedOffStep
<1>3. MatchesInv /\ KickedOff /\ [MatchesNext]_allMatchesVars => [Kept]_allMatchesVars
  BY StepMoves, ResultLife, FinalizedKeeps, TimePasses
<1>. QED
  BY <1>1, <1>2, <1>3, MatchesInvariant, PTL DEF MatchesSpec, ResultsAreFinal

-----------------------------------------------------------------------------
(***************************************************************************)
(* BolaoMatches implements ResultLifecycle, for any number of matches,     *)
(* bettors, oracles and suspended calls, and whenever an oracle reports.   *)
(*                                                                         *)
(* The refinement mapping LifecycleBoard shows of a match its result.  The *)
(* argument: a step changes at most one match (OthersStay); what it does to*)
(* a registered match is one of MatchMoves, and each of these is an action *)
(* of the lifecycle, or leaves the result as it is.  That a match which is *)
(* "Unresolved" has nothing left of an earlier proposal is an invariant of *)
(* its own, BlankWhenOpen.                                                 *)
(***************************************************************************)

(* An unresolved match keeps no trace of a withdrawn proposal. *)
BlankWhenOpen ==
    \A m \in Registered : Status(m) = "Unresolved" => matches[m].result = Unresolved

(* The entry of a match on the board. *)
Entry(match) ==
    IF match = NoMatch THEN [status |-> "Absent", score |-> NoResult, since |-> 0]
    ELSE [status |-> CASE match.result.status = "Unresolved" -> "Open"
                       [] match.result.status = "Proposed" -> "Announced"
                       [] match.result.status = "Finalized" -> "Counted"
                       [] match.result.status = "Cancelled" -> "CalledOff",
          score |-> match.result.final,
          since |-> match.result.proposed_at]

(* The board consists of the entries. *)
LEMMA BoardOfEntries == LifecycleBoard = [m \in MatchIds |-> Entry(matches[m])]
BY DEF LifecycleBoard, Entry, Status

(* Only one match changes in a step. *)
LEMMA OthersStay ==
    ASSUME MatchesInv, MatchesStep, NEW m \in MatchIds, NEW k \in MatchIds, m # k
    PROVE  matches'[m] = matches[m] \/ matches'[k] = matches[k]
<1>1. matches \in [MatchIds -> Matches \cup {NoMatch}]
  BY DEF MatchesInv, MatchesTypeOK
<1>2. ASSUME NEW n, NEW new, matches' = [matches EXCEPT ![n] = new]
      PROVE  matches'[m] = matches[m] \/ matches'[k] = matches[k]
  BY <1>1, <1>2
<1>3. ASSUME NEW n, NEW r, matches' = [matches EXCEPT ![n].result = r]
      PROVE  matches'[m] = matches[m] \/ matches'[k] = matches[k]
  BY <1>1, <1>3
<1>4. CASE RegisterStep
  BY <1>2, <1>4 DEF RegisterStep, RegisterPhase, RegisterMatch
<1>5. CASE BetStep
  BY <1>1, <1>5 DEF BetStep, PlaceBet, PlaceBetFromFreebetLedger, RecordBet
<1>6. CASE ResultStep
  <2>1. ASSUME NEW n, FinalizeResult(n)
        PROVE  matches'[m] = matches[m] \/ matches'[k] = matches[k]
    BY <1>1, <2>1 DEF FinalizeResult
  <2>2. ASSUME NEW n, NEW caller, VoidMatch(caller, n)
        PROVE  matches'[m] = matches[m] \/ matches'[k] = matches[k]
    BY <1>1, <2>2 DEF VoidMatch
  <2>3. ASSUME NEW slot, NEW r, OracleReply(slot, r)
        PROVE  matches'[m] = matches[m] \/ matches'[k] = matches[k]
    BY <1>3, <2>3 DEF OracleReply
  <2>. QED
    BY <1>3, <1>6, <2>1, <2>2, <2>3
       DEF ResultStep, ProposeResult, ProposeFromOracle, OracleReplyFailed,
           CancelProposedResult, CancelMatch, CancelMatchWithFreebets
<1>7. CASE PayoutStep
  BY <1>1, <1>7 DEF PayoutStep, ClaimMatchReward, ClaimFreebetReward, MarkClaimed,
                    ReturnNext, ReturnDone, ReturnRejected, ReturnAbandoned,
                    ClaimRefund, AdminPushRefund, SendRefund, SweepMatchDust
<1>. QED
  BY <1>4, <1>5, <1>6, <1>7 DEF MatchesStep

----------------------------------------------------------------------------
(* What a step may leave of the result of a registered match, exactly.     *)
ResultBecomes(m, r) ==
    \/ r = matches[m].result
    \/ Status(m) = "Unresolved" /\ \E s \in Reports : r = Proposed(s, now)
    \/ Status(m) = "Proposed" /\ ~ChallengeOver(m) /\ r = Unresolved
    \/ Status(m) = "Proposed" /\ ChallengeOver(m) /\ r = Finalized(matches[m].result.final)
    \/ Status(m) \in {"Unresolved", "Proposed"} /\ r = Cancelled

(* The moves of a match are moves of its result. *)
LEMMA MovesOfResults ==
    ASSUME MatchesInv, NEW m \in Registered, MatchMoves(m)
    PROVE  ResultBecomes(m, matches'[m].result)
<1>1. m \in MatchIds /\ matches[m] \in Matches /\ matches \in [MatchIds -> Matches \cup {NoMatch}]
  BY MatchTyped DEF MatchesInv, MatchesTypeOK
<1>2. ASSUME NEW stake \in Nat,
             matches'[m] = [matches[m] EXCEPT !.match_prize_pool = @ + stake]
      PROVE  matches'[m].result = matches[m].result
  BY <1>1, <1>2 DEF Matches
<1>3. ASSUME NEW claimed \in Nat, matches'[m] = [matches[m] EXCEPT !.total_claimed = claimed]
      PROVE  matches'[m].result = matches[m].result
  BY <1>1, <1>3 DEF Matches
<1>4. ASSUME matches'[m] = [matches[m] EXCEPT !.match_prize_pool = 0, !.dust_swept = TRUE]
      PROVE  matches'[m].result = matches[m].result
  BY <1>1, <1>4 DEF Matches
<1>5. ASSUME NEW r, matches'[m] = [matches[m] EXCEPT !.result = r]
      PROVE  matches'[m].result = r
  BY <1>1, <1>5 DEF Matches
<1>6. ASSUME FinalizeResult(m)
      PROVE  /\ Status(m) = "Proposed" /\ ChallengeOver(m)
             /\ matches'[m].result = Finalized(matches[m].result.final)
  BY <1>1, <1>6 DEF FinalizeResult, Matches
<1>7. ASSUME NEW caller, VoidMatch(caller, m)
      PROVE  /\ Status(m) \in {"Unresolved", "Proposed"}
             /\ matches'[m].result = Cancelled
  BY <1>1, <1>7 DEF VoidMatch, Matches
<1>. QED
  BY <1>2, <1>3, <1>4, <1>5, <1>6, <1>7 DEF MatchMoves, ResultBecomes

(* Registered matches stay registered. *)
LEMMA StayRegistered ==
    ASSUME MatchesInv, [MatchesNext]_allMatchesVars
    PROVE  Registered \subseteq Registered'
<1>1. CASE MatchesStep
  BY <1>1, MatchesStepTyped DEF StepTyped
<1>2. CASE UNCHANGED matchesVars
  BY <1>2 DEF matchesVars, Registered
<1>. QED
  BY <1>1, <1>2 DEF MatchesNext, allMatchesVars

(* BlankWhenOpen is inductive. *)
LEMMA BlankStep ==
    ASSUME MatchesInv, BlankWhenOpen, [MatchesNext]_allMatchesVars
    PROVE  BlankWhenOpen'
<1>. SUFFICES ASSUME NEW m \in Registered', matches'[m].result.status = "Unresolved"
              PROVE  matches'[m].result = Unresolved
  BY DEF BlankWhenOpen, Status
<1>1. CASE m \notin Registered
  BY <1>1, NewMatchUnresolved
<1>2. CASE m \in Registered
  <2>1. ResultBecomes(m, matches'[m].result)
    BY <1>2, StepMoves, MovesOfResults
  <2>2. /\ \A s : Proposed(s, now).status # "Unresolved"
        /\ Finalized(matches[m].result.final).status # "Unresolved"
        /\ Cancelled.status # "Unresolved"
    BY DEF Proposed, Finalized, Cancelled
  <2>. QED
    BY <1>2, <2>1, <2>2 DEF ResultBecomes, BlankWhenOpen, Status
<1>. QED
  BY <1>1, <1>2

----------------------------------------------------------------------------
(* A step that changes the entry of one match. *)
LEMMA BoardChanges ==
    ASSUME MatchesInv, MatchesStep, NEW m \in MatchIds, matches'[m] # matches[m]
    PROVE  LifecycleBoard' = [LifecycleBoard EXCEPT ![m] = Entry(matches'[m])]
<1>1. \A k \in MatchIds \ {m} : matches'[k] = matches[k]
  BY OthersStay
<1>2. LifecycleBoard' = [k \in MatchIds |-> Entry(matches'[k])]
  BY DEF LifecycleBoard, Entry, Status
<1>. QED
  BY <1>1, <1>2, BoardOfEntries

(* Registering a match is an action of the lifecycle. *)
LEMMA NewMatchRefines ==
    ASSUME MatchesInv, MatchesStep, NEW m \in MatchIds, m \notin Registered, m \in Registered'
    PROVE  Lifecycle!Register(m)
<1>1. matches[m] = NoMatch /\ matches'[m] # NoMatch
  BY DEF Registered
<1>2. LifecycleBoard[m] = Lifecycle!Absent
  BY <1>1, BoardOfEntries DEF Entry, Lifecycle!Absent
<1>3. matches'[m].result = Unresolved
  BY NewMatchUnresolved DEF MatchesNext
<1>4. Entry(matches'[m]) = Lifecycle!Open
  BY <1>1, <1>3 DEF Entry, Unresolved, Lifecycle!Open
<1>5. LifecycleBoard' = [LifecycleBoard EXCEPT ![m] = Lifecycle!Open]
  BY <1>1, <1>4, BoardChanges
<1>6. UNCHANGED now
  BY MatchesStepFrame DEF adminVars
<1>. QED
  BY <1>2, <1>5, <1>6 DEF Lifecycle!Register, Lifecycle!Becomes

(* So is what happens to the result of a registered match. *)
LEMMA ResultRefines ==
    ASSUME MatchesInv, BlankWhenOpen, MatchesStep, NEW m \in Registered,
           matches'[m].result # matches[m].result
    PROVE  \/ Lifecycle!Announce(m) \/ Lifecycle!Withdraw(m)
           \/ Lifecycle!Count(m) \/ Lifecycle!CallOff(m)
<1>1. /\ m \in MatchIds /\ matches[m] \in Matches /\ matches[m] # NoMatch
      /\ matches[m].result \in Results
  BY MatchTyped DEF MatchesInv, Matches, Registered
<1>2. now \in Nat /\ matches[m].result.proposed_at \in Nat /\ CHALLENGE_WINDOW_MS \in Nat
  BY <1>1, AdminAssumption, MatchesAssumption DEF MatchesInv, AdminTypeOK, Results
<1>3. UNCHANGED now
  BY MatchesStepFrame DEF adminVars
<1>4. matches'[m] # NoMatch
  BY StayRegistered DEF MatchesNext, Registered
<1>5. LifecycleBoard' = [LifecycleBoard EXCEPT ![m] = Entry(matches'[m])]
  BY <1>1, BoardChanges
<1>6. LifecycleBoard[m] = Entry(matches[m])
  BY <1>1, BoardOfEntries
<1>7. ResultBecomes(m, matches'[m].result)
  BY StepMoves, MovesOfResults DEF MatchesNext
<1>8. ASSUME NEW s \in Reports, Status(m) = "Unresolved", matches'[m].result = Proposed(s, now)
      PROVE  Lifecycle!Announce(m)
  <2>1. LifecycleBoard[m] = Lifecycle!Open
    BY <1>1, <1>6, <1>8 DEF BlankWhenOpen, Entry, Unresolved, Lifecycle!Open
  <2>2. Entry(matches'[m]) = Lifecycle!Announced(s, now)
    BY <1>4, <1>8 DEF Entry, Proposed, Lifecycle!Announced
  <2>. QED
    BY <1>3, <1>5, <2>1, <2>2 DEF Lifecycle!Announce, Lifecycle!Becomes
<1>9. ASSUME Status(m) = "Proposed"
      PROVE  LifecycleBoard[m] =
                [status |-> "Announced", score |-> matches[m].result.final,
                 since |-> matches[m].result.proposed_at]
  BY <1>1, <1>6, <1>9 DEF Entry, Status
<1>10. ASSUME Status(m) = "Proposed", ~ChallengeOver(m), matches'[m].result = Unresolved
       PROVE  Lifecycle!Withdraw(m)
  <2>1. now < matches[m].result.proposed_at + CHALLENGE_WINDOW_MS
    BY <1>2, <1>10 DEF ChallengeOver
  <2>2. Entry(matches'[m]) = Lifecycle!Open
    BY <1>4, <1>10 DEF Entry, Unresolved, Lifecycle!Open
  <2>. QED
    BY <1>3, <1>5, <1>9, <1>10, <2>1, <2>2 DEF Lifecycle!Withdraw, Lifecycle!Becomes
<1>11. ASSUME Status(m) = "Proposed", ChallengeOver(m),
              matches'[m].result = Finalized(matches[m].result.final)
       PROVE  Lifecycle!Count(m)
  <2>1. Entry(matches'[m]) = Lifecycle!Counted(matches[m].result.final)
    BY <1>4, <1>11 DEF Entry, Finalized, Lifecycle!Counted
  <2>2. now >= matches[m].result.proposed_at + CHALLENGE_WINDOW_MS
    BY <1>11 DEF ChallengeOver
  <2>3. Lifecycle!Becomes(m, Lifecycle!Counted(matches[m].result.final))
    BY <1>3, <1>5, <2>1 DEF Lifecycle!Becomes
  <2>. QED
    BY <1>9, <1>11, <2>2, <2>3 DEF Lifecycle!Count
<1>12. ASSUME Status(m) \in {"Unresolved", "Proposed"}, matches'[m].result = Cancelled
       PROVE  Lifecycle!CallOff(m)
  <2>1. LifecycleBoard[m].status \in {"Open", "Announced"}
    BY <1>1, <1>6, <1>12 DEF Entry, Status
  <2>2. Entry(matches'[m]) = Lifecycle!CalledOff
    BY <1>4, <1>12 DEF Entry, Cancelled, Lifecycle!CalledOff
  <2>. QED
    BY <1>3, <1>5, <2>1, <2>2 DEF Lifecycle!CallOff, Lifecycle!Becomes
<1>. QED
  BY <1>7, <1>8, <1>10, <1>11, <1>12 DEF ResultBecomes

(* A step of a handler is an action of the lifecycle, or a stutter.        *)
LEMMA HandlersRefine ==
    ASSUME MatchesInv, BlankWhenOpen, MatchesStep
    PROVE  Lifecycle!Next \/ UNCHANGED <<now, LifecycleBoard>>
<1>1. UNCHANGED now
  BY MatchesStepFrame DEF adminVars
<1>2. ASSUME NEW m \in MatchIds, m \notin Registered, m \in Registered'
      PROVE  Lifecycle!Next
  BY <1>2, NewMatchRefines DEF Lifecycle!Next
<1>3. ASSUME NEW m \in Registered, matches'[m].result # matches[m].result
      PROVE  Lifecycle!Next
  <2>1. m \in MatchIds
    BY DEF Registered
  <2>. QED
    BY <1>3, <2>1, ResultRefines DEF Lifecycle!Next
<1>4. ASSUME Registered' \subseteq Registered,
             \A m \in Registered : matches'[m].result = matches[m].result
      PROVE  UNCHANGED LifecycleBoard
  <2>1. \A m \in MatchIds : matches[m] = NoMatch <=> matches'[m] = NoMatch
    BY <1>4, StayRegistered DEF MatchesNext, Registered
  <2>2. \A m \in MatchIds : Entry(matches'[m]) = Entry(matches[m])
    BY <1>4, <2>1 DEF Entry, Registered
  <2>3. LifecycleBoard' = [m \in MatchIds |-> Entry(matches'[m])]
    BY DEF LifecycleBoard, Entry, Status
  <2>. QED
    BY <2>2, <2>3, BoardOfEntries
<1>5. Registered' \subseteq MatchIds
  BY DEF Registered
<1>. QED
  BY <1>1, <1>2, <1>3, <1>4, <1>5

(* Every step of the program and of its clock is. *)
LEMMA StepRefines ==
    ASSUME MatchesInv, BlankWhenOpen, [MatchesNext]_allMatchesVars
    PROVE  [Lifecycle!Next]_<<now, LifecycleBoard>>
<1>1. CASE MatchesStep
  BY <1>1, HandlersRefine
<1>2. CASE UNCHANGED matchesVars
  <2>1. UNCHANGED LifecycleBoard
    BY <1>2 DEF matchesVars, LifecycleBoard, Status
  <2>2. CASE now' = now
    BY <2>1, <2>2
  <2>3. CASE now' # now
    <3>1. now' > now
      BY <2>3, TimePasses
    <3>. QED
      BY <2>1, <3>1 DEF Lifecycle!Next, Lifecycle!TimePasses
  <2>. QED
    BY <2>2, <2>3
<1>. QED
  BY <1>1, <1>2 DEF MatchesNext, allMatchesVars

(* The betting program implements the lifecycle of results: no result ever *)
(* counts, and pays, that has not stood unchanged and open to withdrawal   *)
(* for the whole challenge window; what counts or was called off is final. *)
THEOREM MatchesRefine == MatchesSpec => ImplementsLifecycle
<1>1. MatchesInit => Lifecycle!Init /\ BlankWhenOpen
  <2>. SUFFICES ASSUME MatchesInit PROVE Lifecycle!Init /\ BlankWhenOpen
    OBVIOUS
  <2>1. \A m \in MatchIds : matches[m] = NoMatch
    BY DEF MatchesInit
  <2>2. \A m \in MatchIds : Entry(matches[m]) = Lifecycle!Absent
    BY <2>1 DEF Entry, Lifecycle!Absent
  <2>3. Lifecycle!Init
    BY <2>2, BoardOfEntries DEF Lifecycle!Init
  <2>. QED
    BY <2>1, <2>3 DEF BlankWhenOpen, Registered
<1>2. MatchesInv /\ BlankWhenOpen /\ [MatchesNext]_allMatchesVars => BlankWhenOpen'
  BY BlankStep
<1>3. MatchesInv /\ BlankWhenOpen /\ [MatchesNext]_allMatchesVars
        => [Lifecycle!Next]_<<now, LifecycleBoard>>
  BY StepRefines
<1>. QED
  BY <1>1, <1>2, <1>3, MatchesInvariant, PTL DEF MatchesSpec, ImplementsLifecycle, Lifecycle!Spec

----------------------------------------------------------------------------
(***************************************************************************)
(* PART 4: the money.                                                      *)
(*                                                                         *)
(* MoneyMoves sorts the handlers by what they do to matches, bets and      *)
(* refunds.  The invariants are then shown move by move.                   *)
(***************************************************************************)

refundVars == <<pending_refunds, refunded>>

(* The moves. *)
PhaseAdded ==
    /\ \E phase \in PhaseNames, weight \in Weights :
          phases[phase] = 0 /\ phases' = [phases EXCEPT ![phase] = weight]
    /\ UNCHANGED <<matches, bets, refundVars>>

MatchAdded ==
    /\ \E phase \in PhaseNames, kickOff \in KickOffs, m \in MatchIds \ Registered :
          /\ phases[phase] # 0
          /\ matches' = [matches EXCEPT ![m] = NewMatch(phase, kickOff)]
    /\ UNCHANGED <<phases, bets, refundVars>>

BetPlaced(u, m) ==
    /\ m \in Registered /\ BettingOpen(m) /\ bets[<<u, m>>] = NoBet
    /\ \E p \in Guesses, stake \in Nat, principal \in Nat :
          principal \in {0, stake} /\ RecordBet(u, m, p, stake, principal)
    /\ UNCHANGED <<phases, refundVars>>

Undecided == {"Unresolved", "Proposed"}

ResultSet(m) ==
    /\ m \in Registered /\ Status(m) \in Undecided
    /\ \E r \in Results : /\ r.status \in Undecided
                          /\ matches' = [matches EXCEPT ![m].result = r]
    /\ UNCHANGED <<phases, bets, refundVars>>

MatchVoided(m) ==
    /\ \E caller \in Accounts : VoidMatch(caller, m)
    /\ UNCHANGED <<phases, refunded>>

BetClaimed(u, m) ==
    /\ Claimable(u, m) /\ MarkClaimed(u, m)
    /\ UNCHANGED <<phases, refundVars>>

PoolSwept(m) ==
    /\ m \in Registered /\ matches[m].settlement_prepared
    /\ matches' = [matches EXCEPT ![m].match_prize_pool = 0, ![m].dust_swept = TRUE]
    /\ UNCHANGED <<phases, bets, refundVars>>

RefundSent(u) ==
    /\ SendRefund(u)
    /\ UNCHANGED <<phases, matches, bets>>

MoneyMoves ==
    \/ PhaseAdded \/ MatchAdded
    \/ \E u \in Users, m \in MatchIds : BetPlaced(u, m) \/ BetClaimed(u, m)
    \/ \E m \in MatchIds : \/ ResultSet(m) \/ MatchVoided(m) \/ PoolSwept(m)
                           \/ FinalizeResult(m)
    \/ \E u \in Users : RefundSent(u)
    \/ UNCHANGED <<phases, matches, bets, refundVars>>

(* Registration. *)
LEMMA RegisterMoney ==
    ASSUME MatchesInv, RegisterStep
    PROVE  MoneyMoves
<1>1. next_match_id + 1 \notin Registered
  BY MatchesAssumption DEF MatchesInv, MatchesTypeOK, IdsAreAssigned, Registered
<1>2. ASSUME NEW caller, NEW phase \in PhaseNames, NEW weight \in Weights,
             RegisterPhase(caller, phase, weight)
      PROVE  PhaseAdded
  BY <1>2 DEF RegisterPhase, PhaseAdded, refundVars
<1>3. ASSUME NEW caller, NEW phase \in PhaseNames, NEW kickOff \in KickOffs,
             RegisterMatch(caller, phase, kickOff)
      PROVE  MatchAdded
  BY <1>1, <1>3 DEF RegisterMatch, MatchAdded, refundVars
<1>. QED
  BY <1>2, <1>3 DEF RegisterStep, MoneyMoves

(* Betting. *)
LEMMA BetMoney ==
    ASSUME MatchesInv, BetStep
    PROVE  MoneyMoves
<1>1. ASSUME NEW u \in Users, NEW m \in MatchIds, NEW p \in Guesses, NEW value \in BetValues,
             PlaceBet(u, m, p, value)
      PROVE  BetPlaced(u, m)
  <2>1. MatchPoolCut(value) \in Nat
    BY CutsNat, MatchesAssumption
  <2>. QED
    BY <1>1, <2>1 DEF PlaceBet, AcceptsBet, BetPlaced, refundVars, boardVars
<1>2. ASSUME NEW u \in Users, NEW m \in MatchIds, NEW p \in Guesses,
             NEW value \in FreebetValues, PlaceBetFromFreebetLedger(u, m, p, value)
      PROVE  BetPlaced(u, m)
  <2>1. value \in Nat
    BY MatchesAssumption
  <2>. QED
    BY <1>2, <2>1 DEF PlaceBetFromFreebetLedger, AcceptsBet, BetPlaced, refundVars, boardVars
<1>. QED
  BY <1>1, <1>2 DEF BetStep, MoneyMoves

(* Results. *)
LEMMA ResultMoney ==
    ASSUME MatchesInv, ResultStep
    PROVE  MoneyMoves
<1>1. ASSUME NEW m \in Registered, NEW r \in Reports, Status(m) = "Unresolved",
             matches' = [matches EXCEPT ![m].result = Proposed(r, now)],
             UNCHANGED <<phases, bets, refundVars>>
      PROVE  MoneyMoves
  <2>1. Proposed(r, now) \in Results /\ Proposed(r, now).status \in Undecided
    BY ProposalTyped DEF MatchesInv, Proposed, Undecided
  <2>2. ResultSet(m) /\ m \in MatchIds
    BY <1>1, <2>1 DEF ResultSet, Undecided, Registered
  <2>. QED
    BY <2>2 DEF MoneyMoves
<1>2. ASSUME NEW m \in MatchIds, NEW oracle, NEW r \in Reports, ProposeResult(oracle, m, r)
      PROVE  MoneyMoves
  BY <1>1, <1>2 DEF ProposeResult, refundVars, boardVars
<1>3. ASSUME NEW slot \in QuerySlots, NEW r \in Reports, OracleReply(slot, r)
      PROVE  MoneyMoves
  <2>1. queries[slot].match \in Registered
    BY <1>3 DEF OracleReply, MatchesInv, QueriesRegistered
  <2>. QED
    BY <1>1, <1>3, <2>1 DEF OracleReply, refundVars, boardVars
<1>4. ASSUME NEW m \in MatchIds, NEW caller, CancelProposedResult(caller, m)
      PROVE  ResultSet(m)
  <2>1. Unresolved \in Results /\ Unresolved.status \in Undecided
    BY DEF Unresolved, Results, Statuses, Undecided
  <2>. QED
    BY <1>4, <2>1 DEF CancelProposedResult, ResultSet, Undecided, refundVars, boardVars
<1>5. ASSUME NEW m \in MatchIds, NEW caller \in Accounts,
             \/ CancelMatch(caller, m)
             \/ \E u \in Users, slot \in ReturnSlots : CancelMatchWithFreebets(caller, m, u, slot)
      PROVE  MatchVoided(m)
  BY <1>5 DEF CancelMatch, CancelMatchWithFreebets, MatchVoided, boardVars
<1>6. ASSUME NEW m, NEW oracle, NEW slot,
             ProposeFromOracle(m, oracle, slot) \/ OracleReplyFailed(slot)
      PROVE  MoneyMoves
  BY <1>6 DEF ProposeFromOracle, OracleReplyFailed, MoneyMoves, refundVars, boardVars
<1>. QED
  BY <1>2, <1>3, <1>4, <1>5, <1>6 DEF ResultStep, MoneyMoves

(* Payouts. *)
LEMMA PayoutMoney ==
    ASSUME PayoutStep
    PROVE  MoneyMoves
<1>1. ASSUME NEW u \in Users, NEW m \in MatchIds,
             \/ ClaimMatchReward(u, m)
             \/ \E slot \in ReturnSlots : ClaimFreebetReward(u, m, slot)
      PROVE  BetClaimed(u, m)
  BY <1>1 DEF ClaimMatchReward, ClaimFreebetReward, BetClaimed, refundVars, boardVars
<1>2. ASSUME NEW slot,
             \/ \E u : ReturnNext(slot, u)
             \/ ReturnDone(slot) \/ ReturnRejected(slot) \/ ReturnAbandoned(slot)
      PROVE  UNCHANGED <<phases, matches, bets, refundVars>>
  BY <1>2 DEF ReturnNext, ReturnDone, ReturnRejected, ReturnAbandoned, refundVars, boardVars
<1>3. ASSUME NEW u \in Users, ClaimRefund(u) \/ \E caller \in Accounts : AdminPushRefund(caller, u)
      PROVE  RefundSent(u)
  BY <1>3 DEF ClaimRefund, AdminPushRefund, RefundSent, SendRefund, boardVars
<1>4. ASSUME NEW m \in MatchIds, SweepMatchDust(m)
      PROVE  PoolSwept(m)
  BY <1>4 DEF SweepMatchDust, PoolSwept, refundVars, boardVars
<1>. QED
  BY <1>1, <1>2, <1>3, <1>4 DEF PayoutStep, MoneyMoves

(* Every step is one of the moves. *)
LEMMA StepMoney ==
    ASSUME MatchesInv, [MatchesNext]_allMatchesVars
    PROVE  MoneyMoves
<1>1. CASE MatchesStep
  BY <1>1, RegisterMoney, BetMoney, ResultMoney, PayoutMoney DEF MatchesStep
<1>2. CASE UNCHANGED matchesVars
  BY <1>2 DEF matchesVars, boardVars, MoneyMoves, refundVars
<1>. QED
  BY <1>1, <1>2 DEF MatchesNext, allMatchesVars

----------------------------------------------------------------------------
(* Refunds. *)

IsCancelled(m) == m \in Registered /\ Status(m) = "Cancelled"

\* u's bet on m was closed as a cash bet by the cancellation of m.
Voided(u, m) ==
    /\ IsCancelled(m)
    /\ bets[<<u, m>>] # NoBet
    /\ bets[<<u, m>>].claimed
    /\ bets[<<u, m>>].freebet_principal = 0

RefundDue(u) ==
    [m \in MatchIds |-> IF Voided(u, m) THEN bets[<<u, m>>].stake_in_match_pool ELSE 0]

\* A bet is closed only by a claim or by a cancellation.
OpenUntilDecided ==
    \A u \in Users, m \in MatchIds :
        bets[<<u, m>>] # NoBet /\ bets[<<u, m>>].claimed
            => m \in Registered /\ Status(m) \in {"Finalized", "Cancelled"}

RefundsInv ==
    /\ OpenUntilDecided
    /\ \A u \in Users : pending_refunds[u] + refunded[u] = SumOver(RefundDue(u), MatchIds)

(* The sum of the property and the sum of the invariant are the same.      *)
LEMMA RefundDueTyped ==
    ASSUME MatchesTypeOK, NEW u \in Users
    PROVE  \A m \in MatchIds : RefundDue(u)[m] \in Nat
BY BettorsBet DEF RefundDue, Voided, Bets

LEMMA RefundsInvIsEnough ==
    ASSUME MatchesTypeOK, RefundsInv
    PROVE  RefundsAddUp
<1>. SUFFICES ASSUME NEW u \in Users
              PROVE  LET voided == {m \in Registered : Voided(u, m)}
                     IN  pending_refunds[u] + refunded[u] =
                             SumOver([m \in voided |-> bets[<<u, m>>].stake_in_match_pool],
                                     voided)
  BY DEF RefundsAddUp, Voided, IsCancelled
<1>. DEFINE voided == {m \in Registered : Voided(u, m)}
            stakes == [m \in voided |-> bets[<<u, m>>].stake_in_match_pool]
<1>1. voided \in SUBSET MatchIds /\ IsFiniteSet(MatchIds)
  BY MatchesAssumption DEF Registered
<1>2. \A m \in voided : stakes[m] = RefundDue(u)[m]
  BY <1>1 DEF RefundDue
<1>3. \A m \in MatchIds \ voided : RefundDue(u)[m] = 0
  BY DEF RefundDue, Voided, IsCancelled
<1>4. SumOver(stakes, voided) = SumOver(RefundDue(u), MatchIds)
  <2>. HIDE DEF voided, stakes
  <2>. QED
    BY <1>1, <1>2, <1>3, RefundDueTyped, SumOverWithin
<1>. QED
  BY <1>4 DEF RefundsInv

(* A step that keeps the closed bets of cancelled matches keeps what is    *)
(* due; with the refunds unchanged, the invariant stays.                   *)
LEMMA DueKept ==
    ASSUME RefundsInv, OpenUntilDecided', UNCHANGED refundVars,
           \A u \in Users, m \in MatchIds : Voided(u, m)' <=> Voided(u, m),
           \A u \in Users, m \in MatchIds :
              Voided(u, m) => bets'[<<u, m>>] = bets[<<u, m>>]
    PROVE  RefundsInv'
<1>1. ASSUME NEW u \in Users
      PROVE  RefundDue(u)' = RefundDue(u)
  BY <1>1 DEF RefundDue
<1>. QED
  BY <1>1 DEF RefundsInv, refundVars

LEMMA AddedRefunds ==
    ASSUME MatchesInv, RefundsInv, PhaseAdded \/ MatchAdded
    PROVE  RefundsInv'
<1>1. CASE PhaseAdded
  BY <1>1, DueKept DEF PhaseAdded, RefundsInv, OpenUntilDecided, Voided, IsCancelled,
     Registered, Status
<1>2. CASE MatchAdded
  <2>1. PICK n \in MatchIds \ Registered :
            /\ matches'[n].result = Unresolved
            /\ \A m \in MatchIds \ {n} : matches'[m] = matches[m]
    BY <1>2 DEF MatchAdded, NewMatch, MatchesInv, MatchesTypeOK
  <2>2. \A m \in MatchIds : IsCancelled(m)' <=> IsCancelled(m)
    BY <2>1 DEF IsCancelled, Registered, Status, Unresolved
  <2>3. \A m \in Registered : m \in Registered' /\ Status(m)' = Status(m)
    BY <2>1 DEF Registered, Status
  <2>4. UNCHANGED bets /\ UNCHANGED refundVars
    BY <1>2 DEF MatchAdded
  <2>5. OpenUntilDecided'
    BY <2>3, <2>4 DEF OpenUntilDecided, RefundsInv
  <2>. QED
    BY <2>2, <2>4, <2>5, DueKept DEF Voided
<1>. QED
  BY <1>1, <1>2

(* A step that leaves the bets alone and changes one match only. *)
LEMMA OtherMatchRefunds ==
    ASSUME RefundsInv, NEW n \in Registered, n \in Registered',
           UNCHANGED bets, UNCHANGED refundVars,
           \A m \in MatchIds \ {n} : matches'[m] = matches[m],
           \/ Status(n)' = Status(n)
           \/ Status(n) \in Undecided /\ Status(n)' # "Cancelled"
    PROVE  RefundsInv'
<1>1. \A m \in MatchIds : m \in Registered' <=> m \in Registered
  BY DEF Registered
<1>2. \A m \in MatchIds : IsCancelled(m)' <=> IsCancelled(m)
  BY <1>1 DEF IsCancelled, Status, Undecided
<1>3. \A m \in Registered : Status(m) \in {"Finalized", "Cancelled"} => Status(m)' = Status(m)
  BY DEF Undecided, Status, Registered
<1>4. OpenUntilDecided'
  BY <1>1, <1>3 DEF OpenUntilDecided, RefundsInv
<1>. QED
  BY <1>2, <1>4, DueKept DEF Voided

LEMMA SettledRefunds ==
    ASSUME MatchesInv, RefundsInv, NEW n \in MatchIds,
           ResultSet(n) \/ PoolSwept(n) \/ FinalizeResult(n)
    PROVE  RefundsInv'
<1>1. matches \in [MatchIds -> Matches \cup {NoMatch}]
  BY DEF MatchesInv, MatchesTypeOK
<1>2. ASSUME NEW new \in Matches, n \in Registered, matches' = [matches EXCEPT ![n] = new],
             UNCHANGED bets, UNCHANGED refundVars,
             \/ new.result.status = Status(n)
             \/ Status(n) \in Undecided /\ new.result.status # "Cancelled"
      PROVE  RefundsInv'
  <2>1. matches'[n] = new /\ n \in Registered'
    BY <1>1, <1>2, MarkerAssumption DEF Registered
  <2>2. \A m \in MatchIds \ {n} : matches'[m] = matches[m]
    BY <1>1, <1>2
  <2>. QED
    BY <1>2, <2>1, <2>2, OtherMatchRefunds DEF Status
<1>3. ASSUME NEW r \in Results, r.status \in Undecided, n \in Registered,
             Status(n) \in Undecided, matches' = [matches EXCEPT ![n].result = r],
             UNCHANGED bets, UNCHANGED refundVars
      PROVE  RefundsInv'
  <2>. DEFINE new == [matches[n] EXCEPT !.result = r]
  <2>1. new \in Matches /\ new.result = r
    BY <1>3, MatchTyped DEF MatchesInv, Matches
  <2>2. matches' = [matches EXCEPT ![n] = new]
    BY <1>3
  <2>. HIDE DEF new
  <2>. QED
    BY <1>2, <1>3, <2>1, <2>2 DEF Undecided
<1>4. ASSUME PoolSwept(n)
      PROVE  RefundsInv'
  <2>. DEFINE new == [matches[n] EXCEPT !.match_prize_pool = 0, !.dust_swept = TRUE]
  <2>1. new \in Matches /\ new.result = matches[n].result /\ n \in Registered
    BY <1>4, MatchTyped DEF MatchesInv, Matches, PoolSwept
  <2>2. matches' = [matches EXCEPT ![n] = new] /\ UNCHANGED bets /\ UNCHANGED refundVars
    BY <1>4 DEF PoolSwept
  <2>. HIDE DEF new
  <2>. QED
    BY <1>2, <2>1, <2>2 DEF Status
<1>5. ASSUME FinalizeResult(n)
      PROVE  RefundsInv'
  <2>1. Status(n) = "Proposed" /\ matches'[n].result.status = "Finalized" /\ n \in Registered
    BY <1>5, FinalizeMoves DEF FinalizeResult
  <2>2. MatchesTypeOK'
    BY <1>5, FinalizeTyped DEF MatchesInv, StepTyped
  <2>3. matches'[n] # NoMatch /\ \A m \in MatchIds \ {n} : matches'[m] = matches[m]
    <3>1. \A m \in MatchIds \ {n} : matches'[m] = matches[m]
      BY <1>1, <1>5 DEF FinalizeResult
    <3>2. n \in Registered'
      BY <1>5, FinalizeTyped, <2>1 DEF MatchesInv, StepTyped, Registered
    <3>. QED
      BY <3>1, <3>2 DEF Registered
  <2>. QED
    BY <1>5, <2>1, <2>3, OtherMatchRefunds
       DEF FinalizeResult, Registered, Status, Undecided, refundVars
<1>. QED
  BY <1>3, <1>4, <1>5 DEF ResultSet

(* A new bet is open; it may even be on a cancelled match. *)
LEMMA PlacedRefunds ==
    ASSUME MatchesInv, RefundsInv, NEW u \in Users, NEW n \in MatchIds, BetPlaced(u, n)
    PROVE  RefundsInv'
<1>1. PICK p \in Guesses, stake \in Nat, principal \in Nat :
          RecordBet(u, n, p, stake, principal)
  BY DEF BetPlaced
<1>2. bets'[<<u, n>>].claimed = FALSE
  BY <1>1 DEF RecordBet, MatchesInv, MatchesTypeOK
<1>3. \A v \in Users, m \in MatchIds :
          <<v, m>> # <<u, n>> => bets'[<<v, m>>] = bets[<<v, m>>]
  BY <1>1 DEF RecordBet, MatchesInv, MatchesTypeOK
<1>4. MatchesKept
  BY <1>1, RecordBetTyped DEF BetPlaced, MatchesInv
<1>5. \A m \in Registered : Status(m)' = Status(m)
  BY <1>1, MatchTyped DEF RecordBet, Status, MatchesInv, MatchesTypeOK, Matches
<1>6. \A m \in MatchIds : IsCancelled(m)' <=> IsCancelled(m)
  BY <1>4, <1>5 DEF IsCancelled, MatchesKept
<1>7. \A v \in Users, m \in MatchIds : Voided(v, m)' <=> Voided(v, m)
  <2>. SUFFICES ASSUME NEW v \in Users, NEW m \in MatchIds
                PROVE  Voided(v, m)' <=> Voided(v, m)
    OBVIOUS
  <2>1. CASE <<v, m>> = <<u, n>>
    BY <1>2, <2>1 DEF Voided, BetPlaced
  <2>2. CASE <<v, m>> # <<u, n>>
    BY <1>3, <1>6, <2>2 DEF Voided
  <2>. QED
    BY <2>1, <2>2
<1>8. OpenUntilDecided'
  BY <1>2, <1>3, <1>4, <1>5 DEF OpenUntilDecided, RefundsInv, MatchesKept
<1>9. \A v \in Users, m \in MatchIds : Voided(v, m) => bets'[<<v, m>>] = bets[<<v, m>>]
  BY <1>3 DEF Voided, BetPlaced
<1>. QED
  BY <1>7, <1>8, <1>9, DueKept DEF BetPlaced

(* A claim closes a bet on a finalized match. *)
LEMMA ClaimedRefunds ==
    ASSUME MatchesInv, RefundsInv, NEW u \in Users, NEW n \in MatchIds, BetClaimed(u, n)
    PROVE  RefundsInv'
<1>1. n \in Registered /\ Status(n) = "Finalized" /\ bets[<<u, n>>] # NoBet
  BY DEF BetClaimed, Claimable
<1>2. MatchesKept /\ BetsKept
  BY <1>1, MarkClaimedTyped, ClaimableTyped DEF BetClaimed, MatchesInv
<1>3. \A v \in Users, m \in MatchIds :
          <<v, m>> # <<u, n>> => bets'[<<v, m>>] = bets[<<v, m>>]
  BY DEF BetClaimed, MarkClaimed, MatchesInv, MatchesTypeOK
<1>4. \A m \in Registered : Status(m)' = Status(m)
  BY MatchTyped DEF BetClaimed, MarkClaimed, Status, MatchesInv, MatchesTypeOK, Matches
<1>5. \A m \in MatchIds : IsCancelled(m)' <=> IsCancelled(m)
  BY <1>2, <1>4 DEF IsCancelled, MatchesKept
<1>6. \A v \in Users, m \in MatchIds : Voided(v, m)' <=> Voided(v, m)
  <2>. SUFFICES ASSUME NEW v \in Users, NEW m \in MatchIds
                PROVE  Voided(v, m)' <=> Voided(v, m)
    OBVIOUS
  <2>1. CASE m = n
    BY <1>1, <1>5, <2>1 DEF Voided, IsCancelled
  <2>2. CASE m # n
    BY <1>3, <1>5, <2>2 DEF Voided
  <2>. QED
    BY <2>1, <2>2
<1>7. OpenUntilDecided'
  <2>. SUFFICES ASSUME NEW v \in Users, NEW m \in MatchIds,
                       bets'[<<v, m>>] # NoBet, bets'[<<v, m>>].claimed
                PROVE  m \in Registered' /\ Status(m)' \in {"Finalized", "Cancelled"}
    BY DEF OpenUntilDecided
  <2>1. CASE m = n
    BY <1>1, <1>2, <1>4, <2>1 DEF MatchesKept
  <2>2. CASE m # n
    BY <1>2, <1>3, <1>4, <2>2 DEF MatchesKept, OpenUntilDecided, RefundsInv
  <2>. QED
    BY <2>1, <2>2
<1>8. \A v \in Users, m \in MatchIds : Voided(v, m) => bets'[<<v, m>>] = bets[<<v, m>>]
  BY <1>1, <1>3 DEF Voided, IsCancelled
<1>. QED
  BY <1>6, <1>7, <1>8, DueKept DEF BetClaimed

(* A refund sent is a refund no longer pending. *)
LEMMA SentRefunds ==
    ASSUME MatchesInv, RefundsInv, NEW u \in Users, RefundSent(u)
    PROVE  RefundsInv'
<1>1. \A v \in Users : pending_refunds'[v] + refunded'[v] = pending_refunds[v] + refunded[v]
  BY DEF RefundSent, SendRefund, MatchesInv, MatchesTypeOK
<1>2. UNCHANGED <<matches, bets>>
  BY DEF RefundSent
<1>3. OpenUntilDecided'
  BY <1>2 DEF OpenUntilDecided, RefundsInv, Registered, Status
<1>4. ASSUME NEW v \in Users
      PROVE  RefundDue(v)' = RefundDue(v)
  BY <1>2 DEF RefundDue, Voided, IsCancelled, Registered, Status
<1>. QED
  BY <1>1, <1>3, <1>4 DEF RefundsInv

(* cancel_match makes refunds of the open cash bets, all of them new.      *)
LEMMA VoidedRefunds ==
    ASSUME MatchesInv, RefundsInv, NEW n \in MatchIds, MatchVoided(n)
    PROVE  RefundsInv'
<1>1. PICK caller \in Accounts : VoidMatch(caller, n)
  BY DEF MatchVoided
<1>2. /\ n \in Registered /\ Status(n) \in {"Unresolved", "Proposed"}
      /\ matches'[n].result.status = "Cancelled"
  BY <1>1, VoidMoves DEF VoidMatch
<1>3. MatchesKept /\ BetsKept
  BY <1>1, VoidTyped DEF MatchesInv
<1>4. \A m \in MatchIds \ {n} : matches'[m] = matches[m]
  BY <1>1 DEF VoidMatch, MatchesInv, MatchesTypeOK
<1>5. \A v \in Users, m \in MatchIds :
          bets'[<<v, m>>] = IF m = n /\ v \in Refundable(n)
                            THEN [bets[<<v, m>>] EXCEPT !.claimed = TRUE]
                            ELSE bets[<<v, m>>]
  BY <1>1 DEF VoidMatch
<1>6. \A v \in Users : bets[<<v, n>>] # NoBet => ~bets[<<v, n>>].claimed
  BY <1>2 DEF RefundsInv, OpenUntilDecided
<1>7. OpenUntilDecided'
  <2>. SUFFICES ASSUME NEW v \in Users, NEW m \in MatchIds,
                       bets'[<<v, m>>] # NoBet, bets'[<<v, m>>].claimed
                PROVE  m \in Registered' /\ Status(m)' \in {"Finalized", "Cancelled"}
    BY DEF OpenUntilDecided
  <2>1. CASE m = n
    BY <1>2, <1>3, <2>1 DEF MatchesKept, Status
  <2>2. CASE m # n
    BY <1>3, <1>4, <1>5, <2>2 DEF MatchesKept, OpenUntilDecided, RefundsInv, Status
  <2>. QED
    BY <2>1, <2>2
<1>8. ASSUME NEW v \in Users
      PROVE  SumOver(RefundDue(v)', MatchIds)
                 = SumOver(RefundDue(v), MatchIds)
                       + IF v \in CashRefunds(n) THEN bets[<<v, n>>].stake_in_match_pool ELSE 0
  <2>1. \A m \in MatchIds \ {n} : RefundDue(v)'[m] = RefundDue(v)[m]
    <3>. SUFFICES ASSUME NEW m \in MatchIds \ {n}
                  PROVE  RefundDue(v)'[m] = RefundDue(v)[m]
      OBVIOUS
    <3>1. bets'[<<v, m>>] = bets[<<v, m>>]
      BY <1>5
    <3>2. IsCancelled(m)' <=> IsCancelled(m)
      BY <1>3, <1>4 DEF IsCancelled, MatchesKept, Status
    <3>. QED
      BY <3>1, <3>2 DEF RefundDue, Voided
  <2>2. RefundDue(v)[n] = 0
    BY <1>2 DEF RefundDue, Voided, IsCancelled
  <2>3. RefundDue(v)'[n] =
            IF v \in CashRefunds(n) THEN bets[<<v, n>>].stake_in_match_pool ELSE 0
    <3>1. IsCancelled(n)'
      BY <1>2, <1>3 DEF IsCancelled, MatchesKept, Status
    <3>2. CASE bets[<<v, n>>] = NoBet
      <4>1. bets'[<<v, n>>] = NoBet /\ v \notin CashRefunds(n)
        BY <1>5, <3>2 DEF CashRefunds, Refundable, Bettors
      <4>. QED
        BY <4>1 DEF RefundDue, Voided
    <3>3. CASE bets[<<v, n>>] # NoBet
      <4>1. bets[<<v, n>>] \in Bets /\ ~bets[<<v, n>>].claimed
        BY <1>6, <3>3, BettorsBet DEF MatchesInv
      <4>2. v \in Refundable(n) <=> bets[<<v, n>>].stake_in_match_pool > 0
        BY <3>3, <4>1 DEF Refundable, Bettors
      <4>3. v \in CashRefunds(n) <=> /\ bets[<<v, n>>].stake_in_match_pool > 0
                                     /\ bets[<<v, n>>].freebet_principal = 0
        BY <4>1, <4>2 DEF CashRefunds, FreebetsOf, Bets
      <4>4. CASE v \in Refundable(n)
        <5>1. /\ bets'[<<v, n>>].claimed
              /\ bets'[<<v, n>>].freebet_principal = bets[<<v, n>>].freebet_principal
              /\ bets'[<<v, n>>].stake_in_match_pool = bets[<<v, n>>].stake_in_match_pool
          BY <1>5, <4>1, <4>4 DEF Bets
        <5>2. bets'[<<v, n>>] # NoBet
          BY <1>3, <3>3 DEF BetsKept
        <5>3. Voided(v, n)' <=> bets[<<v, n>>].freebet_principal = 0
          BY <3>1, <5>1, <5>2 DEF Voided
        <5>. QED
          BY <4>2, <4>3, <4>4, <5>1, <5>3 DEF RefundDue
      <4>5. CASE v \notin Refundable(n)
        <5>1. bets'[<<v, n>>] = bets[<<v, n>>]
          BY <1>5, <4>5
        <5>. QED
          BY <4>1, <4>2, <4>3, <4>5, <5>1 DEF RefundDue, Voided
      <4>. QED
        BY <4>4, <4>5
    <3>. QED
      BY <3>2, <3>3
  <2>4. \A m \in MatchIds : RefundDue(v)[m] \in Nat
    BY RefundDueTyped DEF MatchesInv
  <2>5. \A m \in MatchIds : RefundDue(v)'[m] \in Nat
    <3>1. RefundDue(v)'[n] \in Nat
      BY <2>3, BettorsBet DEF CashRefunds, Refundable, Bettors, Bets, MatchesInv
    <3>. QED
      BY <2>1, <2>4, <3>1
  <2>6. IsFiniteSet(MatchIds)
    BY MatchesAssumption
  <2>7. SumOver(RefundDue(v), MatchIds) \in Nat
    BY <2>4, <2>6, SumOverNat
  <2>8. SumOver(RefundDue(v)', MatchIds)
            = SumOver(RefundDue(v), MatchIds) - RefundDue(v)[n] + RefundDue(v)'[n]
    BY <2>1, <2>4, <2>5, <2>6, SumOverChange
  <2>9. RefundDue(v)'[n] \in Nat
    BY <2>5
  <2>. HIDE DEF RefundDue
  <2>. QED
    BY <2>2, <2>3, <2>7, <2>8, <2>9
<1>9. ASSUME NEW v \in Users
      PROVE  pending_refunds'[v] + refunded'[v]
                 = pending_refunds[v] + refunded[v]
                       + IF v \in CashRefunds(n) THEN bets[<<v, n>>].stake_in_match_pool ELSE 0
  <2>1. bets[<<v, n>>] \in Bets \/ v \notin CashRefunds(n)
    BY BettorsBet DEF CashRefunds, Refundable, Bettors, MatchesInv
  <2>2. pending_refunds[v] \in Nat /\ refunded[v] \in Nat /\ refunded' = refunded
    BY DEF MatchesInv, MatchesTypeOK, MatchVoided
  <2>3. pending_refunds'[v] = pending_refunds[v]
            + IF v \in CashRefunds(n) THEN bets[<<v, n>>].stake_in_match_pool ELSE 0
    BY <1>1 DEF VoidMatch, RefundsAfter
  <2>. QED
    BY <2>1, <2>2, <2>3 DEF Bets
<1>. QED
  BY <1>7, <1>8, <1>9 DEF RefundsInv

LEMMA RefundsStep ==
    ASSUME MatchesInv, RefundsInv, [MatchesNext]_allMatchesVars
    PROVE  RefundsInv'
<1>1. CASE UNCHANGED <<phases, matches, bets, refundVars>>
  <2>1. OpenUntilDecided' /\ UNCHANGED refundVars
    BY <1>1 DEF OpenUntilDecided, RefundsInv, Registered, Status
  <2>. QED
    BY <1>1, <2>1, DueKept DEF Voided, IsCancelled, Registered, Status
<1>. QED
  BY <1>1, StepMoney, AddedRefunds, SettledRefunds, PlacedRefunds, ClaimedRefunds,
     SentRefunds, VoidedRefunds DEF MoneyMoves

LEMMA RefundsInit == MatchesInit => RefundsInv
<1>. SUFFICES ASSUME MatchesInit
              PROVE  RefundsInv
  OBVIOUS
<1>1. OpenUntilDecided
  BY DEF MatchesInit, OpenUntilDecided
<1>2. ASSUME NEW u \in Users
      PROVE  pending_refunds[u] + refunded[u] = SumOver(RefundDue(u), MatchIds)
  <2>1. \A m \in MatchIds : RefundDue(u)[m] = 0
    BY <1>2 DEF RefundDue, Voided, MatchesInit
  <2>2. SumOver(RefundDue(u), MatchIds) = 0
    BY <2>1, SumOverZero, MatchesAssumption
  <2>. QED
    BY <1>2, <2>2 DEF MatchesInit
<1>. QED
  BY <1>1, <1>2 DEF RefundsInv

(* What a wallet was and will be refunded is the sum of its cash stakes in *)
(* the matches whose cancellation closed them, however cancellations,      *)
(* refunds, claims and late bets interleave (cancel_match, claim_refund,   *)
(* admin_push_refund).                                                     *)
THEOREM RefundsAreExact == MatchesSpec => []RefundsAddUp
<1>1. MatchesInv /\ RefundsInv /\ [MatchesNext]_allMatchesVars => RefundsInv'
  BY RefundsStep
<1>2. MatchesInv /\ RefundsInv => RefundsAddUp
  BY RefundsInvIsEnough DEF MatchesInv
<1>. QED
  BY <1>1, <1>2, RefundsInit, MatchesInvariant, PTL DEF MatchesSpec

----------------------------------------------------------------------------
(* Shares. *)

WinnersOf(m) == Winners(m, matches[m].result.final)

\* What the winners of m have claimed.
ClaimedShares(m) ==
    [u \in Users |-> IF u \in WinnersOf(m) /\ bets[<<u, m>>].claimed THEN ShareOf(u, m) ELSE 0]

\* The books of a finalized match: its winner stake is that of the bettors
\* who may claim, and its total is what those of them have claimed.
ClaimsBooked(m) ==
    /\ matches[m].total_winner_stake # 0
    /\ matches[m].total_winner_stake = StakeOf(WinnersOf(m), m)
    /\ matches[m].total_claimed = SumOver(ClaimedShares(m), Users)

SharesBooked(m) ==
    /\ Weight(m) # 0
    /\ Status(m) \in Undecided => matches[m].total_claimed = 0
    /\ Status(m) = "Finalized" /\ ~matches[m].dust_swept => ClaimsBooked(m)

SharesInv == \A m \in Registered : SharesBooked(m)

LEMMA WinnersAreUsers ==
    ASSUME MatchesTypeOK, NEW m \in Registered
    PROVE  /\ WinnersOf(m) \in SUBSET Bettors(m) /\ WinnersOf(m) \in SUBSET Users
           /\ IsFiniteSet(WinnersOf(m)) /\ IsFiniteSet(Users)
           /\ \A u \in WinnersOf(m) : bets[<<u, m>>] \in Bets
<1>1. WinnersOf(m) \in SUBSET Bettors(m) /\ WinnersOf(m) \in SUBSET Users
  BY DEF WinnersOf, Winners, Bettors
<1>2. IsFiniteSet(Users) /\ IsFiniteSet(WinnersOf(m))
  BY <1>1, MatchesAssumption, FS_Subset
<1>3. ASSUME NEW u \in WinnersOf(m)
      PROVE  bets[<<u, m>>] \in Bets
  <2>1. u \in Users /\ bets[<<u, m>>] # NoBet /\ m \in MatchIds
    BY <1>1, MatchTyped DEF Bettors
  <2>. QED
    BY <2>1, BettorsBet
<1>. QED
  BY <1>1, <1>2, <1>3

(* A floored share times the winner stake is at most the stake times the   *)
(* pool.                                                                   *)
LEMMA ShareFloor ==
    ASSUME NEW stake \in Nat, NEW pool \in Nat, NEW winnerStake \in Nat \ {0}
    PROVE  Share(stake, pool, winnerStake) * winnerStake <= stake * pool
<1>1. ASSUME NEW a \in Nat
      PROVE  (a \div winnerStake) * winnerStake <= a
  OBVIOUS
<1>2. stake * pool \in Nat
  OBVIOUS
<1>. QED
  BY <1>1, <1>2 DEF Share

(* All the winners' shares fit in the pool. *)
LEMMA SharesFit ==
    ASSUME MatchesTypeOK, NEW m \in Registered, ClaimsBooked(m)
    PROVE  LET shares == [u \in Users |-> IF u \in WinnersOf(m) THEN ShareOf(u, m) ELSE 0]
           IN  SumOver(shares, Users) <= matches[m].match_prize_pool
<1>. DEFINE W == WinnersOf(m)
            stakes == [u \in W |-> bets[<<u, m>>].stake_in_match_pool]
            won == [u \in W |-> ShareOf(u, m)]
            shares == [u \in Users |-> IF u \in W THEN ShareOf(u, m) ELSE 0]
            pool == matches[m].match_prize_pool
            winnerStake == matches[m].total_winner_stake
<1>1. pool \in Nat /\ winnerStake \in Nat \ {0}
  BY MatchTyped DEF Matches, ClaimsBooked
<1>2. W \in SUBSET Users /\ IsFiniteSet(W) /\ IsFiniteSet(Users)
  BY WinnersAreUsers
<1>3. \A u \in W : stakes[u] \in Nat
  BY WinnersAreUsers DEF Bets
<1>4. \A u \in W : won[u] = Share(stakes[u], pool, winnerStake)
  BY DEF ShareOf
<1>5. winnerStake = SumOver(stakes, W)
  BY DEF ClaimsBooked, StakeOf
<1>6. \A u \in W : shares[u] = won[u]
  BY <1>2
<1>7. \A u \in Users \ W : shares[u] = 0
  OBVIOUS
<1>. HIDE DEF W, stakes, won, shares, pool, winnerStake
<1>8. \A u \in W : won[u] \in Nat
  BY <1>1, <1>3, <1>4, ShareNat
<1>9. \A u \in W : won[u] * winnerStake <= stakes[u] * pool
  BY <1>1, <1>3, <1>4, ShareFloor
<1>10. SumOver(won, W) * winnerStake <= winnerStake * pool
  BY <1>1, <1>2, <1>3, <1>5, <1>8, <1>9, SumOverScaled
<1>11. SumOver(won, W) \in Nat
  BY <1>2, <1>8, SumOverNat
<1>12. SumOver(won, W) <= pool
  BY <1>1, <1>10, <1>11
<1>13. \A u \in Users : shares[u] \in Nat
  BY <1>6, <1>7, <1>8
<1>14. SumOver(won, W) = SumOver(shares, Users)
  BY <1>2, <1>6, <1>7, <1>13, SumOverWithin
<1>. QED
  BY <1>12, <1>14 DEF shares, W, pool

(* What is claimed and what may still be claimed is what all winners get.  *)
LEMMA SharesInvIsEnough ==
    ASSUME MatchesTypeOK, SharesInv
    PROVE  WinnersStayCovered
<1>. SUFFICES ASSUME NEW m \in Registered, ClaimsBooked(m)
              PROVE  LET open == {u \in WinnersOf(m) : ~bets[<<u, m>>].claimed}
                     IN  matches[m].total_claimed
                             + SumOver([u \in open |-> ShareOf(u, m)], open)
                                 <= matches[m].match_prize_pool
  BY DEF WinnersStayCovered, SharesInv, SharesBooked, WinnersOf
<1>. DEFINE open == {u \in WinnersOf(m) : ~bets[<<u, m>>].claimed}
            owed == [u \in open |-> ShareOf(u, m)]
            unclaimed == [u \in Users |->
                IF u \in WinnersOf(m) /\ ~bets[<<u, m>>].claimed THEN ShareOf(u, m) ELSE 0]
            shares == [u \in Users |-> IF u \in WinnersOf(m) THEN ShareOf(u, m) ELSE 0]
            claimed == ClaimedShares(m)
<1>1. open \in SUBSET Users /\ IsFiniteSet(Users)
  BY WinnersAreUsers
<1>2. \A u \in WinnersOf(m) : ShareOf(u, m) \in Nat
  <2>. SUFFICES ASSUME NEW u \in WinnersOf(m)
                PROVE  ShareOf(u, m) \in Nat
    OBVIOUS
  <2>1. u \in Bettors(m) /\ matches[m].total_winner_stake # 0
    BY WinnersAreUsers DEF ClaimsBooked
  <2>. QED
    BY <2>1, ShareOfNat
<1>3. \A u \in Users : claimed[u] \in Nat /\ unclaimed[u] \in Nat
  BY <1>2 DEF ClaimedShares
<1>4. \A u \in Users : shares[u] = claimed[u] + unclaimed[u]
  <2>. SUFFICES ASSUME NEW u \in Users
                PROVE  shares[u] = claimed[u] + unclaimed[u]
    OBVIOUS
  <2>1. CASE u \notin WinnersOf(m)
    BY <2>1 DEF ClaimedShares
  <2>2. CASE u \in WinnersOf(m) /\ bets[<<u, m>>].claimed
    BY <1>2, <2>2 DEF ClaimedShares
  <2>3. CASE u \in WinnersOf(m) /\ ~bets[<<u, m>>].claimed
    BY <1>2, <2>3 DEF ClaimedShares
  <2>. QED
    BY <2>1, <2>2, <2>3
<1>5. \A u \in open : owed[u] = unclaimed[u]
  BY <1>1
<1>6. \A u \in Users \ open : unclaimed[u] = 0
  OBVIOUS
<1>7. SumOver(shares, Users) <= matches[m].match_prize_pool
  BY SharesFit
<1>8. matches[m].total_claimed = SumOver(claimed, Users)
  BY DEF ClaimsBooked
<1>. HIDE DEF open, owed, unclaimed, shares, claimed
<1>9. SumOver(owed, open) = SumOver(unclaimed, Users)
  BY <1>1, <1>3, <1>5, <1>6, SumOverWithin
<1>10. SumOver(shares, Users) = SumOver(claimed, Users) + SumOver(unclaimed, Users)
  BY <1>1, <1>3, <1>4, SumOverPlus
<1>11. matches[m].total_claimed + SumOver(owed, open) <= matches[m].match_prize_pool
  BY <1>7, <1>8, <1>9, <1>10
<1>. QED
  BY <1>11 DEF open, owed

(* A step that changes neither the result, the pool and the books of m nor *)
(* the bets on it keeps its claims booked.                                 *)
LEMMA BookedKept ==
    ASSUME NEW m \in MatchIds, ClaimsBooked(m), Weight(m)' = Weight(m),
           \A u \in Users : bets'[<<u, m>>] = bets[<<u, m>>],
           matches'[m].result = matches[m].result,
           matches'[m].match_prize_pool = matches[m].match_prize_pool,
           matches'[m].total_winner_stake = matches[m].total_winner_stake,
           matches'[m].total_claimed = matches[m].total_claimed
    PROVE  ClaimsBooked(m)'
<1>1. WinnersOf(m)' = WinnersOf(m)
  BY DEF WinnersOf, Winners, Bettors, Eligible
<1>2. WinnersOf(m) \subseteq Users
  BY DEF WinnersOf, Winners, Bettors
<1>3. \A u \in Users : ShareOf(u, m)' = ShareOf(u, m)
  BY DEF ShareOf
<1>4. ClaimedShares(m)' = ClaimedShares(m)
  BY <1>1, <1>3 DEF ClaimedShares
<1>5. StakeOf(WinnersOf(m), m)' = StakeOf(WinnersOf(m), m)
  <2>1. [u \in WinnersOf(m) |-> bets'[<<u, m>>].stake_in_match_pool]
            = [u \in WinnersOf(m) |-> bets[<<u, m>>].stake_in_match_pool]
    BY <1>2
  <2>. QED
    BY <1>1, <2>1 DEF StakeOf
<1>. QED
  BY <1>4, <1>5 DEF ClaimsBooked

(* A match that a step leaves alone. *)
LEMMA Untouched ==
    ASSUME SharesInv, NEW m \in Registered, Weight(m)' = Weight(m),
           \A u \in Users : bets'[<<u, m>>] = bets[<<u, m>>],
           matches'[m] = matches[m]
    PROVE  SharesBooked(m)'
<1>1. SharesBooked(m) /\ m \in MatchIds
  BY DEF SharesInv, Registered
<1>2. ClaimsBooked(m) => ClaimsBooked(m)'
  BY <1>1, BookedKept
<1>. QED
  BY <1>1, <1>2 DEF SharesBooked, Status

LEMMA AddedShares ==
    ASSUME MatchesInv, SharesInv, PhaseAdded \/ MatchAdded
    PROVE  SharesInv'
<1>1. CASE PhaseAdded
  <2>. SUFFICES ASSUME NEW m \in Registered
                PROVE  SharesBooked(m)'
    BY <1>1 DEF SharesInv, PhaseAdded, Registered
  <2>1. Weight(m) # 0
    BY DEF SharesInv, SharesBooked
  <2>2. Weight(m)' = Weight(m)
    BY <1>1, <2>1, MatchTyped DEF PhaseAdded, Weight, MatchesInv, MatchesTypeOK, Matches
  <2>. QED
    BY <1>1, <2>2, Untouched DEF PhaseAdded
<1>2. CASE MatchAdded
  <2>1. PICK phase \in PhaseNames, kickOff \in KickOffs, n \in MatchIds \ Registered :
            phases[phase] # 0 /\ matches' = [matches EXCEPT ![n] = NewMatch(phase, kickOff)]
    BY <1>2 DEF MatchAdded
  <2>2. matches'[n] = NewMatch(phase, kickOff)
    BY <2>1 DEF MatchesInv, MatchesTypeOK
  <2>3. \A m \in MatchIds \ {n} : matches'[m] = matches[m]
    BY <2>1 DEF MatchesInv, MatchesTypeOK
  <2>4. SharesBooked(n)'
    BY <1>2, <2>1, <2>2 DEF SharesBooked, Weight, Status, NewMatch, Unresolved, MatchAdded
  <2>5. ASSUME NEW m \in Registered', m # n
        PROVE  SharesBooked(m)'
    <3>1. m \in Registered /\ matches'[m] = matches[m]
      BY <2>3, <2>5 DEF Registered
    <3>2. Weight(m)' = Weight(m) /\ UNCHANGED bets
      BY <1>2, <3>1 DEF Weight, MatchAdded
    <3>. QED
      BY <3>1, <3>2, Untouched
  <2>. QED
    BY <2>4, <2>5 DEF SharesInv
<1>. QED
  BY <1>1, <1>2

(* The other moves register nothing; most of them touch one match only.    *)
LEMMA OneTouched ==
    ASSUME MatchesInv, SharesInv, UNCHANGED phases, NEW n \in MatchIds, Registered' = Registered,
           \A m \in MatchIds \ {n} : matches'[m] = matches[m],
           \A u \in Users, m \in MatchIds \ {n} : bets'[<<u, m>>] = bets[<<u, m>>],
           n \in Registered => SharesBooked(n)'
    PROVE  SharesInv'
<1>. SUFFICES ASSUME NEW m \in Registered, m # n
              PROVE  SharesBooked(m)'
  BY DEF SharesInv
<1>1. m \in MatchIds \ {n}
  BY DEF Registered
<1>2. Weight(m)' = Weight(m)
  BY <1>1 DEF Weight
<1>. QED
  BY <1>1, <1>2, Untouched

(* No bet is placed on a match with a result, which has kicked off. *)
LEMMA PlacedShares ==
    ASSUME MatchesInv, KickedOff, now \in Nat, SharesInv,
           NEW u \in Users, NEW n \in MatchIds, BetPlaced(u, n)
    PROVE  SharesInv'
<1>1. PICK p \in Guesses, stake \in Nat, principal \in Nat :
          RecordBet(u, n, p, stake, principal)
  BY DEF BetPlaced
<1>2. n \in Registered /\ BettingOpen(n) /\ matches[n] \in Matches
  BY MatchTyped DEF BetPlaced, MatchesInv
<1>3. Registered' = Registered
  BY <1>1, <1>2, RecordBetTyped DEF MatchesInv, MatchesKept
<1>4. Status(n) \notin {"Proposed", "Finalized"}
  BY <1>2, MatchesAssumption DEF KickedOff, BettingOpen, SaturatingSub, Matches
<1>5. matches'[n] = [matches[n] EXCEPT !.match_prize_pool = @ + stake]
  BY <1>1 DEF RecordBet, MatchesInv, MatchesTypeOK
<1>6. /\ \A m \in MatchIds \ {n} : matches'[m] = matches[m]
      /\ \A v \in Users, m \in MatchIds \ {n} : bets'[<<v, m>>] = bets[<<v, m>>]
  BY <1>1 DEF RecordBet, MatchesInv, MatchesTypeOK
<1>7. SharesBooked(n)'
  <2>1. SharesBooked(n)
    BY <1>2 DEF SharesInv
  <2>2. /\ matches'[n].result = matches[n].result
        /\ matches'[n].total_claimed = matches[n].total_claimed
        /\ matches'[n].phase = matches[n].phase
    BY <1>2, <1>5 DEF Matches
  <2>. QED
    BY <1>4, <2>1, <2>2 DEF SharesBooked, Status, Weight, BetPlaced
<1>. QED
  BY <1>3, <1>6, <1>7, OneTouched DEF BetPlaced

(* A result proposed or withdrawn, a pool swept. *)
LEMMA SettledShares ==
    ASSUME MatchesInv, SharesInv, NEW n \in MatchIds, ResultSet(n) \/ PoolSwept(n)
    PROVE  SharesInv'
<1>1. n \in Registered /\ matches[n] \in Matches /\ SharesBooked(n)
  BY MatchTyped DEF ResultSet, PoolSwept, MatchesInv, SharesInv
<1>2. ASSUME NEW new \in Matches, matches' = [matches EXCEPT ![n] = new],
             UNCHANGED phases, UNCHANGED bets,
             new.phase = matches[n].phase, new.total_claimed = matches[n].total_claimed,
             new.result.status # "Finalized" \/ new.dust_swept,
             new.result.status \in Undecided => Status(n) \in Undecided
      PROVE  SharesInv'
  <2>1. Registered' = Registered
    BY <1>1, <1>2, UpdateMatch DEF MatchesInv, MatchesKept
  <2>2. matches'[n] = new /\ \A m \in MatchIds \ {n} : matches'[m] = matches[m]
    BY <1>2 DEF MatchesInv, MatchesTypeOK
  <2>3. SharesBooked(n)'
    BY <1>1, <1>2, <2>2 DEF SharesBooked, Status, Weight
  <2>. QED
    BY <1>2, <2>1, <2>2, <2>3, OneTouched
<1>3. CASE ResultSet(n)
  <2>1. PICK r \in Results : r.status \in Undecided /\ matches' = [matches EXCEPT ![n].result = r]
    BY <1>3 DEF ResultSet
  <2>. DEFINE new == [matches[n] EXCEPT !.result = r]
  <2>2. /\ new \in Matches /\ new.result = r /\ new.phase = matches[n].phase
        /\ new.total_claimed = matches[n].total_claimed
    BY <1>1, <2>1 DEF Matches
  <2>3. matches' = [matches EXCEPT ![n] = new]
    BY <2>1
  <2>4. Status(n) \in Undecided /\ UNCHANGED phases /\ UNCHANGED bets
    BY <1>3 DEF ResultSet
  <2>. HIDE DEF new
  <2>. QED
    BY <1>2, <2>1, <2>2, <2>3, <2>4 DEF Undecided
<1>4. CASE PoolSwept(n)
  <2>. DEFINE new == [matches[n] EXCEPT !.match_prize_pool = 0, !.dust_swept = TRUE]
  <2>1. /\ new \in Matches /\ new.result = matches[n].result /\ new.phase = matches[n].phase
        /\ new.total_claimed = matches[n].total_claimed /\ new.dust_swept
    BY <1>1 DEF Matches
  <2>2. matches' = [matches EXCEPT ![n] = new] /\ UNCHANGED phases /\ UNCHANGED bets
    BY <1>4 DEF PoolSwept
  <2>. HIDE DEF new
  <2>. QED
    BY <1>2, <2>1, <2>2 DEF Status
<1>. QED
  BY <1>3, <1>4

(* A cancelled match pays no shares. *)
LEMMA VoidedShares ==
    ASSUME MatchesInv, SharesInv, NEW n \in MatchIds, MatchVoided(n)
    PROVE  SharesInv'
<1>1. PICK caller \in Accounts : VoidMatch(caller, n)
  BY DEF MatchVoided
<1>2. n \in Registered /\ matches[n] \in Matches /\ SharesBooked(n)
  BY <1>1, MatchTyped DEF VoidMatch, MatchesInv, SharesInv
<1>3. Registered' = Registered
  BY <1>1, VoidTyped DEF MatchesInv, MatchesKept
<1>4. /\ \A m \in MatchIds \ {n} : matches'[m] = matches[m]
      /\ \A v \in Users, m \in MatchIds \ {n} : bets'[<<v, m>>] = bets[<<v, m>>]
  BY <1>1 DEF VoidMatch, MatchesInv, MatchesTypeOK
<1>5. matches'[n].result.status = "Cancelled" /\ matches'[n].phase = matches[n].phase
  BY <1>1, <1>2 DEF VoidMatch, Cancelled, Matches, MatchesInv, MatchesTypeOK
<1>6. SharesBooked(n)'
  BY <1>2, <1>5 DEF SharesBooked, Status, Weight, Undecided, MatchVoided
<1>. QED
  BY <1>3, <1>4, <1>6, OneTouched DEF MatchVoided

(* finalize_result fixes the winner stake before anybody has claimed.      *)
LEMMA FinalizedShares ==
    ASSUME MatchesInv, OpenUntilDecided, SharesInv, NEW n \in MatchIds, FinalizeResult(n)
    PROVE  SharesInv'
<1>. DEFINE f == matches[n].result.final
<1>1. n \in Registered /\ matches[n] \in Matches /\ SharesBooked(n) /\ Status(n) = "Proposed"
  BY MatchTyped DEF FinalizeResult, MatchesInv, SharesInv
<1>2. UNCHANGED phases /\ UNCHANGED bets
  BY DEF FinalizeResult, boardVars
<1>3. \A m \in MatchIds \ {n} : matches'[m] = matches[m]
  BY DEF FinalizeResult, MatchesInv, MatchesTypeOK
<1>4. /\ matches'[n].result = Finalized(f)
      /\ matches'[n].phase = matches[n].phase
      /\ matches'[n].total_claimed = matches[n].total_claimed
      /\ matches'[n].total_winner_stake = WinnerStake(n, f)
      /\ matches'[n].dust_swept = (matches[n].dust_swept \/ WinnerStake(n, f) = 0)
  BY <1>1 DEF FinalizeResult, MatchesInv, MatchesTypeOK, Matches
<1>5. Registered' = Registered
  <2>1. n \in Registered'
    BY <1>1, FinalizeTyped DEF MatchesInv, StepTyped
  <2>. QED
    BY <1>1, <1>3, <2>1 DEF Registered
<1>6. ClaimsBooked(n)' \/ matches'[n].dust_swept
  <2>. SUFFICES ASSUME WinnerStake(n, f) # 0
                PROVE  ClaimsBooked(n)'
    BY <1>4
  <2>1. WinnersOf(n)' = WinnersOf(n) /\ WinnersOf(n) = Winners(n, f)
    BY <1>2, <1>4 DEF WinnersOf, Winners, Bettors, Eligible, Weight, Finalized
  <2>2. WinnersOf(n) \subseteq Bettors(n)
    BY DEF WinnersOf, Winners
  <2>3. StakeOf(WinnersOf(n), n)' = WinnerStake(n, f)
    BY <1>2, <2>1 DEF StakeOf, WinnerStake
  <2>4. \A u \in Users : ClaimedShares(n)'[u] = 0
    BY <1>1, <1>2, <2>1, <2>2 DEF ClaimedShares, OpenUntilDecided, Bettors
  <2>5. SumOver(ClaimedShares(n)', Users) = 0
    BY <2>4, SumOverZero, MatchesAssumption
  <2>6. matches'[n].total_claimed = 0
    BY <1>1, <1>4 DEF SharesBooked, Undecided
  <2>. QED
    BY <1>4, <2>3, <2>5, <2>6 DEF ClaimsBooked
<1>7. SharesBooked(n)'
  BY <1>1, <1>2, <1>4, <1>6 DEF SharesBooked, Status, Weight, Finalized, Undecided
<1>. QED
  BY <1>2, <1>3, <1>5, <1>7, OneTouched

(* A claim adds one winner's share, once. *)
LEMMA PaidShares ==
    ASSUME MatchesInv, SharesInv, NEW u \in Users, NEW n \in MatchIds, BetClaimed(u, n)
    PROVE  SharesInv'
<1>1. /\ n \in Registered /\ matches[n] \in Matches /\ SharesBooked(n)
      /\ Status(n) = "Finalized" /\ u \in WinnersOf(n) /\ ~bets[<<u, n>>].claimed
      /\ ShareOf(u, n) \in Nat /\ bets[<<u, n>>] \in Bets
  <2>1. n \in Registered /\ bets[<<u, n>>] # NoBet /\ ShareOf(u, n) \in Nat
    BY ClaimableTyped DEF BetClaimed, MatchesInv
  <2>2. matches[n] \in Matches /\ bets[<<u, n>>] \in Bets
    BY <2>1, MatchTyped, BettorsBet DEF MatchesInv
  <2>. QED
    BY <2>1, <2>2 DEF BetClaimed, Claimable, SharesInv, WinnersOf, Winners, Bettors
<1>2. MatchesKept
  BY <1>1, MarkClaimedTyped DEF BetClaimed, MatchesInv, Claimable
<1>3. /\ \A m \in MatchIds \ {n} : matches'[m] = matches[m]
      /\ \A v \in Users, m \in MatchIds \ {n} : bets'[<<v, m>>] = bets[<<v, m>>]
      /\ \A v \in Users \ {u} : bets'[<<v, n>>] = bets[<<v, n>>]
  BY DEF BetClaimed, MarkClaimed, MatchesInv, MatchesTypeOK
<1>4. bets'[<<u, n>>] = [bets[<<u, n>>] EXCEPT !.claimed = TRUE]
  BY DEF BetClaimed, MarkClaimed, MatchesInv, MatchesTypeOK
<1>5. /\ bets'[<<u, n>>].claimed
      /\ bets'[<<u, n>>].stake_in_match_pool = bets[<<u, n>>].stake_in_match_pool
      /\ bets'[<<u, n>>].prediction = bets[<<u, n>>].prediction
      /\ bets'[<<u, n>>] # NoBet
  BY <1>1, <1>4, MarkerAssumption DEF Bets
<1>6. /\ matches'[n].result = matches[n].result
      /\ matches'[n].phase = matches[n].phase
      /\ matches'[n].match_prize_pool = matches[n].match_prize_pool
      /\ matches'[n].total_winner_stake = matches[n].total_winner_stake
      /\ matches'[n].dust_swept = matches[n].dust_swept
      /\ matches'[n].total_claimed = matches[n].total_claimed + ShareOf(u, n)
  BY <1>1 DEF BetClaimed, MarkClaimed, MatchesInv, MatchesTypeOK, Matches
<1>7. UNCHANGED phases
  BY DEF BetClaimed
<1>8. ASSUME ClaimsBooked(n)
      PROVE  ClaimsBooked(n)'
  <2>1. \A v \in Users : /\ bets'[<<v, n>>].stake_in_match_pool = bets[<<v, n>>].stake_in_match_pool
                         /\ bets'[<<v, n>>].prediction = bets[<<v, n>>].prediction
                         /\ bets'[<<v, n>>] # NoBet <=> bets[<<v, n>>] # NoBet
    BY <1>1, <1>3, <1>5, MarkerAssumption
  <2>2. WinnersOf(n)' = WinnersOf(n) /\ WinnersOf(n) \subseteq Users
    BY <1>6, <1>7, <2>1 DEF WinnersOf, Winners, Bettors, Eligible, Weight
  <2>3. StakeOf(WinnersOf(n), n)' = StakeOf(WinnersOf(n), n)
    <3>1. [v \in WinnersOf(n) |-> bets'[<<v, n>>].stake_in_match_pool]
              = [v \in WinnersOf(n) |-> bets[<<v, n>>].stake_in_match_pool]
      BY <2>1, <2>2
    <3>. QED
      BY <2>2, <3>1 DEF StakeOf
  <2>4. \A v \in Users : ShareOf(v, n)' = ShareOf(v, n)
    BY <1>6, <2>1 DEF ShareOf
  <2>5. ClaimedShares(n)[u] = 0 /\ ClaimedShares(n)'[u] = ShareOf(u, n)
    BY <1>1, <1>5, <2>2, <2>4 DEF ClaimedShares
  <2>6. \A v \in Users \ {u} : ClaimedShares(n)'[v] = ClaimedShares(n)[v]
    BY <1>3, <2>2, <2>4 DEF ClaimedShares
  <2>7. \A v \in Users : ClaimedShares(n)[v] \in Nat
    <3>. SUFFICES ASSUME NEW v \in WinnersOf(n)
                  PROVE  ShareOf(v, n) \in Nat
      BY DEF ClaimedShares
    <3>1. v \in Bettors(n) /\ matches[n].total_winner_stake # 0
      BY <1>1, <1>8, WinnersAreUsers DEF ClaimsBooked, MatchesInv
    <3>. QED
      BY <1>1, <3>1, ShareOfNat DEF MatchesInv
  <2>8. \A v \in Users : ClaimedShares(n)'[v] \in Nat
    BY <1>1, <2>5, <2>6, <2>7
  <2>9. IsFiniteSet(Users)
    BY MatchesAssumption
  <2>10. SumOver(ClaimedShares(n)', Users)
             = SumOver(ClaimedShares(n), Users) - ClaimedShares(n)[u] + ClaimedShares(n)'[u]
    BY <2>6, <2>7, <2>8, <2>9, SumOverChange
  <2>11. SumOver(ClaimedShares(n), Users) \in Nat
    BY <2>7, <2>9, SumOverNat
  <2>12. matches'[n].total_claimed = SumOver(ClaimedShares(n)', Users)
    <3>. HIDE DEF ClaimedShares
    <3>. QED
      BY <1>1, <1>6, <1>8, <2>5, <2>10, <2>11 DEF ClaimsBooked
  <2>. QED
    BY <1>6, <1>8, <2>3, <2>12 DEF ClaimsBooked
<1>9. SharesBooked(n)'
  BY <1>1, <1>6, <1>7, <1>8 DEF SharesBooked, Status, Weight, Undecided
<1>. QED
  BY <1>2, <1>3, <1>7, <1>9, OneTouched DEF MatchesKept

LEMMA SharesStep ==
    ASSUME MatchesInv, KickedOff, OpenUntilDecided, SharesInv, [MatchesNext]_allMatchesVars
    PROVE  SharesInv'
<1>1. CASE UNCHANGED <<phases, matches, bets, refundVars>> \/ \E u \in Users : RefundSent(u)
  <2>1. UNCHANGED <<phases, matches, bets>>
    BY <1>1 DEF RefundSent
  <2>2. ASSUME NEW m \in Registered
        PROVE  SharesBooked(m)'
    BY <2>1, Untouched DEF Weight
  <2>. QED
    BY <2>1, <2>2 DEF SharesInv, Registered
<1>. QED
  BY <1>1, StepMoney, TimePasses, AddedShares, PlacedShares, SettledShares, VoidedShares,
     FinalizedShares, PaidShares DEF MoneyMoves

----------------------------------------------------------------------------
(* Pools. *)

StakesIn(m) ==
    [u \in Users |-> IF bets[<<u, m>>] = NoBet THEN 0 ELSE bets[<<u, m>>].stake_in_match_pool]

\* Until a match is decided its pool is what the bettors put in; a swept pool
\* stays empty.
PoolHeld(m) ==
    /\ Status(m) \in Undecided =>
          /\ ~matches[m].settlement_prepared /\ ~matches[m].dust_swept
          /\ matches[m].match_prize_pool = SumOver(StakesIn(m), Users)
    /\ Status(m) = "Finalized" /\ matches[m].dust_swept => matches[m].match_prize_pool = 0

PoolsInv ==
    /\ \A u \in Users, m \in MatchIds : bets[<<u, m>>] # NoBet => m \in Registered
    /\ \A m \in Registered : PoolHeld(m)

\* Stakes as a function of any bets, to be read before and after a step.
LEMMA StakesNat ==
    ASSUME NEW bs \in [Users \X MatchIds -> Bets \cup {NoBet}], NEW m \in MatchIds, NEW u \in Users
    PROVE  (IF bs[<<u, m>>] = NoBet THEN 0 ELSE bs[<<u, m>>].stake_in_match_pool) \in Nat
<1>1. bs[<<u, m>>] \in Bets \cup {NoBet}
  OBVIOUS
<1>. QED
  BY <1>1 DEF Bets

(* A step that registers nothing and leaves m and the bets on it alone.    *)
LEMMA HeldKept ==
    ASSUME NEW m \in Registered, PoolHeld(m), matches'[m] = matches[m],
           \A u \in Users : bets'[<<u, m>>] = bets[<<u, m>>]
    PROVE  PoolHeld(m)'
<1>1. StakesIn(m)' = StakesIn(m)
  BY DEF StakesIn
<1>. QED
  BY <1>1 DEF PoolHeld, Status

LEMMA AddedPools ==
    ASSUME MatchesInv, PoolsInv, PhaseAdded \/ MatchAdded
    PROVE  PoolsInv'
<1>1. CASE PhaseAdded
  BY <1>1, HeldKept DEF PoolsInv, PhaseAdded, Registered
<1>2. CASE MatchAdded
  <2>1. PICK phase \in PhaseNames, kickOff \in KickOffs, n \in MatchIds \ Registered :
            matches' = [matches EXCEPT ![n] = NewMatch(phase, kickOff)]
    BY <1>2 DEF MatchAdded
  <2>2. matches'[n] = NewMatch(phase, kickOff)
    BY <2>1 DEF MatchesInv, MatchesTypeOK
  <2>3. \A m \in MatchIds \ {n} : matches'[m] = matches[m]
    BY <2>1 DEF MatchesInv, MatchesTypeOK
  <2>4. Registered \subseteq Registered' /\ UNCHANGED bets
    BY <1>2, <2>3 DEF Registered, MatchAdded
  <2>5. PoolHeld(n)'
    <3>1. \A u \in Users : StakesIn(n)'[u] = 0
      BY <2>1, <2>4 DEF StakesIn, PoolsInv
    <3>2. SumOver(StakesIn(n)', Users) = 0
      BY <3>1, SumOverZero, MatchesAssumption
    <3>. QED
      BY <2>2, <3>2 DEF PoolHeld, NewMatch, Status, Unresolved
  <2>6. ASSUME NEW m \in Registered', m # n
        PROVE  PoolHeld(m)'
    <3>1. m \in Registered /\ matches'[m] = matches[m]
      BY <2>3, <2>6 DEF Registered
    <3>. QED
      BY <2>4, <3>1, HeldKept DEF PoolsInv
  <2>. QED
    BY <2>4, <2>5, <2>6 DEF PoolsInv
<1>. QED
  BY <1>1, <1>2

LEMMA OneHeld ==
    ASSUME MatchesInv, PoolsInv, NEW n \in MatchIds, Registered' = Registered,
           \A m \in MatchIds \ {n} : matches'[m] = matches[m],
           \A u \in Users, m \in MatchIds \ {n} : bets'[<<u, m>>] = bets[<<u, m>>],
           n \in Registered, PoolHeld(n)'
    PROVE  PoolsInv'
<1>1. ASSUME NEW m \in Registered, m # n
      PROVE  PoolHeld(m)'
  <2>1. m \in MatchIds \ {n} /\ PoolHeld(m)
    BY <1>1 DEF Registered, PoolsInv
  <2>. QED
    BY <1>1, <2>1, HeldKept
<1>2. ASSUME NEW u \in Users, NEW m \in MatchIds, bets'[<<u, m>>] # NoBet
      PROVE  m \in Registered'
  BY <1>2 DEF PoolsInv
<1>. QED
  BY <1>1, <1>2 DEF PoolsInv

LEMMA PlacedPools ==
    ASSUME MatchesInv, KickedOff, now \in Nat, PoolsInv, NEW u \in Users, NEW n \in MatchIds, BetPlaced(u, n)
    PROVE  PoolsInv'
<1>1. PICK p \in Guesses, stake \in Nat, principal \in Nat :
          RecordBet(u, n, p, stake, principal)
  BY DEF BetPlaced
<1>2. n \in Registered /\ matches[n] \in Matches /\ PoolHeld(n) /\ bets[<<u, n>>] = NoBet
  BY MatchTyped DEF BetPlaced, MatchesInv, PoolsInv
<1>3. Registered' = Registered /\ BetsKept
  BY <1>1, <1>2, RecordBetTyped DEF MatchesInv, MatchesKept
<1>4. matches'[n] = [matches[n] EXCEPT !.match_prize_pool = @ + stake]
  BY <1>1 DEF RecordBet, MatchesInv, MatchesTypeOK
<1>5. /\ \A m \in MatchIds \ {n} : matches'[m] = matches[m]
      /\ \A v \in Users, m \in MatchIds \ {n} : bets'[<<v, m>>] = bets[<<v, m>>]
      /\ \A v \in Users \ {u} : bets'[<<v, n>>] = bets[<<v, n>>]
      /\ bets'[<<u, n>>].stake_in_match_pool = stake
  BY <1>1 DEF RecordBet, MatchesInv, MatchesTypeOK
<1>6. bets'[<<u, n>>] # NoBet
  <2>. DEFINE bet == [prediction |-> p, stake_in_match_pool |-> stake,
                      freebet_principal |-> principal, claimed |-> FALSE]
  <2>1. p \in Predictions
    BY MatchesAssumption
  <2>2. bet \in Bets
    BY <2>1 DEF Bets
  <2>3. bets'[<<u, n>>] = bet
    BY <1>1 DEF RecordBet, MatchesInv, MatchesTypeOK
  <2>. QED
    BY <2>2, <2>3, MarkerAssumption
<1>7. SumOver(StakesIn(n)', Users) = SumOver(StakesIn(n), Users) + stake
  <2>1. StakesIn(n)[u] = 0 /\ StakesIn(n)'[u] = stake
    BY <1>2, <1>5, <1>6 DEF StakesIn
  <2>2. \A v \in Users \ {u} : StakesIn(n)'[v] = StakesIn(n)[v]
    BY <1>5 DEF StakesIn
  <2>3. \A v \in Users : StakesIn(n)[v] \in Nat
    BY StakesNat DEF StakesIn, MatchesInv, MatchesTypeOK
  <2>4. \A v \in Users : StakesIn(n)'[v] \in Nat
    BY <2>1, <2>2, <2>3
  <2>5. IsFiniteSet(Users)
    BY MatchesAssumption
  <2>6. SumOver(StakesIn(n)', Users)
            = SumOver(StakesIn(n), Users) - StakesIn(n)[u] + StakesIn(n)'[u]
    BY <2>2, <2>3, <2>4, <2>5, SumOverChange
  <2>7. SumOver(StakesIn(n), Users) \in Nat
    BY <2>3, <2>5, SumOverNat
  <2>. HIDE DEF StakesIn
  <2>. QED
    BY <2>1, <2>6, <2>7
<1>8. PoolHeld(n)'
  <2>1. /\ matches'[n].result = matches[n].result
        /\ matches'[n].settlement_prepared = matches[n].settlement_prepared
        /\ matches'[n].dust_swept = matches[n].dust_swept
        /\ matches'[n].match_prize_pool = matches[n].match_prize_pool + stake
    BY <1>2, <1>4 DEF Matches
  <2>2. BettingOpen(n)
    BY DEF BetPlaced
  <2>3. Status(n) # "Finalized"
    BY <1>2, <2>2, MatchesAssumption DEF KickedOff, BettingOpen, SaturatingSub, Matches
  <2>. QED
    BY <1>2, <1>7, <2>1, <2>3 DEF PoolHeld, Status
<1>. QED
  BY <1>2, <1>3, <1>5, <1>8, OneHeld

(* The other moves of one match: a result that stays open keeps the pool.  *)
LEMMA SettledPools ==
    ASSUME MatchesInv, MatchesInv', PoolsInv, NEW n \in MatchIds,
           \/ ResultSet(n) \/ PoolSwept(n) \/ MatchVoided(n) \/ FinalizeResult(n)
           \/ \E u \in Users : BetClaimed(u, n)
    PROVE  PoolsInv'
<1>1. n \in Registered /\ matches[n] \in Matches /\ PoolHeld(n)
  <2>1. n \in Registered
    BY DEF ResultSet, PoolSwept, MatchVoided, VoidMatch, FinalizeResult, BetClaimed, Claimable
  <2>. QED
    BY <2>1, MatchTyped DEF MatchesInv, PoolsInv
<1>2. \A m \in MatchIds \ {n} : matches'[m] = matches[m]
  <2>1. CASE MatchVoided(n)
    BY <2>1 DEF MatchVoided, VoidMatch, MatchesInv, MatchesTypeOK
  <2>2. CASE FinalizeResult(n)
    BY <2>2 DEF FinalizeResult, MatchesInv, MatchesTypeOK
  <2>3. CASE ResultSet(n) \/ PoolSwept(n)
    BY <2>3 DEF ResultSet, PoolSwept, MatchesInv, MatchesTypeOK
  <2>4. CASE \E u \in Users : BetClaimed(u, n)
    BY <2>4 DEF BetClaimed, MarkClaimed, MatchesInv, MatchesTypeOK
  <2>. QED
    BY <2>1, <2>2, <2>3, <2>4
<1>3. \A v \in Users, m \in MatchIds \ {n} : bets'[<<v, m>>] = bets[<<v, m>>]
  <2>1. CASE MatchVoided(n)
    BY <2>1 DEF MatchVoided, VoidMatch
  <2>2. CASE ResultSet(n) \/ PoolSwept(n) \/ FinalizeResult(n)
    BY <2>2 DEF ResultSet, PoolSwept, FinalizeResult
  <2>3. CASE \E u \in Users : BetClaimed(u, n)
    BY <2>3 DEF BetClaimed, MarkClaimed, MatchesInv, MatchesTypeOK
  <2>. QED
    BY <2>1, <2>2, <2>3
<1>4. CASE ResultSet(n)
  <2>1. PICK r \in Results : /\ r.status \in Undecided
                             /\ matches' = [matches EXCEPT ![n].result = r]
    BY <1>4 DEF ResultSet
  <2>2. matches'[n] = [matches[n] EXCEPT !.result = r]
    BY <2>1 DEF MatchesInv, MatchesTypeOK
  <2>3. /\ matches'[n].settlement_prepared = matches[n].settlement_prepared
        /\ matches'[n].dust_swept = matches[n].dust_swept
        /\ matches'[n].match_prize_pool = matches[n].match_prize_pool
        /\ Status(n)' \in Undecided
    BY <1>1, <2>1, <2>2 DEF Matches, Status
  <2>4. matches'[n] # NoMatch
    BY <1>1, <1>4, NewResultTyped, <2>1 DEF MatchesInv, MatchesKept, Registered
  <2>5. StakesIn(n)' = StakesIn(n) /\ Status(n) \in Undecided
    BY <1>4 DEF StakesIn, ResultSet
  <2>6. PoolHeld(n)'
    BY <1>1, <2>3, <2>5 DEF PoolHeld, Undecided
  <2>7. Registered' = Registered
    BY <1>1, <1>2, <2>4 DEF Registered
  <2>. QED
    BY <1>1, <1>2, <1>3, <2>6, <2>7, OneHeld
<1>5. CASE PoolSwept(n)
  <2>. DEFINE new == [matches[n] EXCEPT !.match_prize_pool = 0, !.dust_swept = TRUE]
  <2>1. new \in Matches /\ new.result = matches[n].result /\ new.match_prize_pool = 0
    BY <1>1 DEF Matches
  <2>2. matches'[n] = new
    BY <1>5 DEF PoolSwept, MatchesInv, MatchesTypeOK
  <2>. HIDE DEF new
  <2>3. Status(n) \notin Undecided
    BY <1>1, <1>5 DEF PoolSwept, PoolHeld
  <2>4. PoolHeld(n)'
    BY <2>1, <2>2, <2>3 DEF PoolHeld, Status
  <2>5. Registered' = Registered
    BY <1>1, <1>2, <2>1, <2>2, MarkerAssumption DEF Registered
  <2>. QED
    BY <1>1, <1>2, <1>3, <2>4, <2>5, OneHeld
<1>6. CASE MatchVoided(n)
  <2>1. PICK caller : VoidMatch(caller, n)
    BY <1>6 DEF MatchVoided
  <2>2. matches'[n].result.status = "Cancelled" /\ Registered' = Registered
    BY <1>1, <2>1, VoidMoves, VoidTyped DEF MatchesInv, MatchesKept
  <2>3. PoolHeld(n)'
    BY <2>2 DEF PoolHeld, Status, Undecided
  <2>. QED
    BY <1>1, <1>2, <1>3, <2>2, <2>3, OneHeld
<1>7. CASE FinalizeResult(n)
  <2>1. matches'[n].result.status = "Finalized" /\ n \in Registered'
    BY <1>1, <1>7, FinalizeMoves, FinalizeTyped DEF MatchesInv, StepTyped
  <2>2. Registered' = Registered
    BY <1>1, <1>2, <2>1 DEF Registered
  <2>3. /\ Status(n) = "Proposed"
        /\ matches'[n].dust_swept => matches[n].dust_swept \/ matches'[n].match_prize_pool = 0
    BY <1>1, <1>7 DEF FinalizeResult, MatchesInv, MatchesTypeOK, Matches
  <2>4. PoolHeld(n)'
    BY <1>1, <2>1, <2>3 DEF PoolHeld, Status, Undecided
  <2>. QED
    BY <1>1, <1>2, <1>3, <2>2, <2>4, OneHeld
<1>8. CASE \E u \in Users : BetClaimed(u, n)
  <2>1. PICK u \in Users : BetClaimed(u, n)
    BY <1>8
  <2>2. Registered' = Registered
    BY <1>1, <2>1, MarkClaimedTyped, ClaimableTyped DEF BetClaimed, MatchesInv, MatchesKept
  <2>3. /\ matches'[n].result = matches[n].result /\ Status(n) = "Finalized"
        /\ matches'[n].dust_swept = matches[n].dust_swept
        /\ matches'[n].match_prize_pool = matches[n].match_prize_pool
    BY <1>1, <2>1 DEF BetClaimed, MarkClaimed, Claimable, MatchesInv, MatchesTypeOK, Matches
  <2>4. PoolHeld(n)'
    BY <1>1, <2>3 DEF PoolHeld, Status, Undecided
  <2>. QED
    BY <1>1, <1>2, <1>3, <2>2, <2>4, OneHeld
<1>. QED
  BY <1>4, <1>5, <1>6, <1>7, <1>8

LEMMA PoolsStep ==
    ASSUME MatchesInv, MatchesInv', KickedOff, PoolsInv, [MatchesNext]_allMatchesVars
    PROVE  PoolsInv'
<1>1. CASE UNCHANGED <<phases, matches, bets, refundVars>> \/ \E u \in Users : RefundSent(u)
  <2>1. UNCHANGED <<matches, bets>>
    BY <1>1 DEF RefundSent
  <2>2. ASSUME NEW m \in Registered
        PROVE  PoolHeld(m)'
    BY <2>1, HeldKept DEF PoolsInv
  <2>. QED
    BY <2>1, <2>2 DEF PoolsInv, Registered
<1>. QED
  BY <1>1, StepMoney, TimePasses, AddedPools, PlacedPools, SettledPools DEF MoneyMoves

LEMMA MatchesInvNext ==
    ASSUME MatchesInv, [MatchesNext]_allMatchesVars
    PROVE  MatchesInv'
<1>1. CASE MatchesStep
  BY <1>1, MatchesStepFrame, AdminFrame, MatchesInvStep DEF MatchesInv
<1>2. CASE AdminNext /\ UNCHANGED matchesVars
  BY <1>2, AdminNextTyped, MatchesInvFrame DEF MatchesInv
<1>3. CASE UNCHANGED allMatchesVars
  BY <1>3, AdminFrame, MatchesInvFrame DEF MatchesInv, allMatchesVars
<1>. QED
  BY <1>1, <1>2, <1>3 DEF MatchesNext

LEMMA PoolsInit == MatchesInit => PoolsInv
BY DEF MatchesInit, PoolsInv, Registered

----------------------------------------------------------------------------
(* The books.  Every sum is one over a function of the state of a single   *)
(* match, wallet or call, so that a step changes a single term.            *)

\* What is left of the pool of a match.
LeftOf(match) ==
    IF match = NoMatch THEN 0 ELSE SaturatingSub(match.match_prize_pool, match.total_claimed)

\* What a suspended call has yet to send: the payout, and for cancel_match
\* the freebets that follow.
OwedBy(call) ==
    IF call = NoCall THEN 0
    ELSE call.payout + StakeOf(call.todo, call.match)

Left == [m \in MatchIds |-> LeftOf(matches[m])]
Owed == [s \in ReturnSlots |-> OwedBy(returns[s])]

Books ==
    protocol_fee_accumulated + final_prize_accumulated + SumOver(Left, MatchIds)
        + SumOver(pending_refunds, Users) + SumOver(Owed, ReturnSlots)

BooksInv == balance >= Books

LEMMA LeftNat ==
    ASSUME NEW match \in Matches \cup {NoMatch}
    PROVE  LeftOf(match) \in Nat
BY DEF LeftOf, Matches, SaturatingSub

LEMMA LeftChange ==
    ASSUME NEW ms \in [MatchIds -> Matches \cup {NoMatch}],
           NEW ns \in [MatchIds -> Matches \cup {NoMatch}],
           NEW n \in MatchIds, \A m \in MatchIds \ {n} : ns[m] = ms[m]
    PROVE  /\ SumOver([m \in MatchIds |-> LeftOf(ms[m])], MatchIds) \in Nat
           /\ SumOver([m \in MatchIds |-> LeftOf(ns[m])], MatchIds)
                  = SumOver([m \in MatchIds |-> LeftOf(ms[m])], MatchIds)
                        - LeftOf(ms[n]) + LeftOf(ns[n])
<1>. DEFINE f == [m \in MatchIds |-> LeftOf(ms[m])]
            g == [m \in MatchIds |-> LeftOf(ns[m])]
<1>1. \A m \in MatchIds : f[m] \in Nat /\ g[m] \in Nat
  BY LeftNat
<1>2. \A m \in MatchIds \ {n} : f[m] = g[m]
  OBVIOUS
<1>3. IsFiniteSet(MatchIds)
  BY MatchesAssumption
<1>4. f[n] = LeftOf(ms[n]) /\ g[n] = LeftOf(ns[n])
  OBVIOUS
<1>. HIDE DEF f, g
<1>5. SumOver(f, MatchIds) \in Nat
  BY <1>1, <1>3, SumOverNat
<1>6. SumOver(g, MatchIds) = SumOver(f, MatchIds) - f[n] + g[n]
  BY <1>1, <1>2, <1>3, SumOverChange
<1>. QED
  BY <1>4, <1>5, <1>6 DEF f, g

(* The stakes a call still returns, and how one of them leaves. *)
LEMMA StakeOfRemove ==
    ASSUME MatchesTypeOK, NEW m \in MatchIds, NEW us \in SUBSET Bettors(m), NEW u \in us
    PROVE  /\ StakeOf(us, m) = bets[<<u, m>>].stake_in_match_pool + StakeOf(us \ {u}, m)
           /\ StakeOf(us \ {u}, m) \in Nat
           /\ bets[<<u, m>>].stake_in_match_pool \in Nat
<1>. DEFINE f == [v \in us |-> bets[<<v, m>>].stake_in_match_pool]
            g == [v \in us \ {u} |-> bets[<<v, m>>].stake_in_match_pool]
<1>1. IsFiniteSet(us) /\ IsFiniteSet(us \ {u})
  BY MatchesAssumption, FS_Subset DEF Bettors
<1>2. \A v \in us : f[v] \in Nat
  BY BettorsBet DEF Bettors, Bets
<1>3. \A v \in us \ {u} : f[v] = g[v]
  OBVIOUS
<1>4. f[u] = bets[<<u, m>>].stake_in_match_pool
  OBVIOUS
<1>. HIDE DEF f, g
<1>5. SumOver(f, us) = f[u] + SumOver(f, us \ {u})
  BY <1>1, <1>2, SumOverRemove
<1>6. SumOver(f, us \ {u}) = SumOver(g, us \ {u})
  BY <1>1, <1>3, SumOverEqual
<1>7. SumOver(f, us \ {u}) \in Nat
  BY <1>1, <1>2, SumOverNat
<1>. QED
  BY <1>2, <1>4, <1>5, <1>6, <1>7 DEF StakeOf, f, g

LEMMA OwedNat ==
    ASSUME MatchesInv, NEW s \in ReturnSlots
    PROVE  OwedBy(returns[s]) \in Nat
<1>1. CASE returns[s] = NoCall
  BY <1>1 DEF OwedBy
<1>2. CASE returns[s] # NoCall
  <2>1. returns[s] \in Returns
    BY <1>2 DEF MatchesInv, MatchesTypeOK
  <2>2. returns[s].todo \in SUBSET Bettors(returns[s].match)
    BY <1>2, <2>1 DEF MatchesInv, ReturnsHaveBets, Bettors, Returns
  <2>3. StakeOf(returns[s].todo, returns[s].match) \in Nat
    BY <2>1, <2>2, StakeOfNat DEF MatchesInv, Returns
  <2>. QED
    BY <1>2, <2>1, <2>3 DEF OwedBy, Returns
<1>. QED
  BY <1>1, <1>2

(* A bet's stake never changes once placed. *)
StakesStay ==
    \A u \in Users, m \in MatchIds :
        bets[<<u, m>>] # NoBet
            => bets'[<<u, m>>].stake_in_match_pool = bets[<<u, m>>].stake_in_match_pool

LEMMA StakesStayStep ==
    ASSUME MatchesInv, MoneyMoves
    PROVE  StakesStay
<1>. SUFFICES ASSUME NEW u \in Users, NEW m \in MatchIds, bets[<<u, m>>] \in Bets,
                     bets[<<u, m>>] # NoBet
              PROVE  bets'[<<u, m>>].stake_in_match_pool = bets[<<u, m>>].stake_in_match_pool
  BY BettorsBet DEF StakesStay, MatchesInv
<1>1. ASSUME NEW v \in Users, NEW n \in MatchIds, BetPlaced(v, n)
      PROVE  bets'[<<u, m>>] = bets[<<u, m>>]
  BY <1>1 DEF BetPlaced, RecordBet, MatchesInv, MatchesTypeOK
<1>2. ASSUME NEW v \in Users, NEW n \in MatchIds, BetClaimed(v, n)
      PROVE  bets'[<<u, m>>].stake_in_match_pool = bets[<<u, m>>].stake_in_match_pool
  <2>1. CASE <<u, m>> = <<v, n>>
    <3>1. bets'[<<u, m>>] = [bets[<<u, m>>] EXCEPT !.claimed = TRUE]
      BY <1>2, <2>1 DEF BetClaimed, MarkClaimed, MatchesInv, MatchesTypeOK
    <3>. QED
      BY <3>1 DEF Bets
  <2>2. CASE <<u, m>> # <<v, n>>
    BY <1>2, <2>2 DEF BetClaimed, MarkClaimed, MatchesInv, MatchesTypeOK
  <2>. QED
    BY <2>1, <2>2
<1>3. ASSUME NEW n \in MatchIds, MatchVoided(n)
      PROVE  bets'[<<u, m>>].stake_in_match_pool = bets[<<u, m>>].stake_in_match_pool
  <2>1. \/ bets'[<<u, m>>] = bets[<<u, m>>]
        \/ bets'[<<u, m>>] = [bets[<<u, m>>] EXCEPT !.claimed = TRUE]
    BY <1>3 DEF MatchVoided, VoidMatch
  <2>. QED
    BY <2>1 DEF Bets
<1>4. ASSUME UNCHANGED bets
      PROVE  bets'[<<u, m>>] = bets[<<u, m>>]
  BY <1>4
<1>. QED
  BY <1>1, <1>2, <1>3, <1>4
     DEF MoneyMoves, PhaseAdded, MatchAdded, ResultSet, PoolSwept, FinalizeResult, RefundSent

LEMMA OwedKept ==
    ASSUME MatchesInv, StakesStay, NEW s \in ReturnSlots, returns'[s] = returns[s]
    PROVE  OwedBy(returns[s])' = OwedBy(returns[s])
<1>1. CASE returns[s] = NoCall
  BY <1>1 DEF OwedBy
<1>2. CASE returns[s] # NoCall
  <2>. DEFINE todo == returns[s].todo
              m == returns[s].match
  <2>1. returns[s] \in Returns
    BY <1>2 DEF MatchesInv, MatchesTypeOK
  <2>2. m \in MatchIds /\ todo \subseteq Users /\ \A u \in todo : bets[<<u, m>>] # NoBet
    BY <1>2, <2>1 DEF MatchesInv, ReturnsHaveBets, Returns
  <2>. HIDE DEF todo, m
  <2>3. [u \in todo |-> bets'[<<u, m>>].stake_in_match_pool]
            = [u \in todo |-> bets[<<u, m>>].stake_in_match_pool]
    BY <2>2 DEF StakesStay
  <2>4. SumOver([u \in todo |-> bets'[<<u, m>>].stake_in_match_pool], todo)
            = SumOver([u \in todo |-> bets[<<u, m>>].stake_in_match_pool], todo)
    BY <2>3
  <2>. QED
    BY <1>2, <2>4 DEF OwedBy, StakeOf, todo, m
<1>. QED
  BY <1>1, <1>2

LEMMA OwedChange ==
    ASSUME MatchesInv, StakesStay, NEW slot \in ReturnSlots,
           OwedBy(returns[slot])' \in Nat,
           \A s \in ReturnSlots \ {slot} : returns'[s] = returns[s]
    PROVE  SumOver(Owed, ReturnSlots)'
               = SumOver(Owed, ReturnSlots) - OwedBy(returns[slot]) + OwedBy(returns[slot])'
<1>1. \A s \in ReturnSlots \ {slot} : Owed[s] = Owed'[s]
  BY OwedKept DEF Owed
<1>2. \A s \in ReturnSlots : Owed[s] \in Nat
  BY OwedNat DEF Owed
<1>3. Owed'[slot] = OwedBy(returns[slot])' /\ Owed[slot] = OwedBy(returns[slot])
  BY DEF Owed
<1>4. \A s \in ReturnSlots : Owed'[s] \in Nat
  BY <1>1, <1>2, <1>3
<1>5. IsFiniteSet(ReturnSlots)
  BY MatchesAssumption
<1>6. SumOver(Owed', ReturnSlots)
          = SumOver(Owed, ReturnSlots) - Owed[slot] + Owed'[slot]
  BY <1>1, <1>2, <1>4, <1>5, SumOverChange
<1>. QED
  BY <1>3, <1>6

LEMMA OwedSame ==
    ASSUME MatchesInv, StakesStay, UNCHANGED returns
    PROVE  SumOver(Owed, ReturnSlots)' = SumOver(Owed, ReturnSlots)
<1>1. Owed' = Owed
  BY OwedKept DEF Owed
<1>. QED
  BY <1>1

LEMMA SumsNat ==
    ASSUME MatchesInv
    PROVE  /\ SumOver(Left, MatchIds) \in Nat
           /\ SumOver(pending_refunds, Users) \in Nat
           /\ SumOver(Owed, ReturnSlots) \in Nat
           /\ protocol_fee_accumulated \in Nat
           /\ final_prize_accumulated \in Nat
           /\ balance \in Nat
<1>1. \A m \in MatchIds : Left[m] \in Nat
  BY LeftNat DEF Left, MatchesInv, MatchesTypeOK
<1>2. \A s \in ReturnSlots : Owed[s] \in Nat
  BY OwedNat DEF Owed
<1>3. \A u \in Users : pending_refunds[u] \in Nat
  BY DEF MatchesInv, MatchesTypeOK
<1>4. IsFiniteSet(MatchIds) /\ IsFiniteSet(Users) /\ IsFiniteSet(ReturnSlots)
  BY MatchesAssumption
<1>. QED
  BY <1>1, <1>2, <1>3, <1>4, SumOverNat DEF MatchesInv, MatchesTypeOK

BooksTyped == Books \in Nat /\ balance \in Nat

LEMMA BooksNat ==
    ASSUME MatchesInv
    PROVE  BooksTyped
<1>. HIDE DEF Left, Owed
<1>. QED
  BY SumsNat DEF BooksTyped, Books

(* A change of one match. *)
LEMMA LeftStep ==
    ASSUME MatchesInv, MatchesInv', NEW n \in MatchIds,
           \A m \in MatchIds \ {n} : matches'[m] = matches[m]
    PROVE  /\ SumOver(Left, MatchIds)'
                  = SumOver(Left, MatchIds) - LeftOf(matches[n]) + LeftOf(matches'[n])
           /\ LeftOf(matches[n]) \in Nat /\ LeftOf(matches'[n]) \in Nat
<1>1. /\ matches \in [MatchIds -> Matches \cup {NoMatch}]
      /\ matches' \in [MatchIds -> Matches \cup {NoMatch}]
  BY DEF MatchesInv, MatchesTypeOK
<1>2. LeftOf(matches[n]) \in Nat /\ LeftOf(matches'[n]) \in Nat
  BY <1>1, LeftNat
<1>. QED
  BY <1>1, <1>2, LeftChange DEF Left

(* A step brings in at least what it adds to the books. *)
BooksKept == balance' + Books >= balance + Books'

(* A step that touches no amount. *)
LEMMA BooksFrame ==
    ASSUME MatchesInv, StakesStay,
           SumOver(Left, MatchIds)' = SumOver(Left, MatchIds),
           UNCHANGED <<potVars, pending_refunds, balance, returns>>
    PROVE  BooksKept
<1>1. SumOver(Owed, ReturnSlots)' = SumOver(Owed, ReturnSlots)
  BY OwedSame
<1>2. SumOver(pending_refunds, Users)' = SumOver(pending_refunds, Users)
  OBVIOUS
<1>. HIDE DEF Left, Owed
<1>. QED
  BY <1>1, <1>2, SumsNat DEF BooksKept, Books, potVars

(* Amounts of one match that change by nothing. *)
LEMMA BooksOneMatch ==
    ASSUME MatchesInv, MatchesInv', StakesStay, NEW n \in MatchIds,
           \A m \in MatchIds \ {n} : matches'[m] = matches[m],
           LeftOf(matches'[n]) = LeftOf(matches[n]),
           UNCHANGED <<potVars, pending_refunds, balance, returns>>
    PROVE  BooksKept
<1>1. SumOver(Left, MatchIds)' = SumOver(Left, MatchIds)
  BY LeftStep, SumsNat
<1>. QED
  BY <1>1, BooksFrame

LEMMA RegisterBooks ==
    ASSUME MatchesInv, MatchesInv', StakesStay, RegisterStep
    PROVE  BooksKept
<1>1. ASSUME NEW caller, NEW phase, NEW weight, RegisterPhase(caller, phase, weight)
      PROVE  BooksKept
  <2>1. UNCHANGED <<potVars, pending_refunds, balance, returns>> /\ UNCHANGED matches
    BY <1>1 DEF RegisterPhase, callVars
  <2>2. Left' = Left
    BY <2>1 DEF Left
  <2>. QED
    BY <2>1, <2>2, BooksFrame
<1>2. ASSUME NEW caller, NEW phase \in PhaseNames, NEW kickOff \in KickOffs,
             RegisterMatch(caller, phase, kickOff)
      PROVE  BooksKept
  <2>. DEFINE n == next_match_id + 1
  <2>1. n \in MatchIds /\ n \notin Registered
    BY <1>2, MatchesAssumption
       DEF RegisterMatch, MatchesInv, MatchesTypeOK, IdsAreAssigned, Registered
  <2>2. \A m \in MatchIds \ {n} : matches'[m] = matches[m]
    BY <1>2 DEF RegisterMatch, MatchesInv, MatchesTypeOK
  <2>3. matches'[n] = NewMatch(phase, kickOff) /\ matches[n] = NoMatch
    BY <1>2, <2>1 DEF RegisterMatch, MatchesInv, MatchesTypeOK, Registered
  <2>4. LeftOf(matches'[n]) = LeftOf(matches[n])
    BY <2>3 DEF LeftOf, NewMatch, SaturatingSub
  <2>5. UNCHANGED <<potVars, pending_refunds, balance, returns>>
    BY <1>2 DEF RegisterMatch, callVars
  <2>. HIDE DEF n
  <2>. QED
    BY <2>1, <2>2, <2>4, <2>5, BooksOneMatch
<1>. QED
  BY <1>1, <1>2 DEF RegisterStep

(* A bet brings at least what it adds to the books. *)
LEMMA BetBooks ==
    ASSUME MatchesInv, MatchesInv', StakesStay, BetStep
    PROVE  BooksKept
<1>1. ASSUME NEW u \in Users, NEW n \in Registered, NEW p, NEW stake \in Nat, NEW principal,
             RecordBet(u, n, p, stake, principal),
             UNCHANGED <<pending_refunds, returns>>,
             balance' = balance + stake + (protocol_fee_accumulated' - protocol_fee_accumulated)
                            + (final_prize_accumulated' - final_prize_accumulated)
      PROVE  BooksKept
  <2>1. n \in MatchIds /\ matches[n] \in Matches
    BY MatchTyped DEF MatchesInv
  <2>2. \A m \in MatchIds \ {n} : matches'[m] = matches[m]
    BY <1>1 DEF RecordBet, MatchesInv, MatchesTypeOK
  <2>3. matches'[n] = [matches[n] EXCEPT !.match_prize_pool = @ + stake]
    BY <1>1, <2>1 DEF RecordBet, MatchesInv, MatchesTypeOK
  <2>4. matches'[n] \in Matches
    BY <2>1, <2>3 DEF Matches
  <2>5. LeftOf(matches'[n]) <= LeftOf(matches[n]) + stake
    <3>1. /\ matches'[n].match_prize_pool = matches[n].match_prize_pool + stake
          /\ matches'[n].total_claimed = matches[n].total_claimed
          /\ matches[n].match_prize_pool \in Nat /\ matches[n].total_claimed \in Nat
      BY <2>1, <2>3 DEF Matches
    <3>. QED
      BY <2>1, <2>4, <3>1, MarkerAssumption DEF LeftOf, SaturatingSub
  <2>6. SumOver(Left, MatchIds)'
            = SumOver(Left, MatchIds) - LeftOf(matches[n]) + LeftOf(matches'[n])
    BY <2>1, <2>2, LeftStep
  <2>7. LeftOf(matches[n]) \in Nat /\ LeftOf(matches'[n]) \in Nat
    BY <2>1, <2>4, LeftNat
  <2>8. SumOver(Owed, ReturnSlots)' = SumOver(Owed, ReturnSlots)
    BY <1>1, OwedSame
  <2>9. SumOver(pending_refunds, Users)' = SumOver(pending_refunds, Users)
    BY <1>1
  <2>10. protocol_fee_accumulated' \in Nat /\ final_prize_accumulated' \in Nat
    BY DEF MatchesInv, MatchesTypeOK
  <2>. HIDE DEF Left, Owed
  <2>. QED
    BY <1>1, <2>5, <2>6, <2>7, <2>8, <2>9, <2>10, SumsNat DEF BooksKept, Books
<1>2. ASSUME NEW u \in Users, NEW n \in MatchIds, NEW p \in Guesses, NEW value \in BetValues,
             PlaceBet(u, n, p, value)
      PROVE  BooksKept
  <2>1. value \in Nat
    BY MatchesAssumption
  <2>2. /\ n \in Registered
        /\ RecordBet(u, n, p, MatchPoolCut(value), 0)
        /\ UNCHANGED <<pending_refunds, returns>>
        /\ balance' = balance + value
        /\ protocol_fee_accumulated' = protocol_fee_accumulated + ProtocolFee(value)
        /\ final_prize_accumulated' = final_prize_accumulated + FinalPrizeCut(value)
    BY <1>2 DEF PlaceBet, AcceptsBet, callVars
  <2>3. /\ ProtocolFee(value) \in Nat /\ FinalPrizeCut(value) \in Nat /\ MatchPoolCut(value) \in Nat
        /\ ProtocolFee(value) + FinalPrizeCut(value) + MatchPoolCut(value) = value
    BY <2>1, CutsNat
  <2>4. balance' = balance + MatchPoolCut(value)
                       + (protocol_fee_accumulated' - protocol_fee_accumulated)
                       + (final_prize_accumulated' - final_prize_accumulated)
    BY <2>1, <2>2, <2>3, SumsNat
  <2>. QED
    BY <1>1, <2>2, <2>3, <2>4
<1>3. ASSUME NEW u \in Users, NEW n \in MatchIds, NEW p \in Guesses,
             NEW value \in FreebetValues, PlaceBetFromFreebetLedger(u, n, p, value)
      PROVE  BooksKept
  <2>1. value \in Nat
    BY MatchesAssumption
  <2>2. /\ n \in Registered
        /\ RecordBet(u, n, p, value, value)
        /\ UNCHANGED <<pending_refunds, returns, potVars>>
        /\ balance' = balance + value
    BY <1>3 DEF PlaceBetFromFreebetLedger, AcceptsBet, callVars
  <2>3. balance' = balance + value
                       + (protocol_fee_accumulated' - protocol_fee_accumulated)
                       + (final_prize_accumulated' - final_prize_accumulated)
    BY <2>1, <2>2, SumsNat DEF potVars
  <2>. QED
    BY <1>1, <2>1, <2>2, <2>3
<1>. QED
  BY <1>2, <1>3 DEF BetStep

(* A match without a winner leaves its pool to the final prize. *)
LEMMA FinalizeBooks ==
    ASSUME MatchesInv, MatchesInv', StakesStay, SharesInv,
           NEW n \in MatchIds, FinalizeResult(n)
    PROVE  BooksKept
<1>. DEFINE winnerStake == WinnerStake(n, matches[n].result.final)
            pool == matches[n].match_prize_pool
<1>1. /\ n \in Registered /\ matches[n] \in Matches /\ matches[n].total_claimed = 0
      /\ pool \in Nat
  <2>1. n \in Registered /\ Status(n) = "Proposed"
    BY DEF FinalizeResult
  <2>2. matches[n] \in Matches
    BY <2>1, MatchTyped DEF MatchesInv
  <2>. QED
    BY <2>1, <2>2 DEF SharesInv, SharesBooked, Undecided, Matches
<1>2. \A m \in MatchIds \ {n} : matches'[m] = matches[m]
  BY DEF FinalizeResult, MatchesInv, MatchesTypeOK
<1>3. /\ matches'[n].match_prize_pool = IF winnerStake = 0 THEN 0 ELSE pool
      /\ matches'[n].total_claimed = 0
  BY <1>1 DEF FinalizeResult, MatchesInv, MatchesTypeOK, Matches
<1>4. matches'[n] # NoMatch
  <2>1. n \in Registered'
    BY <1>1, FinalizeTyped DEF MatchesInv, StepTyped
  <2>. QED
    BY <2>1 DEF Registered
<1>5. /\ final_prize_accumulated' =
             final_prize_accumulated + IF winnerStake = 0 THEN pool ELSE 0
      /\ UNCHANGED <<protocol_fee_accumulated, pending_refunds, balance, returns>>
  BY DEF FinalizeResult, callVars
<1>6. /\ LeftOf(matches[n]) = pool
      /\ LeftOf(matches'[n]) = IF winnerStake = 0 THEN 0 ELSE pool
  <2>1. LeftOf(matches[n]) = pool
    BY <1>1, MarkerAssumption DEF LeftOf, SaturatingSub
  <2>2. LeftOf(matches'[n]) = IF winnerStake = 0 THEN 0 ELSE pool
    BY <1>1, <1>3, <1>4 DEF LeftOf, SaturatingSub
  <2>. QED
    BY <2>1, <2>2
<1>. HIDE DEF winnerStake, pool
<1>7. SumOver(Left, MatchIds)'
          = SumOver(Left, MatchIds) - LeftOf(matches[n]) + LeftOf(matches'[n])
  BY <1>2, LeftStep
<1>8. SumOver(Owed, ReturnSlots)' = SumOver(Owed, ReturnSlots)
  BY <1>5, OwedSame
<1>9. SumOver(pending_refunds, Users)' = SumOver(pending_refunds, Users)
  BY <1>5
<1>. HIDE DEF Left, Owed
<1>. QED
  BY <1>1, <1>5, <1>6, <1>7, <1>8, <1>9, SumsNat DEF BooksKept, Books

(* Cancellation turns the pool into refunds and freebets to return. *)
LEMMA VoidBooks ==
    ASSUME MatchesInv, MatchesInv', OpenUntilDecided, SharesInv, PoolsInv,
           NEW n \in MatchIds, NEW caller, VoidMatch(caller, n)
    PROVE  /\ SumOver(Left, MatchIds)' + SumOver(pending_refunds, Users)'
                  + StakeOf(FreebetsOf(n), n)
                      = SumOver(Left, MatchIds) + SumOver(pending_refunds, Users)
           /\ StakeOf(FreebetsOf(n), n) \in Nat
           /\ SumOver(Left, MatchIds)' \in Nat
           /\ SumOver(pending_refunds, Users)' \in Nat
<1>. DEFINE pool == matches[n].match_prize_pool
            cash == [u \in Users |->
                IF u \in CashRefunds(n) THEN bets[<<u, n>>].stake_in_match_pool ELSE 0]
            free == [u \in Users |->
                IF u \in FreebetsOf(n) THEN bets[<<u, n>>].stake_in_match_pool ELSE 0]
            returned == [u \in FreebetsOf(n) |-> bets[<<u, n>>].stake_in_match_pool]
            stakes == StakesIn(n)
<1>1. /\ n \in Registered /\ matches[n] \in Matches /\ matches[n].total_claimed = 0
      /\ pool \in Nat /\ Status(n) \in Undecided /\ pool = SumOver(stakes, Users)
  <2>1. n \in Registered /\ Status(n) \in Undecided
    BY DEF VoidMatch, Undecided
  <2>2. matches[n] \in Matches
    BY <2>1, MatchTyped DEF MatchesInv
  <2>. QED
    BY <2>1, <2>2 DEF SharesInv, SharesBooked, PoolsInv, PoolHeld, Matches
<1>2. \A m \in MatchIds \ {n} : matches'[m] = matches[m]
  BY DEF VoidMatch, MatchesInv, MatchesTypeOK
<1>3. LeftOf(matches[n]) = pool /\ LeftOf(matches'[n]) = 0
  <2>1. LeftOf(matches[n]) = pool
    BY <1>1, MarkerAssumption DEF LeftOf, SaturatingSub
  <2>2. matches'[n].match_prize_pool = 0 /\ matches'[n].total_claimed = 0
    BY <1>1 DEF VoidMatch, MatchesInv, MatchesTypeOK, Matches
  <2>. QED
    BY <2>1, <2>2 DEF LeftOf, SaturatingSub
<1>4. \A u \in Users : bets[<<u, n>>] # NoBet => bets[<<u, n>>] \in Bets /\ ~bets[<<u, n>>].claimed
  BY <1>1, BettorsBet DEF OpenUntilDecided, Undecided, MatchesInv
<1>5. \A u \in Users : cash[u] \in Nat /\ free[u] \in Nat
  BY <1>4 DEF CashRefunds, FreebetsOf, Refundable, Bettors, Bets
<1>6. \A u \in Users : stakes[u] = cash[u] + free[u]
  <2>. SUFFICES ASSUME NEW u \in Users
                PROVE  stakes[u] = cash[u] + free[u]
    OBVIOUS
  <2>1. CASE u \notin Refundable(n)
    BY <1>4, <2>1 DEF CashRefunds, FreebetsOf, Refundable, Bettors, StakesIn, Bets
  <2>2. CASE u \in Refundable(n)
    <3>1. stakes[u] = bets[<<u, n>>].stake_in_match_pool /\ stakes[u] \in Nat
      BY <1>4, <2>2 DEF Refundable, Bettors, StakesIn, Bets
    <3>. HIDE DEF stakes
    <3>2. CASE u \in FreebetsOf(n)
      BY <3>1, <3>2 DEF CashRefunds
    <3>3. CASE u \notin FreebetsOf(n)
      BY <2>2, <3>1, <3>3 DEF CashRefunds
    <3>. QED
      BY <3>2, <3>3
  <2>. QED
    BY <2>1, <2>2
<1>7. /\ FreebetsOf(n) \in SUBSET Users
      /\ \A u \in FreebetsOf(n) : returned[u] = free[u]
      /\ \A u \in Users \ FreebetsOf(n) : free[u] = 0
  BY DEF FreebetsOf, Refundable, Bettors
<1>8. StakeOf(FreebetsOf(n), n) = SumOver(returned, FreebetsOf(n))
  BY DEF StakeOf
<1>9. /\ \A u \in Users : pending_refunds[u] \in Nat
      /\ \A u \in Users : pending_refunds'[u] = pending_refunds[u] + cash[u]
  BY DEF MatchesInv, MatchesTypeOK, VoidMatch, RefundsAfter
<1>10. IsFiniteSet(Users)
  BY MatchesAssumption
<1>11. SumOver(Left, MatchIds)'
          = SumOver(Left, MatchIds) - LeftOf(matches[n]) + LeftOf(matches'[n])
  BY <1>2, LeftStep
<1>. HIDE DEF pool, cash, free, returned, stakes
<1>12. pool = SumOver(cash, Users) + SumOver(free, Users)
  BY <1>1, <1>5, <1>6, <1>10, SumOverPlus
<1>13. SumOver(pending_refunds', Users) = SumOver(pending_refunds, Users) + SumOver(cash, Users)
  BY <1>5, <1>9, <1>10, SumOverPlus
<1>14. SumOver(returned, FreebetsOf(n)) = SumOver(free, Users)
  BY <1>5, <1>7, <1>10, SumOverWithin
<1>15. SumOver(cash, Users) \in Nat /\ SumOver(free, Users) \in Nat
  BY <1>5, <1>10, SumOverNat
<1>16. SumOver(Left, MatchIds)' \in Nat
  <2>1. \A m \in MatchIds : Left'[m] \in Nat
    BY LeftNat DEF Left, MatchesInv, MatchesTypeOK
  <2>. QED
    BY <2>1, SumOverNat, MatchesAssumption
<1>. HIDE DEF Left
<1>. QED
  BY <1>3, <1>8, <1>11, <1>12, <1>13, <1>14, <1>15, <1>16, SumsNat

\* The value of an amount on its way: what the call at slot owes after it
\* was entered with SendToLedger.
LEMMA SentOwed ==
    ASSUME MatchesInv, StakesStay, NEW u \in Users, NEW n \in MatchIds, NEW amount \in Nat,
           NEW todo \in SUBSET Bettors(n), NEW payout \in Nat, NEW slot \in ReturnSlots,
           SendToLedger(u, n, amount, todo, payout, slot)
    PROVE  /\ SumOver(Owed, ReturnSlots)'
                  = SumOver(Owed, ReturnSlots) - OwedBy(returns[slot]) + payout + StakeOf(todo, n)
           /\ StakeOf(todo, n) \in Nat
<1>. DEFINE call == [match |-> n, user |-> u, amount |-> amount, todo |-> todo, payout |-> payout]
<1>1. returns'[slot] = call /\ \A s \in ReturnSlots \ {slot} : returns'[s] = returns[s]
  BY DEF SendToLedger, MatchesInv, MatchesTypeOK
<1>2. call \in Returns
  <2>1. todo \subseteq Users
    BY DEF Bettors
  <2>. QED
    BY <2>1 DEF Returns
<1>3. call # NoCall /\ call.payout = payout /\ call.todo = todo /\ call.match = n
  BY <1>2, MarkerAssumption
<1>. HIDE DEF call
<1>4. StakeOf(todo, n) \in Nat
  BY StakeOfNat DEF MatchesInv
<1>5. [v \in todo |-> bets'[<<v, n>>].stake_in_match_pool]
          = [v \in todo |-> bets[<<v, n>>].stake_in_match_pool]
  BY DEF StakesStay, Bettors
<1>6. SumOver([v \in todo |-> bets'[<<v, n>>].stake_in_match_pool], todo) = StakeOf(todo, n)
  BY <1>5 DEF StakeOf
<1>7. OwedBy(returns[slot])' = payout + StakeOf(todo, n)
  BY <1>1, <1>3, <1>6 DEF OwedBy, StakeOf
<1>8. OwedBy(returns[slot])' \in Nat
  BY <1>4, <1>7
<1>9. OwedBy(returns[slot]) \in Nat
  BY OwedNat
<1>10. SumOver(Owed, ReturnSlots)'
           = SumOver(Owed, ReturnSlots) - OwedBy(returns[slot]) + OwedBy(returns[slot])'
  BY <1>1, <1>8, OwedChange
<1>. HIDE DEF Owed, OwedBy
<1>. QED
  BY <1>4, <1>7, <1>9, <1>10, SumsNat

LEMMA ResultBooks ==
    ASSUME MatchesInv, MatchesInv', StakesStay, OpenUntilDecided, SharesInv, PoolsInv,
           ResultStep
    PROVE  BooksKept
<1>1. ASSUME NEW n \in Registered, NEW r, matches' = [matches EXCEPT ![n].result = r],
             UNCHANGED <<potVars, pending_refunds, balance, returns>>
      PROVE  BooksKept
  <2>1. n \in MatchIds /\ matches[n] \in Matches
    BY MatchTyped DEF MatchesInv
  <2>2. matches'[n] = [matches[n] EXCEPT !.result = r]
    BY <1>1, <2>1 DEF MatchesInv, MatchesTypeOK
  <2>3. matches'[n] \in Matches
    <3>1. matches'[n] \in Matches \cup {NoMatch}
      BY <2>1 DEF MatchesInv, MatchesTypeOK
    <3>2. Registered \subseteq Registered'
      BY ResultTyped DEF StepTyped, MatchesInv
    <3>. QED
      BY <1>1, <3>1, <3>2 DEF Registered
  <2>4. LeftOf(matches'[n]) = LeftOf(matches[n])
    <3>1. /\ matches'[n].match_prize_pool = matches[n].match_prize_pool
          /\ matches'[n].total_claimed = matches[n].total_claimed
      BY <2>1, <2>2 DEF Matches
    <3>. QED
      BY <2>1, <2>3, <3>1, MarkerAssumption DEF LeftOf
  <2>5. \A m \in MatchIds \ {n} : matches'[m] = matches[m]
    BY <1>1 DEF MatchesInv, MatchesTypeOK
  <2>. QED
    BY <1>1, <2>1, <2>4, <2>5, BooksOneMatch
<1>2. ASSUME UNCHANGED matches, UNCHANGED <<potVars, pending_refunds, balance, returns>>
      PROVE  BooksKept
  <2>1. Left' = Left
    BY <1>2 DEF Left
  <2>. QED
    BY <1>2, <2>1, BooksFrame
<1>3. ASSUME NEW m \in MatchIds, NEW oracle, NEW r \in Reports, ProposeResult(oracle, m, r)
      PROVE  BooksKept
  BY <1>1, <1>3 DEF ProposeResult, callVars
<1>4. ASSUME NEW slot \in QuerySlots, NEW r \in Reports, OracleReply(slot, r)
      PROVE  BooksKept
  <2>1. queries[slot].match \in Registered
    BY <1>4 DEF OracleReply, MatchesInv, QueriesRegistered
  <2>. QED
    BY <1>1, <1>4, <2>1 DEF OracleReply
<1>5. ASSUME NEW m \in MatchIds, NEW caller, CancelProposedResult(caller, m)
      PROVE  BooksKept
  BY <1>1, <1>5 DEF CancelProposedResult, callVars
<1>6. ASSUME NEW m, NEW oracle, NEW slot,
             ProposeFromOracle(m, oracle, slot) \/ OracleReplyFailed(slot)
      PROVE  BooksKept
  BY <1>2, <1>6 DEF ProposeFromOracle, OracleReplyFailed
<1>7. ASSUME NEW m \in MatchIds, NEW caller, CancelMatch(caller, m)
      PROVE  BooksKept
  <2>1. VoidMatch(caller, m) /\ UNCHANGED <<potVars, balance, returns>>
    BY <1>7 DEF CancelMatch, callVars
  <2>2. /\ SumOver(Left, MatchIds)' + SumOver(pending_refunds, Users)'
               + StakeOf(FreebetsOf(m), m)
                   = SumOver(Left, MatchIds) + SumOver(pending_refunds, Users)
        /\ StakeOf(FreebetsOf(m), m) \in Nat
        /\ SumOver(Left, MatchIds)' \in Nat
        /\ SumOver(pending_refunds, Users)' \in Nat
    BY <2>1, VoidBooks
  <2>3. SumOver(Owed, ReturnSlots)' = SumOver(Owed, ReturnSlots)
    BY <2>1, OwedSame
  <2>. HIDE DEF Left, Owed
  <2>. QED
    BY <2>1, <2>2, <2>3, SumsNat DEF BooksKept, Books, potVars
<1>8. ASSUME NEW m \in MatchIds, NEW caller, NEW u \in Users, NEW slot \in ReturnSlots,
             CancelMatchWithFreebets(caller, m, u, slot)
      PROVE  BooksKept
  <2>. DEFINE stake == bets[<<u, m>>].stake_in_match_pool
              rest == FreebetsOf(m) \ {u}
  <2>1. /\ VoidMatch(caller, m) /\ u \in FreebetsOf(m) /\ returns[slot] = NoCall
        /\ SendToLedger(u, m, stake, rest, 0, slot) /\ UNCHANGED potVars
    BY <1>8 DEF CancelMatchWithFreebets
  <2>2. /\ SumOver(Left, MatchIds)' + SumOver(pending_refunds, Users)'
               + StakeOf(FreebetsOf(m), m)
                   = SumOver(Left, MatchIds) + SumOver(pending_refunds, Users)
        /\ SumOver(Left, MatchIds)' \in Nat
        /\ SumOver(pending_refunds, Users)' \in Nat
    BY <2>1, VoidBooks
  <2>3. FreebetsOf(m) \in SUBSET Bettors(m)
    BY DEF FreebetsOf, Refundable
  <2>4. /\ StakeOf(FreebetsOf(m), m) = stake + StakeOf(rest, m)
        /\ StakeOf(rest, m) \in Nat /\ stake \in Nat
    BY <2>1, <2>3, StakeOfRemove DEF MatchesInv
  <2>5. OwedBy(returns[slot]) = 0
    BY <2>1 DEF OwedBy
  <2>6. balance' = balance - stake
    BY <2>1 DEF SendToLedger
  <2>. HIDE DEF stake, rest
  <2>7. rest \in SUBSET Bettors(m)
    BY <2>3 DEF rest
  <2>8. SumOver(Owed, ReturnSlots)'
            = SumOver(Owed, ReturnSlots) - OwedBy(returns[slot]) + 0 + StakeOf(rest, m)
    BY <2>1, <2>4, <2>7, SentOwed
  <2>. HIDE DEF Left, Owed
  <2>. QED
    BY <2>1, <2>2, <2>4, <2>5, <2>6, <2>8, SumsNat DEF BooksKept, Books, potVars
<1>. QED
  BY <1>3, <1>4, <1>5, <1>6, <1>7, <1>8, FinalizeBooks DEF ResultStep

(* A share that may be claimed is still in the pool. *)
LEMMA ClaimFits ==
    ASSUME MatchesInv, SharesInv, PoolsInv, NEW u \in Users, NEW n \in MatchIds, Claimable(u, n)
    PROVE  matches[n].total_claimed + ShareOf(u, n) <= matches[n].match_prize_pool
<1>. DEFINE open == {v \in Winners(n, matches[n].result.final) : ~bets[<<v, n>>].claimed}
            owed == [v \in open |-> ShareOf(v, n)]
<1>1. n \in Registered /\ Status(n) = "Finalized" /\ ~matches[n].dust_swept
  BY DEF Claimable, PoolsInv, PoolHeld
<1>2. matches[n] \in Matches /\ matches[n].total_winner_stake # 0
  BY <1>1, MatchTyped DEF MatchesInv, Claimable
<1>3. WinnersStayCovered
  BY SharesInvIsEnough DEF MatchesInv
<1>4. matches[n].total_claimed + SumOver(owed, open) <= matches[n].match_prize_pool
  BY <1>1, <1>3 DEF WinnersStayCovered
<1>5. u \in open
  BY DEF Claimable, Winners, Bettors
<1>6. open \in SUBSET Bettors(n) /\ IsFiniteSet(open)
  <2>1. open \in SUBSET Bettors(n) /\ open \in SUBSET Users
    BY DEF Winners, Bettors
  <2>. HIDE DEF open
  <2>. QED
    BY <2>1, MatchesAssumption, FS_Subset
<1>7. \A v \in open : owed[v] \in Nat
  BY <1>1, <1>2, <1>6, ShareOfNat DEF MatchesInv
<1>8. owed[u] = ShareOf(u, n)
  BY <1>5
<1>. HIDE DEF open, owed
<1>9. SumOver(owed, open) = owed[u] + SumOver(owed, open \ {u})
  BY <1>5, <1>6, <1>7, SumOverRemove
<1>10. SumOver(owed, open \ {u}) \in Nat
  <2>1. IsFiniteSet(open \ {u})
    BY <1>6, FS_Subset
  <2>. QED
    BY <1>7, <2>1, SumOverNat
<1>11. matches[n].total_claimed \in Nat /\ matches[n].match_prize_pool \in Nat
  BY <1>2 DEF Matches
<1>. QED
  BY <1>4, <1>5, <1>7, <1>8, <1>9, <1>10, <1>11

(* A claim takes its share out of what is left of the pool. *)
LEMMA ClaimLeft ==
    ASSUME MatchesInv, MatchesInv', SharesInv, PoolsInv, NEW u \in Users, NEW n \in MatchIds,
           Claimable(u, n), MarkClaimed(u, n)
    PROVE  /\ SumOver(Left, MatchIds)' = SumOver(Left, MatchIds) - ShareOf(u, n)
           /\ ShareOf(u, n) \in Nat /\ PrincipalOf(u, n) \in Nat
           /\ ShareOf(u, n) - PrincipalOf(u, n) \in Nat
<1>. DEFINE share == ShareOf(u, n)
            pool == matches[n].match_prize_pool
            claimed == matches[n].total_claimed
<1>1. /\ n \in Registered /\ share \in Nat /\ PrincipalOf(u, n) \in Nat
      /\ share - PrincipalOf(u, n) \in Nat /\ bets[<<u, n>>] # NoBet
  BY ClaimableTyped DEF MatchesInv
<1>2. matches[n] \in Matches /\ pool \in Nat /\ claimed \in Nat
  BY <1>1, MatchTyped DEF MatchesInv, Matches
<1>3. claimed + share <= pool
  BY ClaimFits
<1>4. /\ \A m \in MatchIds \ {n} : matches'[m] = matches[m]
      /\ matches'[n] = [matches[n] EXCEPT !.total_claimed = @ + share]
  BY DEF MarkClaimed, MatchesInv, MatchesTypeOK
<1>5. matches'[n].match_prize_pool = pool /\ matches'[n].total_claimed = claimed + share
  BY <1>2, <1>4 DEF Matches
<1>6. matches'[n] # NoMatch
  BY <1>1, MarkClaimedTyped DEF MatchesInv, MatchesKept, Registered
<1>. HIDE DEF share, pool, claimed
<1>7. LeftOf(matches[n]) = pool - claimed
  <2>1. LeftOf(matches[n]) = SaturatingSub(pool, claimed)
    BY <1>2, MarkerAssumption DEF LeftOf, pool, claimed
  <2>. QED
    BY <1>1, <1>2, <1>3, <2>1 DEF SaturatingSub
<1>8. LeftOf(matches'[n]) = pool - (claimed + share)
  <2>1. LeftOf(matches'[n]) = SaturatingSub(pool, claimed + share)
    BY <1>5, <1>6 DEF LeftOf
  <2>. QED
    BY <1>1, <1>2, <1>3, <2>1 DEF SaturatingSub
<1>9. SumOver(Left, MatchIds)'
          = SumOver(Left, MatchIds) - LeftOf(matches[n]) + LeftOf(matches'[n])
  BY <1>4, LeftStep
<1>. HIDE DEF Left
<1>10. SumOver(Left, MatchIds)' = SumOver(Left, MatchIds) - share
  BY <1>1, <1>2, <1>7, <1>8, <1>9, SumsNat
<1>. QED
  BY <1>1, <1>10 DEF share

LEMMA ClaimBooks ==
    ASSUME MatchesInv, MatchesInv', StakesStay, SharesInv, PoolsInv,
           NEW u \in Users, NEW n \in MatchIds,
           ClaimMatchReward(u, n) \/ \E slot \in ReturnSlots : ClaimFreebetReward(u, n, slot)
    PROVE  BooksKept
<1>. DEFINE share == ShareOf(u, n)
            principal == PrincipalOf(u, n)
<1>1. /\ SumOver(Left, MatchIds)' = SumOver(Left, MatchIds) - share
      /\ share \in Nat /\ principal \in Nat /\ share - principal \in Nat
  BY ClaimLeft DEF ClaimMatchReward, ClaimFreebetReward
<1>2. SumOver(pending_refunds, Users)' = SumOver(pending_refunds, Users) /\ UNCHANGED potVars
  BY DEF ClaimMatchReward, ClaimFreebetReward
<1>3. CASE ClaimMatchReward(u, n)
  <2>1. balance' = balance - share
    BY <1>3 DEF ClaimMatchReward
  <2>2. SumOver(Owed, ReturnSlots)' = SumOver(Owed, ReturnSlots)
    BY <1>3, OwedSame DEF ClaimMatchReward, callVars
  <2>. HIDE DEF Left, Owed, share, principal
  <2>. QED
    BY <1>1, <1>2, <2>1, <2>2, SumsNat DEF BooksKept, Books, potVars
<1>4. ASSUME NEW slot \in ReturnSlots, ClaimFreebetReward(u, n, slot)
      PROVE  BooksKept
  <2>1. /\ SendToLedger(u, n, principal, {}, share - principal, slot)
        /\ returns[slot] = NoCall
    BY <1>4 DEF ClaimFreebetReward
  <2>2. balance' = balance - principal
    BY <2>1 DEF SendToLedger
  <2>3. OwedBy(returns[slot]) = 0
    BY <2>1 DEF OwedBy
  <2>4. StakeOf({}, n) = 0
    BY SumOverEmpty DEF StakeOf
  <2>. HIDE DEF share, principal
  <2>5. SumOver(Owed, ReturnSlots)' = SumOver(Owed, ReturnSlots) - OwedBy(returns[slot])
                                          + (share - principal) + StakeOf({}, n)
    BY <1>1, <2>1, SentOwed
  <2>. HIDE DEF Left, Owed
  <2>. QED
    BY <1>1, <1>2, <2>2, <2>3, <2>4, <2>5, SumsNat DEF BooksKept, Books, potVars
<1>. QED
  BY <1>3, <1>4

(* The resumptions: what leaves was owed, and what comes back is not. *)
LEMMA ReturnBooks ==
    ASSUME MatchesInv, MatchesInv', StakesStay, NEW slot \in ReturnSlots,
           \/ \E u \in Users : ReturnNext(slot, u)
           \/ ReturnDone(slot) \/ ReturnRejected(slot) \/ ReturnAbandoned(slot)
    PROVE  BooksKept
<1>. DEFINE call == returns[slot]
<1>1. /\ SumOver(Left, MatchIds)' = SumOver(Left, MatchIds)
      /\ SumOver(pending_refunds, Users)' = SumOver(pending_refunds, Users)
      /\ UNCHANGED potVars
  <2>1. UNCHANGED matches /\ UNCHANGED pending_refunds /\ UNCHANGED potVars
    BY DEF ReturnNext, ReturnDone, ReturnRejected, ReturnAbandoned
  <2>2. Left' = Left
    BY <2>1 DEF Left
  <2>. QED
    BY <2>1, <2>2
<1>2. call # NoCall
  BY DEF ReturnNext, ReturnDone, ReturnRejected, ReturnAbandoned
<1>3. /\ call \in Returns /\ call.amount \in Nat /\ call.payout \in Nat
      /\ call.match \in MatchIds /\ call.todo \in SUBSET Bettors(call.match)
  BY <1>2 DEF MatchesInv, MatchesTypeOK, Returns, ReturnsHaveBets, Bettors
<1>4. /\ OwedBy(call) = call.payout + StakeOf(call.todo, call.match)
      /\ StakeOf(call.todo, call.match) \in Nat
  BY <1>2, <1>3, StakeOfNat DEF OwedBy, MatchesInv
<1>5. ASSUME NEW u \in Users, ReturnNext(slot, u)
      PROVE  BooksKept
  <2>. DEFINE m == call.match
              stake == bets[<<u, m>>].stake_in_match_pool
              rest == call.todo \ {u}
  <2>1. /\ u \in call.todo
        /\ SendToLedger(u, m, stake, rest, call.payout, slot)
    BY <1>5 DEF ReturnNext
  <2>2. /\ StakeOf(call.todo, m) = stake + StakeOf(rest, m)
        /\ StakeOf(rest, m) \in Nat /\ stake \in Nat
    BY <1>3, <2>1, StakeOfRemove DEF MatchesInv
  <2>3. balance' = balance - stake
    BY <2>1 DEF SendToLedger
  <2>4. rest \in SUBSET Bettors(m) /\ m \in MatchIds
    BY <1>3
  <2>. HIDE DEF stake, rest, m
  <2>5. SumOver(Owed, ReturnSlots)' = SumOver(Owed, ReturnSlots) - OwedBy(call)
                                          + call.payout + StakeOf(rest, m)
    BY <1>3, <2>1, <2>2, <2>4, SentOwed
  <2>6. OwedBy(call) = call.payout + StakeOf(call.todo, m)
    BY <1>4 DEF m
  <2>. HIDE DEF Left, Owed, call
  <2>. QED
    BY <1>1, <1>3, <2>2, <2>3, <2>5, <2>6, SumsNat DEF BooksKept, Books, potVars
<1>6. ASSUME returns' = [returns EXCEPT ![slot] = NoCall],
             balance' \in Nat, balance' >= balance - call.payout
      PROVE  BooksKept
  <2>1. returns'[slot] = NoCall /\ \A s \in ReturnSlots \ {slot} : returns'[s] = returns[s]
    BY <1>6 DEF MatchesInv, MatchesTypeOK
  <2>2. OwedBy(returns[slot])' = 0
    BY <2>1 DEF OwedBy
  <2>3. SumOver(Owed, ReturnSlots)' = SumOver(Owed, ReturnSlots) - OwedBy(call) + 0
    BY <2>1, <2>2, OwedChange
  <2>. HIDE DEF Left, Owed, call
  <2>. QED
    BY <1>1, <1>3, <1>4, <1>6, <2>3, SumsNat DEF BooksKept, Books, potVars
<1>7. balance' \in Nat
  BY DEF MatchesInv, MatchesTypeOK
<1>8. CASE ReturnDone(slot)
  <2>1. returns' = [returns EXCEPT ![slot] = NoCall] /\ balance' = balance - call.payout
    BY <1>8 DEF ReturnDone
  <2>. QED
    BY <1>3, <1>6, <1>7, <2>1, SumsNat
<1>9. CASE ReturnRejected(slot)
  <2>1. returns' = [returns EXCEPT ![slot] = NoCall] /\ balance' = balance + call.amount
    BY <1>9 DEF ReturnRejected
  <2>. HIDE DEF call
  <2>2. balance' >= balance - call.payout
    BY <1>3, <2>1, SumsNat
  <2>. QED
    BY <1>6, <1>7, <2>1, <2>2 DEF call
<1>10. CASE ReturnAbandoned(slot)
  <2>1. returns' = [returns EXCEPT ![slot] = NoCall] /\ balance' = balance
    BY <1>10 DEF ReturnAbandoned
  <2>. HIDE DEF call
  <2>2. balance' >= balance - call.payout
    BY <1>3, <2>1, SumsNat
  <2>. QED
    BY <1>6, <1>7, <2>1, <2>2 DEF call
<1>. QED
  BY <1>5, <1>8, <1>9, <1>10

LEMMA RefundBooks ==
    ASSUME MatchesInv, MatchesInv', StakesStay, NEW u \in Users, SendRefund(u)
    PROVE  BooksKept
<1>1. UNCHANGED matches /\ UNCHANGED potVars /\ UNCHANGED returns
  BY DEF SendRefund, callVars
<1>2. Left' = Left
  BY <1>1 DEF Left
<1>3. SumOver(Owed, ReturnSlots)' = SumOver(Owed, ReturnSlots)
  BY <1>1, OwedSame
<1>4. /\ \A v \in Users : pending_refunds[v] \in Nat /\ pending_refunds'[v] \in Nat
      /\ \A v \in Users \ {u} : pending_refunds[v] = pending_refunds'[v]
      /\ pending_refunds'[u] = 0
  BY DEF SendRefund, MatchesInv, MatchesTypeOK
<1>5. IsFiniteSet(Users)
  BY MatchesAssumption
<1>6. SumOver(pending_refunds', Users)
          = SumOver(pending_refunds, Users) - pending_refunds[u] + pending_refunds'[u]
  BY <1>4, <1>5, SumOverChange
<1>7. balance' = balance - pending_refunds[u] /\ pending_refunds[u] \in Nat
  BY <1>4 DEF SendRefund
<1>8. SumOver(Left, MatchIds)' = SumOver(Left, MatchIds)
  BY <1>2
<1>. HIDE DEF Left, Owed
<1>. QED
  BY <1>1, <1>3, <1>4, <1>6, <1>7, <1>8, SumsNat DEF BooksKept, Books, potVars

LEMMA SweepBooks ==
    ASSUME MatchesInv, MatchesInv', StakesStay, NEW n \in MatchIds, SweepMatchDust(n)
    PROVE  BooksKept
<1>1. n \in Registered /\ matches[n] \in Matches
  BY MatchTyped DEF SweepMatchDust, MatchesInv
<1>2. LeftOf(matches[n]) = SaturatingSub(matches[n].match_prize_pool, matches[n].total_claimed)
  BY <1>1, MarkerAssumption DEF LeftOf
<1>3. /\ \A m \in MatchIds \ {n} : matches'[m] = matches[m]
      /\ matches'[n].match_prize_pool = 0
      /\ matches'[n].total_claimed = matches[n].total_claimed
      /\ matches[n].total_claimed \in Nat
  BY <1>1 DEF SweepMatchDust, MatchesInv, MatchesTypeOK, Matches
<1>4. LeftOf(matches'[n]) = 0
  BY <1>3 DEF LeftOf, SaturatingSub
<1>5. /\ final_prize_accumulated' = final_prize_accumulated + LeftOf(matches[n])
      /\ UNCHANGED <<pending_refunds, protocol_fee_accumulated, balance, returns>>
  BY <1>2 DEF SweepMatchDust, callVars
<1>6. SumOver(Left, MatchIds)'
          = SumOver(Left, MatchIds) - LeftOf(matches[n]) + LeftOf(matches'[n])
  BY <1>3, LeftStep
<1>7. LeftOf(matches[n]) \in Nat
  BY <1>1, LeftNat
<1>8. SumOver(Owed, ReturnSlots)' = SumOver(Owed, ReturnSlots)
  BY <1>5, OwedSame
<1>9. SumOver(pending_refunds, Users)' = SumOver(pending_refunds, Users)
  BY <1>5
<1>. HIDE DEF Left, Owed
<1>. QED
  BY <1>4, <1>5, <1>6, <1>7, <1>8, <1>9, SumsNat DEF BooksKept, Books

LEMMA BooksStep ==
    ASSUME MatchesInv, MatchesInv', OpenUntilDecided, SharesInv, PoolsInv,
           [MatchesNext]_allMatchesVars
    PROVE  BooksKept
<1>1. StakesStay
  BY StepMoney, StakesStayStep
<1>2. CASE PayoutStep
  <2>1. ASSUME NEW u \in Users, ClaimRefund(u) \/ \E caller : AdminPushRefund(caller, u)
        PROVE  BooksKept
    BY <1>1, <2>1, RefundBooks DEF ClaimRefund, AdminPushRefund
  <2>. QED
    BY <1>1, <1>2, <2>1, ClaimBooks, ReturnBooks, SweepBooks DEF PayoutStep
<1>3. CASE UNCHANGED matchesVars
  <2>1. UNCHANGED matches /\ UNCHANGED <<potVars, pending_refunds, balance, returns>>
    BY <1>3 DEF matchesVars, callVars
  <2>2. Left' = Left
    BY <2>1 DEF Left
  <2>. QED
    BY <1>1, <2>1, <2>2, BooksFrame
<1>. QED
  BY <1>1, <1>2, <1>3, RegisterBooks, BetBooks, ResultBooks
     DEF MatchesNext, MatchesStep, allMatchesVars

(* total_locked_vara in terms of the books.                                *)
LEMMA LockedIsBooked ==
    ASSUME MatchesInv
    PROVE  /\ LockedInMatches = protocol_fee_accumulated + final_prize_accumulated
                  + SumOver(Left, MatchIds) + SumOver(pending_refunds, Users)
           /\ LockedInMatches \in Nat
<1>. DEFINE remaining == [m \in Registered |-> SaturatingSub(matches[m].match_prize_pool,
                                                            matches[m].total_claimed)]
<1>1. IsFiniteSet(MatchIds) /\ Registered \in SUBSET MatchIds
  BY MatchesAssumption DEF Registered
<1>2. \A m \in MatchIds : Left[m] \in Nat
  BY LeftNat DEF Left, MatchesInv, MatchesTypeOK
<1>3. \A m \in Registered : remaining[m] = Left[m]
  BY DEF Left, LeftOf, Registered
<1>4. \A m \in MatchIds \ Registered : Left[m] = 0
  BY DEF Left, LeftOf, Registered
<1>5. LockedInMatches =
          protocol_fee_accumulated + final_prize_accumulated
              + SumOver(remaining, Registered) + SumOver(pending_refunds, Users)
  BY DEF LockedInMatches
<1>. HIDE DEF remaining, Left
<1>6. SumOver(remaining, Registered) = SumOver(Left, MatchIds)
  BY <1>1, <1>2, <1>3, <1>4, SumOverWithin
<1>. QED
  BY <1>5, <1>6, SumsNat

(* The payouts in flight are part of what the suspended calls owe.         *)
LEMMA PayoutsAreOwed ==
    ASSUME MatchesInv
    PROVE  /\ InFlightPayouts <= SumOver(Owed, ReturnSlots)
           /\ InFlightPayouts \in Nat
<1>. DEFINE payout == [s \in ReturnSlots |->
                          IF returns[s] = NoCall THEN 0 ELSE returns[s].payout]
            freebets == [s \in ReturnSlots |->
                          IF returns[s] = NoCall THEN 0
                          ELSE StakeOf(returns[s].todo, returns[s].match)]
<1>1. \A s \in ReturnSlots : payout[s] \in Nat /\ freebets[s] \in Nat
  <2>. SUFFICES ASSUME NEW s \in ReturnSlots, returns[s] # NoCall
                PROVE  returns[s].payout \in Nat /\ StakeOf(returns[s].todo, returns[s].match) \in Nat
    OBVIOUS
  <2>1. /\ returns[s].payout \in Nat /\ returns[s].match \in MatchIds
        /\ returns[s].todo \in SUBSET Bettors(returns[s].match)
    BY DEF MatchesInv, MatchesTypeOK, Returns, ReturnsHaveBets, Bettors
  <2>. QED
    BY <2>1, StakeOfNat DEF MatchesInv
<1>2. \A s \in ReturnSlots : Owed[s] = payout[s] + freebets[s]
  BY DEF Owed, OwedBy
<1>3. IsFiniteSet(ReturnSlots)
  BY MatchesAssumption
<1>4. InFlightPayouts = SumOver(payout, ReturnSlots)
  BY DEF InFlightPayouts
<1>. HIDE DEF payout, freebets, Owed
<1>5. SumOver(Owed, ReturnSlots) = SumOver(payout, ReturnSlots) + SumOver(freebets, ReturnSlots)
  BY <1>1, <1>2, <1>3, SumOverPlus
<1>6. SumOver(payout, ReturnSlots) \in Nat /\ SumOver(freebets, ReturnSlots) \in Nat
  BY <1>1, <1>3, SumOverNat
<1>. QED
  BY <1>4, <1>5, <1>6

(* What the property counts is at most what the invariant counts. *)
LEMMA BooksInvIsEnough ==
    ASSUME MatchesInv, BooksInv
    PROVE  BooksAreCovered
<1>. HIDE DEF Left, Owed
<1>. QED
  BY LockedIsBooked, PayoutsAreOwed, SumsNat DEF BooksAreCovered, BooksInv, Books

LEMMA BooksInit ==
    ASSUME MatchesInit
    PROVE  BooksInv
<1>1. \A m \in MatchIds : Left[m] = 0
  BY DEF MatchesInit, Left, LeftOf
<1>2. \A s \in ReturnSlots : Owed[s] = 0
  BY DEF MatchesInit, Owed, OwedBy
<1>3. \A u \in Users : pending_refunds[u] = 0
  BY DEF MatchesInit
<1>4. /\ SumOver(Left, MatchIds) = 0 /\ SumOver(Owed, ReturnSlots) = 0
      /\ SumOver(pending_refunds, Users) = 0
  BY <1>1, <1>2, <1>3, SumOverZero, MatchesAssumption
<1>5. balance = 0 /\ protocol_fee_accumulated = 0 /\ final_prize_accumulated = 0
  BY DEF MatchesInit
<1>. HIDE DEF Left, Owed
<1>. QED
  BY <1>4, <1>5 DEF BooksInv, Books

----------------------------------------------------------------------------
(* The inductive invariant of the money, if no oracle reports a result     *)
(* before the kick-off, and what follows from it.                          *)
MoneyInv ==
    /\ MatchesInv
    /\ KickedOff
    /\ RefundsInv
    /\ SharesInv
    /\ PoolsInv
    /\ BooksInv

LEMMA MoneyStep ==
    ASSUME ~EarlyReports, MatchesInv, KickedOff, RefundsInv, SharesInv, PoolsInv,
           [MatchesNext]_allMatchesVars
    PROVE  /\ MatchesInv' /\ KickedOff' /\ RefundsInv' /\ SharesInv' /\ PoolsInv'
           /\ BooksKept
<1>1. MatchesInv'
  BY MatchesInvNext
<1>2. KickedOff'
  BY KickedOffStep
<1>3. RefundsInv'
  BY RefundsStep
<1>4. SharesInv'
  BY SharesStep DEF RefundsInv
<1>5. PoolsInv'
  BY <1>1, PoolsStep
<1>6. BooksKept
  BY <1>1, BooksStep DEF RefundsInv
<1>. QED
  BY <1>1, <1>2, <1>3, <1>4, <1>5, <1>6

LEMMA MoneyInvariant ==
    ASSUME ~EarlyReports
    PROVE  MatchesSpec => []MoneyInv
<1>1. AdminInit /\ MatchesInit => MoneyInv
  <2>. SUFFICES ASSUME AdminInit, MatchesInit
                PROVE  MoneyInv
    OBVIOUS
  <2>1. KickedOff /\ SharesInv
    BY DEF MatchesInit, KickedOff, SharesInv, Registered
  <2>. QED
    BY <2>1, MatchesInitInv, RefundsInit, PoolsInit, BooksInit DEF MoneyInv
<1>2. MoneyInv /\ [MatchesNext]_allMatchesVars
          => /\ MatchesInv' /\ KickedOff' /\ RefundsInv' /\ SharesInv' /\ PoolsInv'
             /\ BooksKept
  BY MoneyStep DEF MoneyInv
<1>3. MatchesInv => BooksTyped
  BY BooksNat
<1>4. BooksInv /\ BooksTyped /\ BooksKept /\ BooksTyped' => BooksInv'
  <2>1. \A x, y, v, w \in Nat : v >= w /\ x + w >= v + y => x >= y
    OBVIOUS
  <2>2. BooksTyped /\ BooksTyped' => balance \in Nat /\ balance' \in Nat /\ Books \in Nat /\ Books' \in Nat
    BY DEF BooksTyped
  <2>. HIDE DEF Books
  <2>. QED
    BY ONLY <2>1, <2>2, Zenon DEF BooksInv, BooksKept
<1>. QED
  BY <1>1, <1>2, <1>3, <1>4, PTL DEF MatchesSpec, MoneyInv

(* After finalization, and until the sweep, the pool suffices for every    *)
(* winner who has not claimed yet, whoever claimed before, in whatever     *)
(* order claims, late bets, refunds and ledger failures come (place_bet,   *)
(* finalize_result, claim_match_reward); provided no oracle reports a      *)
(* result before the kick-off.                                             *)
THEOREM WinnersCovered ==
    ASSUME ~EarlyReports
    PROVE  MatchesSpec => []WinnersStayCovered
<1>1. MoneyInv => WinnersStayCovered
  BY SharesInvIsEnough DEF MoneyInv, MatchesInv
<1>. QED
  BY <1>1, MoneyInvariant, PTL

(* The program always holds the VARA on its books and what its suspended   *)
(* calls have yet to send, whatever order bets, claims, cancellations,     *)
(* ledger failures, refunds and sweeps come in: no payout fails for want of*)
(* balance (exec::value_available against total_locked_vara); provided no  *)
(* oracle reports a result before the kick-off.                            *)
THEOREM BooksCovered ==
    ASSUME ~EarlyReports
    PROVE  MatchesSpec => []BooksAreCovered
<1>1. MoneyInv => BooksAreCovered
  BY BooksInvIsEnough DEF MoneyInv
<1>. QED
  BY <1>1, MoneyInvariant, PTL

----------------------------------------------------------------------------
(* What a bet brings.  A bet is paid only once it is closed, and what it is*)
(* then entitled to never changes; it covers what was paid and what        *)
(* suspended calls have still to send for it.                              *)

(* Of an existing bet only `claimed` changes, and only from FALSE.         *)
BetsStay ==
    \A u \in Users, m \in MatchIds :
        bets[<<u, m>>] # NoBet =>
            /\ bets'[<<u, m>>] # NoBet
            /\ bets'[<<u, m>>].prediction = bets[<<u, m>>].prediction
            /\ bets'[<<u, m>>].stake_in_match_pool = bets[<<u, m>>].stake_in_match_pool
            /\ bets'[<<u, m>>].freebet_principal = bets[<<u, m>>].freebet_principal
            /\ bets[<<u, m>>].claimed => bets'[<<u, m>>].claimed

LEMMA BetsStayStep ==
    ASSUME MatchesInv, MoneyMoves
    PROVE  BetsStay
<1>. SUFFICES ASSUME NEW u \in Users, NEW m \in MatchIds, bets[<<u, m>>] \in Bets,
                     bets[<<u, m>>] # NoBet
              PROVE  /\ bets'[<<u, m>>] \in Bets
                     /\ bets'[<<u, m>>].prediction = bets[<<u, m>>].prediction
                     /\ bets'[<<u, m>>].stake_in_match_pool = bets[<<u, m>>].stake_in_match_pool
                     /\ bets'[<<u, m>>].freebet_principal = bets[<<u, m>>].freebet_principal
                     /\ bets[<<u, m>>].claimed => bets'[<<u, m>>].claimed
  BY BettorsBet, MarkerAssumption DEF BetsStay, MatchesInv
<1>. DEFINE Stays == \/ bets'[<<u, m>>] = bets[<<u, m>>]
                     \/ bets'[<<u, m>>] = [bets[<<u, m>>] EXCEPT !.claimed = TRUE]
<1>1. Stays
  <2>1. ASSUME NEW v \in Users, NEW n \in MatchIds, BetPlaced(v, n)
        PROVE  bets'[<<u, m>>] = bets[<<u, m>>]
    BY <2>1 DEF BetPlaced, RecordBet, MatchesInv, MatchesTypeOK
  <2>2. ASSUME NEW v \in Users, NEW n \in MatchIds, BetClaimed(v, n)
        PROVE  Stays
    BY <2>2 DEF BetClaimed, MarkClaimed, MatchesInv, MatchesTypeOK
  <2>3. ASSUME NEW n \in MatchIds, MatchVoided(n)
        PROVE  Stays
    BY <2>3 DEF MatchVoided, VoidMatch
  <2>4. ASSUME UNCHANGED bets
        PROVE  bets'[<<u, m>>] = bets[<<u, m>>]
    BY <2>4
  <2>. QED
    BY <2>1, <2>2, <2>3, <2>4
       DEF MoneyMoves, PhaseAdded, MatchAdded, ResultSet, PoolSwept, FinalizeResult, RefundSent
<1>. QED
  BY <1>1 DEF Bets

(* What a finalized match keeps: its result, the winner stake, the bets,   *)
(* and until the sweep the pool.                                           *)
FinalStays(m) ==
    /\ matches'[m].result = matches[m].result
    /\ matches'[m].total_winner_stake = matches[m].total_winner_stake
    /\ Weight(m)' = Weight(m)
    /\ ~matches'[m].dust_swept =>
          ~matches[m].dust_swept /\ matches'[m].match_prize_pool = matches[m].match_prize_pool
    /\ \A u \in Users : bets[<<u, m>>] = NoBet => bets'[<<u, m>>] = NoBet

LEMMA FinalMatchStays ==
    ASSUME MatchesInv, KickedOff, now \in Nat, MoneyMoves,
           NEW m \in Registered, Status(m) = "Finalized"
    PROVE  /\ matches'[m].phase = matches[m].phase
           /\ matches'[m].result = matches[m].result
           /\ matches'[m].total_winner_stake = matches[m].total_winner_stake
           /\ ~matches'[m].dust_swept =>
                 ~matches[m].dust_swept /\ matches'[m].match_prize_pool = matches[m].match_prize_pool
           /\ \A u \in Users : bets[<<u, m>>] = NoBet => bets'[<<u, m>>] = NoBet
<1>. DEFINE Stays ==
         /\ matches'[m].phase = matches[m].phase
         /\ matches'[m].result = matches[m].result
         /\ matches'[m].total_winner_stake = matches[m].total_winner_stake
         /\ ~matches'[m].dust_swept =>
               ~matches[m].dust_swept /\ matches'[m].match_prize_pool = matches[m].match_prize_pool
         /\ \A u \in Users : bets[<<u, m>>] = NoBet => bets'[<<u, m>>] = NoBet
<1>1. m \in MatchIds /\ matches[m] \in Matches
  BY MatchTyped DEF MatchesInv
<1>2. ~BettingOpen(m)
  BY <1>1, MatchesAssumption DEF KickedOff, BettingOpen, SaturatingSub, Matches
<1>3. ASSUME matches'[m] = matches[m],
             \A u \in Users : bets[<<u, m>>] = NoBet => bets'[<<u, m>>] = NoBet
      PROVE  Stays
  BY <1>3
<1>4. ASSUME PhaseAdded \/ MatchAdded
      PROVE  Stays
  BY <1>1, <1>4, <1>3 DEF PhaseAdded, MatchAdded, MatchesInv, MatchesTypeOK
<1>5. ASSUME NEW u \in Users, NEW n \in MatchIds, BetPlaced(u, n)
      PROVE  Stays
  <2>1. n # m
    BY <1>2, <1>5 DEF BetPlaced
  <2>. QED
    BY <1>1, <1>3, <1>5, <2>1 DEF BetPlaced, RecordBet, MatchesInv, MatchesTypeOK
<1>6. ASSUME NEW u \in Users, NEW n \in MatchIds, BetClaimed(u, n)
      PROVE  Stays
  <2>1. \A v \in Users : bets[<<v, m>>] = NoBet => bets'[<<v, m>>] = NoBet
    BY <1>1, <1>6 DEF BetClaimed, MarkClaimed, Claimable, MatchesInv, MatchesTypeOK
  <2>2. CASE n # m
    BY <1>1, <1>3, <1>6, <2>1, <2>2 DEF BetClaimed, MarkClaimed, MatchesInv, MatchesTypeOK
  <2>3. CASE n = m
    <3>1. matches'[m] = [matches[m] EXCEPT !.total_claimed = @ + ShareOf(u, m)]
      BY <1>1, <1>6, <2>3 DEF BetClaimed, MarkClaimed, MatchesInv, MatchesTypeOK
    <3>. QED
      BY <1>1, <2>1, <3>1 DEF Matches
  <2>. QED
    BY <2>2, <2>3
<1>7. ASSUME NEW n \in MatchIds, ResultSet(n)
      PROVE  Stays
  BY <1>1, <1>3, <1>7 DEF ResultSet, Undecided, MatchesInv, MatchesTypeOK
<1>8. ASSUME NEW n \in MatchIds, MatchVoided(n)
      PROVE  Stays
  <2>1. n # m
    BY <1>8 DEF MatchVoided, VoidMatch
  <2>2. matches'[m] = matches[m]
    BY <1>1, <1>8, <2>1 DEF MatchVoided, VoidMatch, MatchesInv, MatchesTypeOK
  <2>3. \A u \in Users : bets'[<<u, m>>] = bets[<<u, m>>]
    BY <1>1, <1>8, <2>1 DEF MatchVoided, VoidMatch
  <2>. QED
    BY <1>3, <2>2, <2>3
<1>9. ASSUME NEW n \in MatchIds, PoolSwept(n)
      PROVE  Stays
  <2>1. UNCHANGED bets
    BY <1>9 DEF PoolSwept
  <2>2. CASE n # m
    BY <1>1, <1>3, <1>9, <2>1, <2>2 DEF PoolSwept, MatchesInv, MatchesTypeOK
  <2>3. CASE n = m
    <3>1. matches'[m] = [matches[m] EXCEPT !.match_prize_pool = 0, !.dust_swept = TRUE]
      BY <1>1, <1>9, <2>3 DEF PoolSwept, MatchesInv, MatchesTypeOK
    <3>. QED
      BY <1>1, <2>1, <3>1 DEF Matches
  <2>. QED
    BY <2>2, <2>3
<1>10. ASSUME NEW n \in MatchIds, FinalizeResult(n)
       PROVE  Stays
  <2>1. n # m /\ UNCHANGED bets
    BY <1>10 DEF FinalizeResult
  <2>2. matches'[m] = matches[m]
    BY <1>1, <1>10, <2>1 DEF FinalizeResult, MatchesInv, MatchesTypeOK
  <2>. QED
    BY <1>3, <2>1, <2>2
<1>11. ASSUME \/ \E u \in Users : RefundSent(u)
              \/ UNCHANGED <<phases, matches, bets, refundVars>>
       PROVE  Stays
  BY <1>3, <1>11 DEF RefundSent
<1>12. Stays
  <2>. HIDE DEF Stays
  <2>. QED
    BY <1>4, <1>5, <1>6, <1>7, <1>8, <1>9, <1>10, <1>11 DEF MoneyMoves
<1>. QED
  BY <1>12

LEMMA FinalStaysStep ==
    ASSUME MatchesInv, KickedOff, now \in Nat, SharesInv, MoneyMoves,
           NEW m \in Registered, Status(m) = "Finalized"
    PROVE  FinalStays(m)
<1>1. matches'[m].phase = matches[m].phase
  BY FinalMatchStays
<1>2. Weight(m) # 0 /\ matches[m].phase \in PhaseNames
  BY MatchTyped DEF SharesInv, SharesBooked, MatchesInv, Matches
<1>3. UNCHANGED phases \/ PhaseAdded
  BY DEF MoneyMoves, MatchAdded, BetPlaced, BetClaimed, ResultSet, MatchVoided, PoolSwept,
     FinalizeResult, boardVars, RefundSent
<1>4. phases'[matches[m].phase] = phases[matches[m].phase]
  BY <1>2, <1>3 DEF PhaseAdded, Weight, MatchesInv, MatchesTypeOK
<1>. QED
  BY <1>1, <1>4, FinalMatchStays DEF FinalStays, Weight

(* Until the sweep the pool of a finalized match is all that was staked.   *)
PoolKept(m) ==
    Status(m) = "Finalized" /\ ~matches[m].dust_swept
        => matches[m].match_prize_pool = SumOver(StakesIn(m), Users)

PoolsKept == \A m \in Registered : PoolKept(m)

LEMMA StakesInStay ==
    ASSUME BetsStay, NEW m \in MatchIds,
           \A u \in Users : bets[<<u, m>>] = NoBet => bets'[<<u, m>>] = NoBet
    PROVE  StakesIn(m)' = StakesIn(m)
<1>1. \A u \in Users : StakesIn(m)'[u] = StakesIn(m)[u]
  BY DEF StakesIn, BetsStay
<1>. QED
  BY <1>1 DEF StakesIn

LEMMA PoolsKeptStep ==
    ASSUME MatchesInv, KickedOff, now \in Nat, SharesInv, PoolsInv, PoolsKept, MoneyMoves,
           [MatchesNext]_allMatchesVars
    PROVE  PoolsKept'
<1>. SUFFICES ASSUME NEW m \in Registered', matches'[m].result.status = "Finalized",
                     ~matches'[m].dust_swept
              PROVE  matches'[m].match_prize_pool = SumOver(StakesIn(m), Users)'
  BY DEF PoolsKept, PoolKept, Status
<1>1. m \in Registered
  BY NewMatchUnresolved DEF Unresolved
<1>2. m \in MatchIds /\ matches[m] \in Matches
  BY <1>1, MatchTyped DEF MatchesInv
<1>3. CASE Status(m) = "Finalized"
  <2>1. FinalStays(m) /\ BetsStay
    BY <1>1, <1>3, FinalStaysStep, BetsStayStep
  <2>2. StakesIn(m)' = StakesIn(m)
    BY <1>2, <2>1, StakesInStay DEF FinalStays
  <2>. QED
    BY <1>1, <1>3, <2>1, <2>2 DEF FinalStays, PoolsKept, PoolKept
<1>4. CASE FinalizeResult(m)
  <2>1. /\ Status(m) = "Proposed" /\ UNCHANGED bets
        /\ matches'[m].dust_swept = (matches[m].dust_swept \/ WinnerStake(m, matches[m].result.final) = 0)
        /\ matches'[m].match_prize_pool =
              IF WinnerStake(m, matches[m].result.final) = 0 THEN 0
              ELSE matches[m].match_prize_pool
    BY <1>2, <1>4 DEF FinalizeResult, MatchesInv, MatchesTypeOK, Matches
  <2>2. StakesIn(m)' = StakesIn(m)
    BY <2>1 DEF StakesIn
  <2>3. matches[m].match_prize_pool = SumOver(StakesIn(m), Users)
    BY <1>1, <2>1 DEF PoolsInv, PoolHeld, Undecided
  <2>. QED
    BY <2>1, <2>2, <2>3
<1>5. Status(m) = "Finalized" \/ FinalizeResult(m)
  <2>1. MatchMoves(m)
    BY <1>1, StepMoves
  <2>2. ASSUME NEW stake \in Nat,
               \/ matches'[m] = matches[m]
               \/ matches'[m] = [matches[m] EXCEPT !.match_prize_pool = @ + stake]
               \/ matches'[m] = [matches[m] EXCEPT !.total_claimed = stake]
               \/ matches'[m] = [matches[m] EXCEPT !.match_prize_pool = 0, !.dust_swept = TRUE]
        PROVE  Status(m) = "Finalized"
    BY <1>2, <2>2 DEF Status, Matches
  <2>3. ASSUME NEW r,
               \/ matches'[m] = [matches[m] EXCEPT !.result = Proposed(r, now)]
               \/ matches'[m] = [matches[m] EXCEPT !.result = Unresolved]
        PROVE  FALSE
    BY <1>2, <2>3 DEF Matches, Proposed, Unresolved
  <2>4. \A caller : ~VoidMatch(caller, m)
    BY <1>1, VoidMoves
  <2>. QED
    BY <2>1, <2>2, <2>3, <2>4 DEF MatchMoves
<1>. QED
  BY <1>3, <1>4, <1>5

(* A freebet is all principal, a cash bet has none.                        *)
PrincipalsAreStakes ==
    \A u \in Users, m \in MatchIds :
        bets[<<u, m>>] # NoBet
            => bets[<<u, m>>].freebet_principal \in {0, bets[<<u, m>>].stake_in_match_pool}

LEMMA PrincipalsStep ==
    ASSUME MatchesInv, PrincipalsAreStakes, MoneyMoves
    PROVE  PrincipalsAreStakes'
<1>1. BetsStay
  BY BetsStayStep
<1>2. ASSUME \A u \in Users, m \in MatchIds :
                bets[<<u, m>>] = NoBet => bets'[<<u, m>>] = NoBet
      PROVE  PrincipalsAreStakes'
  BY <1>1, <1>2 DEF PrincipalsAreStakes, BetsStay
<1>3. ASSUME NEW v \in Users, NEW n \in MatchIds, BetPlaced(v, n)
      PROVE  PrincipalsAreStakes'
  <2>1. PICK p \in Guesses, stake \in Nat, principal \in Nat :
            principal \in {0, stake} /\ RecordBet(v, n, p, stake, principal)
    BY <1>3 DEF BetPlaced
  <2>2. /\ bets'[<<v, n>>].freebet_principal = principal
        /\ bets'[<<v, n>>].stake_in_match_pool = stake
    BY <2>1 DEF RecordBet, MatchesInv, MatchesTypeOK
  <2>3. \A u \in Users, m \in MatchIds :
            <<u, m>> # <<v, n>> => bets'[<<u, m>>] = bets[<<u, m>>]
    BY <2>1 DEF RecordBet, MatchesInv, MatchesTypeOK
  <2>. QED
    BY <2>1, <2>2, <2>3 DEF PrincipalsAreStakes
<1>4. ASSUME NEW v \in Users, NEW n \in MatchIds, BetClaimed(v, n)
      PROVE  PrincipalsAreStakes'
  BY <1>2, <1>4 DEF BetClaimed, MarkClaimed, Claimable, MatchesInv, MatchesTypeOK
<1>5. ASSUME NEW n \in MatchIds, MatchVoided(n)
      PROVE  PrincipalsAreStakes'
  BY <1>2, <1>5 DEF MatchVoided, VoidMatch, Refundable, Bettors
<1>. QED
  BY <1>2, <1>3, <1>4, <1>5
     DEF MoneyMoves, PhaseAdded, MatchAdded, ResultSet, PoolSwept, FinalizeResult, RefundSent

(* What a closed bet is entitled to.                                       *)
Closed(u, m) == bets[<<u, m>>] # NoBet /\ bets[<<u, m>>].claimed

AmountDue(u, m) ==
    IF Status(m) = "Cancelled" THEN bets[<<u, m>>].freebet_principal
    ELSE IF Eligible(u, m, matches[m].result.final) /\ matches[m].total_winner_stake # 0
         THEN Share(bets[<<u, m>>].stake_in_match_pool, SumOver(StakesIn(m), Users),
                    matches[m].total_winner_stake)
         ELSE 0

Entitled(u, m) == IF Closed(u, m) THEN AmountDue(u, m) ELSE 0

LEMMA StakesInNat ==
    ASSUME MatchesInv, NEW m \in MatchIds
    PROVE  SumOver(StakesIn(m), Users) \in Nat
<1>1. \A u \in Users : StakesIn(m)[u] \in Nat
  BY StakesNat DEF StakesIn, MatchesInv, MatchesTypeOK
<1>. QED
  BY <1>1, SumOverNat, MatchesAssumption

LEMMA DueNat ==
    ASSUME MatchesInv, NEW m \in Registered, NEW u \in Users, bets[<<u, m>>] # NoBet
    PROVE  AmountDue(u, m) \in Nat
<1>1. m \in MatchIds /\ matches[m].total_winner_stake \in Nat /\ bets[<<u, m>>] \in Bets
  BY MatchTyped, BettorsBet DEF MatchesInv, Matches
<1>2. SumOver(StakesIn(m), Users) \in Nat
  BY <1>1, StakesInNat
<1>3. matches[m].total_winner_stake # 0 =>
        Share(bets[<<u, m>>].stake_in_match_pool, SumOver(StakesIn(m), Users),
              matches[m].total_winner_stake) \in Nat
  BY <1>1, <1>2, ShareNat DEF Bets
<1>. QED
  BY <1>1, <1>3 DEF AmountDue, Bets

EntitledTyped == \A u \in Users, m \in MatchIds : Entitled(u, m) \in Nat

LEMMA EntitledNat == MatchesInv /\ PoolsInv => EntitledTyped
BY DueNat DEF EntitledTyped, Entitled, Closed, PoolsInv

(* What a closed bet is entitled to stays. *)
LEMMA EntitledStays ==
    ASSUME MatchesInv, KickedOff, now \in Nat, OpenUntilDecided, SharesInv, MoneyMoves,
           [MatchesNext]_allMatchesVars, NEW m \in MatchIds, NEW u \in Users, Closed(u, m)
    PROVE  Entitled(u, m)' = Entitled(u, m)
<1>1. m \in Registered /\ Status(m) \in {"Finalized", "Cancelled"}
  BY DEF OpenUntilDecided, Closed
<1>2. BetsStay /\ Closed(u, m)'
  BY BetsStayStep DEF BetsStay, Closed
<1>3. CASE Status(m) = "Finalized"
  <2>1. FinalStays(m)
    BY <1>1, <1>3, FinalStaysStep
  <2>2. StakesIn(m)' = StakesIn(m)
    BY <1>2, <2>1, StakesInStay DEF FinalStays
  <2>3. Status(m)' = "Finalized"
    BY <1>3, <2>1 DEF FinalStays, Status
  <2>4. Eligible(u, m, matches[m].result.final)' = Eligible(u, m, matches[m].result.final)
    BY <1>2, <2>1 DEF FinalStays, Eligible, Closed, BetsStay
  <2>5. AmountDue(u, m)' = AmountDue(u, m)
    BY <1>2, <1>3, <2>1, <2>2, <2>3, <2>4 DEF AmountDue, FinalStays, Closed, BetsStay
  <2>. QED
    BY <1>2, <2>5 DEF Entitled
<1>4. CASE Status(m) = "Cancelled"
  <2>1. Status(m)' = "Cancelled"
    BY <1>1, <1>4, StepMoves, ResultLife DEF Status
  <2>2. AmountDue(u, m)' = AmountDue(u, m)
    BY <1>2, <1>4, <2>1 DEF AmountDue, Closed, BetsStay
  <2>. QED
    BY <1>2, <2>2 DEF Entitled
<1>. QED
  BY <1>1, <1>3, <1>4

LEMMA EntitledGrows ==
    ASSUME MatchesInv, EntitledTyped', KickedOff, now \in Nat, OpenUntilDecided, SharesInv,
           MoneyMoves, [MatchesNext]_allMatchesVars,
           NEW m \in MatchIds, NEW u \in Users
    PROVE  Entitled(u, m)' >= Entitled(u, m)
<1>1. Entitled(u, m)' \in Nat
  BY DEF EntitledTyped
<1>2. CASE Closed(u, m)
  BY <1>1, <1>2, EntitledStays
<1>3. CASE ~Closed(u, m)
  BY <1>1, <1>3 DEF Entitled
<1>. QED
  BY <1>2, <1>3

(* What a suspended call has still to send for u's bet on m.               *)
OwedFor(call, u, m) ==
    IF call = NoCall \/ call.match # m THEN 0
    ELSE (IF call.user = u THEN call.payout ELSE 0)
             + (IF u \in call.todo THEN bets[<<u, m>>].stake_in_match_pool ELSE 0)

OwedTo(u, m) == [s \in ReturnSlots |-> OwedFor(returns[s], u, m)]

PaidOrOwed(u, m) == paid[<<u, m>>] + SumOver(OwedTo(u, m), ReturnSlots)

PaidInv ==
    \A u \in Users, m \in MatchIds : PaidOrOwed(u, m) <= Entitled(u, m)

(* Only a claim has a payout to make, and a cancellation freebets to send. *)
PayoutsComeLast ==
    \A s \in ReturnSlots :
        returns[s] # NoCall /\ returns[s].todo # {} => returns[s].payout = 0

LEMMA OwedForNat ==
    ASSUME MatchesInv, NEW s \in ReturnSlots, NEW u \in Users, NEW m \in MatchIds
    PROVE  OwedFor(returns[s], u, m) \in Nat
<1>1. CASE returns[s] = NoCall
  BY <1>1 DEF OwedFor
<1>2. CASE returns[s] # NoCall
  <2>1. returns[s] \in Returns
    BY <1>2 DEF MatchesInv, MatchesTypeOK
  <2>2. u \in returns[s].todo /\ returns[s].match = m => bets[<<u, m>>] \in Bets
    BY <1>2, <2>1, BettorsBet DEF MatchesInv, ReturnsHaveBets
  <2>. QED
    BY <1>2, <2>1, <2>2 DEF OwedFor, Returns, Bets
<1>. QED
  BY <1>1, <1>2

LEMMA OwedForKept ==
    ASSUME MatchesInv, BetsStay, NEW s \in ReturnSlots, returns'[s] = returns[s],
           NEW u \in Users, NEW m \in MatchIds
    PROVE  OwedFor(returns[s], u, m)' = OwedFor(returns[s], u, m)
<1>1. CASE returns[s] = NoCall
  BY <1>1 DEF OwedFor
<1>2. CASE returns[s] # NoCall
  <2>1. u \in returns[s].todo /\ returns[s].match = m =>
            bets'[<<u, m>>].stake_in_match_pool = bets[<<u, m>>].stake_in_match_pool
    BY <1>2 DEF MatchesInv, ReturnsHaveBets, BetsStay
  <2>. QED
    BY <1>2, <2>1 DEF OwedFor
<1>. QED
  BY <1>1, <1>2

(* A step that concerns one call. *)
LEMMA OwedToChange ==
    ASSUME MatchesInv, BetsStay, NEW slot \in ReturnSlots, NEW u \in Users, NEW m \in MatchIds,
           \A s \in ReturnSlots \ {slot} : returns'[s] = returns[s],
           NEW owed \in Nat, OwedFor(returns[slot], u, m)' = owed
    PROVE  SumOver(OwedTo(u, m), ReturnSlots)'
               = SumOver(OwedTo(u, m), ReturnSlots) - OwedFor(returns[slot], u, m) + owed
<1>1. \A s \in ReturnSlots \ {slot} : OwedTo(u, m)[s] = OwedTo(u, m)'[s]
  BY OwedForKept DEF OwedTo
<1>2. \A s \in ReturnSlots : OwedTo(u, m)[s] \in Nat
  BY OwedForNat DEF OwedTo
<1>3. OwedTo(u, m)'[slot] = owed /\ OwedTo(u, m)[slot] = OwedFor(returns[slot], u, m)
  BY DEF OwedTo
<1>4. \A s \in ReturnSlots : OwedTo(u, m)'[s] \in Nat
  BY <1>1, <1>2, <1>3
<1>5. IsFiniteSet(ReturnSlots)
  BY MatchesAssumption
<1>6. SumOver(OwedTo(u, m)', ReturnSlots)
          = SumOver(OwedTo(u, m), ReturnSlots) - OwedTo(u, m)[slot] + OwedTo(u, m)'[slot]
  BY <1>1, <1>2, <1>4, <1>5, SumOverChange
<1>. QED
  BY <1>3, <1>6

LEMMA OwedToSame ==
    ASSUME MatchesInv, BetsStay, UNCHANGED returns, NEW u \in Users, NEW m \in MatchIds
    PROVE  SumOver(OwedTo(u, m), ReturnSlots)' = SumOver(OwedTo(u, m), ReturnSlots)
<1>1. OwedTo(u, m)' = OwedTo(u, m)
  BY OwedForKept DEF OwedTo
<1>. QED
  BY <1>1

LEMMA PaidNumbers ==
    ASSUME MatchesInv, NEW u \in Users, NEW m \in MatchIds
    PROVE  paid[<<u, m>>] \in Int /\ SumOver(OwedTo(u, m), ReturnSlots) \in Nat
<1>1. \A s \in ReturnSlots : OwedTo(u, m)[s] \in Nat
  BY OwedForNat DEF OwedTo
<1>2. SumOver(OwedTo(u, m), ReturnSlots) \in Nat
  BY <1>1, SumOverNat, MatchesAssumption
<1>. QED
  BY <1>2 DEF MatchesInv, MatchesTypeOK

(* A step that concerns one call changes what was paid or is owed for a bet*)
(* by what it sends, and by what the call owes now instead of before.      *)
LEMMA PaidChange ==
    ASSUME MatchesInv, BetsStay, NEW slot \in ReturnSlots, NEW u \in Users, NEW m \in MatchIds,
           \A s \in ReturnSlots \ {slot} : returns'[s] = returns[s],
           NEW owed \in Nat, OwedFor(returns[slot], u, m)' = owed,
           NEW sent \in Int, paid'[<<u, m>>] = paid[<<u, m>>] + sent
    PROVE  PaidOrOwed(u, m)' = PaidOrOwed(u, m) - OwedFor(returns[slot], u, m) + owed + sent
<1>1. SumOver(OwedTo(u, m), ReturnSlots)'
          = SumOver(OwedTo(u, m), ReturnSlots) - OwedFor(returns[slot], u, m) + owed
  BY OwedToChange
<1>2. OwedFor(returns[slot], u, m) \in Nat
  BY OwedForNat
<1>. QED
  BY <1>1, <1>2, PaidNumbers DEF PaidOrOwed

\* The call in `slot` has sent `amount` for u's bet on n.
CallMade(u, n, amount, todo, payout, slot) ==
    /\ \A s \in ReturnSlots \ {slot} : returns'[s] = returns[s]
    /\ returns'[slot] # NoCall /\ returns'[slot].match = n /\ returns'[slot].user = u
    /\ returns'[slot].todo = todo /\ returns'[slot].payout = payout
    /\ paid'[<<u, n>>] = paid[<<u, n>>] + amount
    /\ \A k \in Users \X MatchIds : k # <<u, n>> => paid'[k] = paid[k] + 0

LEMMA SentCall ==
    ASSUME MatchesInv, NEW n \in MatchIds, NEW u \in Users, NEW amount \in Nat,
           NEW todo \in SUBSET Bettors(n), NEW payout \in Nat, NEW slot \in ReturnSlots,
           SendToLedger(u, n, amount, todo, payout, slot)
    PROVE  CallMade(u, n, amount, todo, payout, slot)
<1>. DEFINE call == [match |-> n, user |-> u, amount |-> amount, todo |-> todo, payout |-> payout]
<1>1. returns'[slot] = call /\ \A s \in ReturnSlots \ {slot} : returns'[s] = returns[s]
  BY DEF SendToLedger, MatchesInv, MatchesTypeOK
<1>2. call \in Returns
  <2>1. todo \subseteq Users
    BY DEF Bettors
  <2>. QED
    BY <2>1 DEF Returns
<1>3. call # NoCall
  BY <1>2, MarkerAssumption
<1>4. /\ paid' = [paid EXCEPT ![<<u, n>>] = @ + amount]
      /\ paid \in [Users \X MatchIds -> Int]
  BY DEF SendToLedger, MatchesInv, MatchesTypeOK
<1>5. ASSUME NEW k \in Users \X MatchIds, k # <<u, n>>
      PROVE  paid'[k] = paid[k] + 0
  <2>1. paid'[k] = paid[k] /\ paid[k] \in Int
    BY <1>4, <1>5
  <2>. QED
    BY <2>1
<1>. QED
  BY <1>1, <1>3, <1>4, <1>5 DEF CallMade

(* A call sends one amount, and a payout is still to follow. *)
LEMMA SentHere ==
    ASSUME MatchesInv, BetsStay, NEW n \in MatchIds, NEW u \in Users, NEW amount \in Nat,
           NEW todo \in SUBSET Bettors(n), NEW payout \in Nat, NEW slot \in ReturnSlots,
           SendToLedger(u, n, amount, todo, payout, slot), u \notin todo
    PROVE  PaidOrOwed(u, n)' = PaidOrOwed(u, n) - OwedFor(returns[slot], u, n) + payout + amount
<1>0. CallMade(u, n, amount, todo, payout, slot)
  BY SentCall
<1>1. OwedFor(returns[slot], u, n)' = payout
  BY <1>0 DEF OwedFor, CallMade
<1>2. /\ paid'[<<u, n>>] = paid[<<u, n>>] + amount
      /\ \A s \in ReturnSlots \ {slot} : returns'[s] = returns[s]
  BY <1>0 DEF CallMade
<1>. QED
  BY <1>1, <1>2, PaidChange

(* Nothing else is left to send. *)
LEMMA SentOnly ==
    ASSUME MatchesInv, BetsStay, NEW n \in MatchIds, NEW u \in Users, NEW amount \in Nat,
           NEW payout \in Nat, NEW slot \in ReturnSlots,
           SendToLedger(u, n, amount, {}, payout, slot)
    PROVE  PaidOrOwed(u, n)' = PaidOrOwed(u, n) - OwedFor(returns[slot], u, n) + payout + amount
<1>1. {} \in SUBSET Bettors(n) /\ u \notin {}
  OBVIOUS
<1>. QED
  BY <1>1, SentHere

(* The freebets of the others are still to be sent. *)
LEMMA SentLater ==
    ASSUME MatchesInv, BetsStay, NEW n \in MatchIds, NEW u \in Users, NEW amount \in Nat,
           NEW todo \in SUBSET Bettors(n), NEW payout \in Nat, NEW slot \in ReturnSlots,
           SendToLedger(u, n, amount, todo, payout, slot), NEW v \in todo, v # u
    PROVE  PaidOrOwed(v, n)' = PaidOrOwed(v, n) - OwedFor(returns[slot], v, n)
                                   + bets[<<v, n>>].stake_in_match_pool + 0
<1>0. CallMade(u, n, amount, todo, payout, slot)
  BY SentCall
<1>. DEFINE stake == bets[<<v, n>>].stake_in_match_pool
<1>1. v \in Users /\ stake \in Nat /\ bets'[<<v, n>>].stake_in_match_pool = stake
  BY BettorsBet DEF Bettors, MatchesInv, Bets, BetsStay
<1>. HIDE DEF stake
<1>2. OwedFor(returns[slot], v, n)' = stake
  BY <1>0, <1>1 DEF OwedFor, CallMade
<1>3. /\ paid'[<<v, n>>] = paid[<<v, n>>] + 0
      /\ \A s \in ReturnSlots \ {slot} : returns'[s] = returns[s]
  BY <1>0, <1>1 DEF CallMade
<1>4. PaidOrOwed(v, n)' = PaidOrOwed(v, n) - OwedFor(returns[slot], v, n) + stake + 0
  BY <1>1, <1>2, <1>3, PaidChange
<1>. QED
  BY <1>4 DEF stake

(* No other bet is concerned. *)
LEMMA SentElsewhere ==
    ASSUME MatchesInv, BetsStay, NEW n \in MatchIds, NEW u \in Users, NEW amount \in Nat,
           NEW todo \in SUBSET Bettors(n), NEW payout \in Nat, NEW slot \in ReturnSlots,
           SendToLedger(u, n, amount, todo, payout, slot),
           NEW v \in Users, NEW m \in MatchIds, m # n \/ (v # u /\ v \notin todo)
    PROVE  PaidOrOwed(v, m)' = PaidOrOwed(v, m) - OwedFor(returns[slot], v, m) + 0 + 0
<1>0. CallMade(u, n, amount, todo, payout, slot)
  BY SentCall
<1>1. OwedFor(returns[slot], v, m)' = 0
  BY <1>0 DEF OwedFor, CallMade
<1>2. /\ paid'[<<v, m>>] = paid[<<v, m>>] + 0
      /\ \A s \in ReturnSlots \ {slot} : returns'[s] = returns[s]
  BY <1>0 DEF CallMade
<1>. QED
  BY <1>1, <1>2, PaidChange

(* A step that pays and owes no more than before. *)
LEMMA NoMorePaid ==
    ASSUME MatchesInv, PaidInv, EntitledTyped, EntitledTyped',
           \A u \in Users, m \in MatchIds : Entitled(u, m)' >= Entitled(u, m),
           \A u \in Users, m \in MatchIds :
              PaidOrOwed(u, m)' \in Int /\ PaidOrOwed(u, m)' <= PaidOrOwed(u, m)
    PROVE  PaidInv'
<1>. SUFFICES ASSUME NEW u \in Users, NEW m \in MatchIds
              PROVE  PaidOrOwed(u, m)' <= Entitled(u, m)'
  BY DEF PaidInv
<1>1. /\ PaidOrOwed(u, m) <= Entitled(u, m) /\ Entitled(u, m) \in Nat /\ Entitled(u, m)' \in Nat
      /\ Entitled(u, m)' >= Entitled(u, m)
      /\ PaidOrOwed(u, m)' \in Int /\ PaidOrOwed(u, m)' <= PaidOrOwed(u, m)
  BY DEF PaidInv, EntitledTyped
<1>2. PaidOrOwed(u, m) \in Int
  BY PaidNumbers DEF PaidOrOwed
<1>. HIDE DEF PaidOrOwed, Entitled
<1>. QED
  BY <1>1, <1>2

LEMMA NothingPaid ==
    ASSUME MatchesInv, BetsStay, UNCHANGED <<paid, returns>>
    PROVE  \A u \in Users, m \in MatchIds :
              PaidOrOwed(u, m)' \in Int /\ PaidOrOwed(u, m)' <= PaidOrOwed(u, m)
<1>. SUFFICES ASSUME NEW u \in Users, NEW m \in MatchIds
              PROVE  PaidOrOwed(u, m)' \in Int /\ PaidOrOwed(u, m)' <= PaidOrOwed(u, m)
  OBVIOUS
<1>1. PaidOrOwed(u, m)' = PaidOrOwed(u, m)
  BY OwedToSame DEF PaidOrOwed
<1>2. PaidOrOwed(u, m) \in Int
  BY PaidNumbers DEF PaidOrOwed
<1>. HIDE DEF PaidOrOwed
<1>. QED
  BY <1>1, <1>2

(* What an open bet was paid, is owed and is entitled to: nothing. *)
LEMMA OpenIsUnpaid ==
    ASSUME PaidInv, NEW u \in Users, NEW m \in MatchIds, ~Closed(u, m)
    PROVE  PaidOrOwed(u, m) <= 0
BY DEF PaidInv, Entitled

LEMMA PaidInt ==
    ASSUME MatchesInv, NEW u \in Users, NEW m \in MatchIds
    PROVE  PaidOrOwed(u, m) \in Int
BY PaidNumbers DEF PaidOrOwed

(* A claim entitles to the share that it pays. *)
LEMMA ClaimEntitles ==
    ASSUME MatchesInv, KickedOff, now \in Nat, SharesInv, PoolsInv, PoolsKept, MoneyMoves,
           NEW u \in Users, NEW n \in MatchIds, Claimable(u, n), MarkClaimed(u, n)
    PROVE  Entitled(u, n)' = ShareOf(u, n) /\ ~Closed(u, n) /\ ShareOf(u, n) \in Nat
<1>1. /\ n \in Registered /\ Status(n) = "Finalized" /\ bets[<<u, n>>] # NoBet
      /\ ~bets[<<u, n>>].claimed /\ Eligible(u, n, matches[n].result.final)
      /\ matches[n].match_prize_pool # 0 /\ matches[n].total_winner_stake # 0
  BY DEF Claimable
<1>2. FinalStays(n) /\ BetsStay /\ matches[n] \in Matches /\ bets[<<u, n>>] \in Bets
  BY <1>1, FinalStaysStep, BetsStayStep, MatchTyped, BettorsBet DEF MatchesInv
<1>3. matches[n].match_prize_pool = SumOver(StakesIn(n), Users)
  <2>1. ~matches[n].dust_swept
    BY <1>1, <1>2 DEF PoolsInv, PoolHeld, Matches
  <2>. QED
    BY <1>1, <2>1 DEF PoolsKept, PoolKept
<1>4. Closed(u, n)'
  <2>1. bets'[<<u, n>>] = [bets[<<u, n>>] EXCEPT !.claimed = TRUE]
    BY DEF MarkClaimed, MatchesInv, MatchesTypeOK
  <2>2. bets'[<<u, n>>].claimed
    BY <1>2, <2>1 DEF Bets
  <2>. QED
    BY <1>1, <1>2, <2>2 DEF Closed, BetsStay
<1>5. StakesIn(n)' = StakesIn(n)
  BY <1>2, StakesInStay DEF FinalStays
<1>6. Status(n)' = "Finalized"
  BY <1>1, <1>2 DEF FinalStays, Status
<1>7. Eligible(u, n, matches[n].result.final)'
  <2>1. bets'[<<u, n>>].prediction = bets[<<u, n>>].prediction
    BY <1>1, <1>2 DEF BetsStay
  <2>. QED
    BY <1>1, <1>2, <2>1 DEF FinalStays, Eligible
<1>8. AmountDue(u, n)' = Share(bets[<<u, n>>].stake_in_match_pool, SumOver(StakesIn(n), Users),
                         matches[n].total_winner_stake)
  BY <1>1, <1>2, <1>5, <1>6, <1>7 DEF AmountDue, FinalStays, BetsStay
<1>9. Entitled(u, n)' = ShareOf(u, n)
  BY <1>3, <1>4, <1>8 DEF Entitled, ShareOf
<1>. QED
  BY <1>1, <1>9, ClaimableTyped DEF Closed, MatchesInv

(* A claim pays the share, or pays the principal and owes the rest.        *)
LEMMA CashClaimPays ==
    ASSUME MatchesInv, BetsStay, NEW u \in Users, NEW n \in MatchIds, ClaimMatchReward(u, n),
           NEW v \in Users, NEW m \in MatchIds
    PROVE  PaidOrOwed(v, m)' = PaidOrOwed(v, m) + IF v = u /\ m = n THEN ShareOf(u, n) ELSE 0
<1>. DEFINE share == ShareOf(u, n)
<1>1. share \in Nat
  BY ClaimableTyped DEF ClaimMatchReward, MatchesInv
<1>2. SumOver(OwedTo(v, m), ReturnSlots)' = SumOver(OwedTo(v, m), ReturnSlots)
  BY OwedToSame DEF ClaimMatchReward, callVars
<1>3. paid' = [paid EXCEPT ![<<u, n>>] = @ + share]
  BY DEF ClaimMatchReward
<1>4. paid \in [Users \X MatchIds -> Int] /\ paid[<<v, m>>] \in Int
  BY DEF MatchesInv, MatchesTypeOK
<1>. HIDE DEF share
<1>5. CASE v = u /\ m = n
  <2>1. paid'[<<v, m>>] = paid[<<v, m>>] + share
    BY <1>3, <1>4, <1>5
  <2>2. PaidOrOwed(v, m)' = PaidOrOwed(v, m) + share
    BY <1>1, <1>2, <1>4, <2>1, PaidNumbers DEF PaidOrOwed
  <2>. QED
    BY <1>5, <2>2 DEF share
<1>6. CASE ~(v = u /\ m = n)
  <2>1. paid'[<<v, m>>] = paid[<<v, m>>]
    BY <1>3, <1>4, <1>6
  <2>2. PaidOrOwed(v, m)' = PaidOrOwed(v, m) + 0
    BY <1>2, <1>4, <2>1, PaidNumbers DEF PaidOrOwed
  <2>. QED
    BY <1>6, <2>2
<1>. QED
  BY <1>5, <1>6

LEMMA FreebetClaimPays ==
    ASSUME MatchesInv, BetsStay, NEW u \in Users, NEW n \in MatchIds, NEW slot \in ReturnSlots,
           ClaimFreebetReward(u, n, slot), NEW v \in Users, NEW m \in MatchIds
    PROVE  PaidOrOwed(v, m)' = PaidOrOwed(v, m) + IF v = u /\ m = n THEN ShareOf(u, n) ELSE 0
<1>. DEFINE share == ShareOf(u, n)
            principal == PrincipalOf(u, n)
            rest == share - principal
<1>1. share \in Nat /\ principal \in Nat /\ rest \in Nat
  BY ClaimableTyped DEF ClaimFreebetReward, MatchesInv
<1>2. /\ SendToLedger(u, n, principal, {}, rest, slot)
      /\ OwedFor(returns[slot], v, m) = 0
  BY DEF ClaimFreebetReward, OwedFor
<1>3. PaidOrOwed(v, m) \in Int
  BY PaidInt
<1>4. {} \in SUBSET Bettors(n) /\ u \notin {}
  OBVIOUS
<1>5. rest + principal = share
  BY <1>1
<1>. HIDE DEF share, principal, rest
<1>6. CASE v = u /\ m = n
  <2>1. PaidOrOwed(u, n)' = PaidOrOwed(u, n) - OwedFor(returns[slot], u, n) + rest + principal
    BY <1>1, <1>2, SentOnly
  <2>2. PaidOrOwed(u, n)' = PaidOrOwed(u, n) + share
    BY <1>1, <1>2, <1>3, <1>5, <1>6, <2>1
  <2>. QED
    BY <1>6, <2>2 DEF share
<1>7. CASE ~(v = u /\ m = n)
  <2>1. m # n \/ (v # u /\ v \notin {})
    BY <1>7
  <2>2. PaidOrOwed(v, m)' = PaidOrOwed(v, m) - OwedFor(returns[slot], v, m) + 0 + 0
    BY <1>1, <1>2, <1>4, <2>1, SentElsewhere
  <2>3. PaidOrOwed(v, m)' = PaidOrOwed(v, m) + 0
    BY <1>2, <1>3, <2>2
  <2>. QED
    BY <1>7, <2>3
<1>. QED
  BY <1>6, <1>7

(* A claim pays what it entitles to. *)
LEMMA ClaimPays ==
    ASSUME MatchesInv, KickedOff, now \in Nat, SharesInv, PoolsInv, PoolsKept, PaidInv,
           MoneyMoves, EntitledTyped, EntitledTyped',
           \A u \in Users, m \in MatchIds : Entitled(u, m)' >= Entitled(u, m),
           NEW u \in Users, NEW n \in MatchIds,
           ClaimMatchReward(u, n) \/ \E slot \in ReturnSlots : ClaimFreebetReward(u, n, slot)
    PROVE  PaidInv'
<1>. SUFFICES ASSUME NEW v \in Users, NEW m \in MatchIds
              PROVE  PaidOrOwed(v, m)' <= Entitled(v, m)'
  BY DEF PaidInv
<1>. DEFINE share == ShareOf(u, n)
            added == IF v = u /\ m = n THEN share ELSE 0
<1>1. Claimable(u, n) /\ MarkClaimed(u, n) /\ BetsStay
  BY BetsStayStep DEF ClaimMatchReward, ClaimFreebetReward
<1>2. share \in Nat
  BY <1>1, ClaimableTyped DEF MatchesInv
<1>3. PaidOrOwed(v, m)' = PaidOrOwed(v, m) + added
  BY <1>1, CashClaimPays, FreebetClaimPays
<1>4. PaidOrOwed(v, m) \in Int /\ PaidOrOwed(v, m) <= Entitled(v, m)
  BY PaidInt DEF PaidInv
<1>5. CASE v = u /\ m = n
  <2>1. PaidOrOwed(v, m) <= 0 /\ Entitled(v, m)' = share
    BY <1>1, <1>5, ClaimEntitles, OpenIsUnpaid
  <2>2. added = share
    BY <1>5
  <2>. HIDE DEF share, added, PaidOrOwed, Entitled
  <2>. QED
    BY <1>2, <1>3, <1>4, <2>1, <2>2
<1>6. CASE ~(v = u /\ m = n)
  <2>1. added = 0 /\ Entitled(v, m) \in Nat /\ Entitled(v, m)' >= Entitled(v, m)
        /\ Entitled(v, m)' \in Nat
    BY <1>6 DEF EntitledTyped
  <2>. HIDE DEF share, added, PaidOrOwed, Entitled
  <2>. QED
    BY <1>3, <1>4, <2>1
<1>. QED
  BY <1>5, <1>6

(* A cancellation entitles to the freebet that it returns, or will return. *)
LEMMA CancelEntitles ==
    ASSUME MatchesInv, OpenUntilDecided, PrincipalsAreStakes, NEW n \in MatchIds, NEW caller,
           VoidMatch(caller, n), NEW v \in FreebetsOf(n)
    PROVE  /\ Entitled(v, n)' = bets[<<v, n>>].stake_in_match_pool
           /\ bets[<<v, n>>].stake_in_match_pool \in Nat
           /\ ~Closed(v, n) /\ v \in Users /\ v \in Bettors(n)
<1>1. /\ v \in Users /\ v \in Refundable(n) /\ v \in Bettors(n)
      /\ bets[<<v, n>>] # NoBet /\ ~bets[<<v, n>>].claimed
      /\ bets[<<v, n>>].freebet_principal > 0
  BY DEF FreebetsOf, Refundable, Bettors
<1>2. bets[<<v, n>>] \in Bets
  BY <1>1, BettorsBet DEF MatchesInv
<1>3. bets[<<v, n>>].freebet_principal = bets[<<v, n>>].stake_in_match_pool
  BY <1>1, <1>2 DEF PrincipalsAreStakes, Bets
<1>4. bets'[<<v, n>>] = [bets[<<v, n>>] EXCEPT !.claimed = TRUE]
  BY <1>1 DEF VoidMatch
<1>5. bets'[<<v, n>>] \in Bets /\ bets'[<<v, n>>].claimed
      /\ bets'[<<v, n>>].freebet_principal = bets[<<v, n>>].stake_in_match_pool
  BY <1>2, <1>3, <1>4 DEF Bets
<1>6. Closed(v, n)'
  BY <1>5, MarkerAssumption DEF Closed
<1>7. Status(n)' = "Cancelled"
  BY VoidMoves DEF VoidMatch, Status
<1>8. Entitled(v, n)' = bets[<<v, n>>].stake_in_match_pool
  BY <1>5, <1>6, <1>7 DEF Entitled, AmountDue
<1>. QED
  BY <1>1, <1>2, <1>8 DEF Closed, Bets

LEMMA CancelPays ==
    ASSUME MatchesInv, OpenUntilDecided, PrincipalsAreStakes, PaidInv, MoneyMoves,
           EntitledTyped, EntitledTyped',
           \A u \in Users, m \in MatchIds : Entitled(u, m)' >= Entitled(u, m),
           NEW caller, NEW n \in MatchIds, NEW u \in Users, NEW slot \in ReturnSlots,
           CancelMatchWithFreebets(caller, n, u, slot)
    PROVE  PaidInv'
<1>. DEFINE todo == FreebetsOf(n) \ {u}
            stake == bets[<<u, n>>].stake_in_match_pool
<1>1. /\ VoidMatch(caller, n) /\ u \in FreebetsOf(n) /\ BetsStay
      /\ SendToLedger(u, n, stake, todo, 0, slot)
      /\ \A v \in Users, m \in MatchIds : OwedFor(returns[slot], v, m) = 0
  BY BetsStayStep DEF CancelMatchWithFreebets, OwedFor
<1>2. stake \in Nat /\ todo \in SUBSET Bettors(n) /\ u \notin todo
  BY <1>1, CancelEntitles
<1>. SUFFICES ASSUME NEW v \in Users, NEW m \in MatchIds
              PROVE  PaidOrOwed(v, m)' <= Entitled(v, m)'
  BY DEF PaidInv
<1>3. PaidOrOwed(v, m) \in Int /\ PaidOrOwed(v, m) <= Entitled(v, m)
  BY PaidInt DEF PaidInv
<1>4. CASE v = u /\ m = n
  <2>1. PaidOrOwed(u, n) <= 0 /\ Entitled(u, n)' = stake
    BY <1>1, CancelEntitles, OpenIsUnpaid
  <2>. HIDE DEF todo, stake
  <2>2. PaidOrOwed(u, n)' = PaidOrOwed(u, n) - OwedFor(returns[slot], u, n) + 0 + stake
    BY <1>1, <1>2, SentHere
  <2>3. OwedFor(returns[slot], u, n) = 0 /\ PaidOrOwed(u, n) \in Int
    BY <1>1, PaidInt
  <2>4. PaidOrOwed(u, n)' <= Entitled(u, n)'
    BY <1>2, <2>1, <2>2, <2>3
  <2>. QED
    BY <1>4, <2>4
<1>5. CASE v \in todo /\ m = n
  <2>. DEFINE due == bets[<<v, n>>].stake_in_match_pool
  <2>1. PaidOrOwed(v, n) <= 0 /\ Entitled(v, n)' = due /\ due \in Nat /\ v # u
    BY <1>1, <1>5, CancelEntitles, OpenIsUnpaid
  <2>. HIDE DEF todo, stake
  <2>2. PaidOrOwed(v, n)' = PaidOrOwed(v, n) - OwedFor(returns[slot], v, n) + due + 0
    BY <1>1, <1>2, <1>5, <2>1, SentLater
  <2>3. OwedFor(returns[slot], v, n) = 0 /\ PaidOrOwed(v, n) \in Int
    BY <1>1, PaidInt
  <2>. HIDE DEF due
  <2>4. PaidOrOwed(v, n)' <= Entitled(v, n)'
    BY <2>1, <2>2, <2>3
  <2>. QED
    BY <1>5, <2>4
<1>6. CASE m # n \/ (v # u /\ v \notin todo)
  <2>. HIDE DEF todo, stake
  <2>1. PaidOrOwed(v, m)' = PaidOrOwed(v, m) - OwedFor(returns[slot], v, m) + 0 + 0
    BY <1>1, <1>2, <1>6, SentElsewhere
  <2>2. /\ OwedFor(returns[slot], v, m) = 0 /\ Entitled(v, m) \in Nat /\ Entitled(v, m)' \in Nat
        /\ Entitled(v, m)' >= Entitled(v, m)
    BY <1>1 DEF EntitledTyped
  <2>. QED
    BY <1>3, <2>1, <2>2
<1>. QED
  BY <1>4, <1>5, <1>6

(* A call that ends owes nothing more, and paid no more than it owed.      *)
LEMMA ReturnEnds ==
    ASSUME MatchesInv, BetsStay, NEW slot \in ReturnSlots,
           returns' = [returns EXCEPT ![slot] = NoCall],
           NEW u \in Users, NEW m \in MatchIds,
           NEW sent \in Int, sent <= OwedFor(returns[slot], u, m),
           paid'[<<u, m>>] = paid[<<u, m>>] + sent
    PROVE  PaidOrOwed(u, m)' \in Int /\ PaidOrOwed(u, m)' <= PaidOrOwed(u, m)
<1>1. returns'[slot] = NoCall /\ \A s \in ReturnSlots \ {slot} : returns'[s] = returns[s]
  BY DEF MatchesInv, MatchesTypeOK
<1>2. OwedFor(returns[slot], u, m)' = 0
  BY <1>1 DEF OwedFor
<1>3. PaidOrOwed(u, m)' = PaidOrOwed(u, m) - OwedFor(returns[slot], u, m) + 0 + sent
  BY <1>1, <1>2, PaidChange
<1>4. OwedFor(returns[slot], u, m) \in Nat /\ PaidOrOwed(u, m) \in Int
  BY OwedForNat, PaidInt
<1>. QED
  BY <1>3, <1>4

(* A suspended call that only had freebets left sends one of them. *)
LEMMA SentOwn ==
    ASSUME MatchesInv, BetsStay, NEW n \in MatchIds, NEW w \in Users, NEW stake \in Nat,
           NEW todo \in SUBSET Bettors(n), NEW slot \in ReturnSlots, w \notin todo,
           SendToLedger(w, n, stake, todo, 0, slot), OwedFor(returns[slot], w, n) = stake
    PROVE  PaidOrOwed(w, n)' = PaidOrOwed(w, n)
<1>1. PaidOrOwed(w, n)' = PaidOrOwed(w, n) - OwedFor(returns[slot], w, n) + 0 + stake
  BY SentHere
<1>2. PaidOrOwed(w, n) \in Int
  BY PaidInt
<1>. QED
  BY <1>1, <1>2

LEMMA OwnLater ==
    ASSUME MatchesInv, BetsStay, NEW n \in MatchIds, NEW w \in Users, NEW stake \in Nat,
           NEW todo \in SUBSET Bettors(n), NEW slot \in ReturnSlots,
           SendToLedger(w, n, stake, todo, 0, slot), NEW v \in todo, v # w,
           OwedFor(returns[slot], v, n) = bets[<<v, n>>].stake_in_match_pool
    PROVE  PaidOrOwed(v, n)' = PaidOrOwed(v, n)
<1>. DEFINE due == bets[<<v, n>>].stake_in_match_pool
<1>1. PaidOrOwed(v, n)' = PaidOrOwed(v, n) - OwedFor(returns[slot], v, n) + due + 0
  BY SentLater
<1>2. PaidOrOwed(v, n) \in Int /\ due \in Nat
  BY PaidInt, BettorsBet DEF Bettors, MatchesInv, Bets
<1>. QED
  BY <1>1, <1>2

(* The ledger's answers: the next freebet, or the end of the call. *)
LEMMA ReturnNextPays ==
    ASSUME MatchesInv, BetsStay, PayoutsComeLast, NEW slot \in ReturnSlots,
           NEW w \in Users, ReturnNext(slot, w), NEW u \in Users, NEW m \in MatchIds
    PROVE  PaidOrOwed(u, m)' \in Int /\ PaidOrOwed(u, m)' <= PaidOrOwed(u, m)
<1>. DEFINE call == returns[slot]
<1>0. PICK n : n = call.match
  OBVIOUS
<1>. DEFINE stake == bets[<<w, n>>].stake_in_match_pool
            todo == call.todo \ {w}
<1>1. /\ call # NoCall /\ call.payout = 0 /\ w \in call.todo
      /\ SendToLedger(w, n, stake, todo, call.payout, slot)
  BY <1>0 DEF ReturnNext, PayoutsComeLast
<1>2. /\ call \in Returns /\ n \in MatchIds /\ call.todo \in SUBSET Bettors(n)
  BY <1>0, <1>1 DEF MatchesInv, MatchesTypeOK, Returns, ReturnsHaveBets, Bettors
<1>3. /\ todo \in SUBSET Bettors(n) /\ w \notin todo
      /\ \A v \in call.todo : bets[<<v, n>>].stake_in_match_pool \in Nat
  BY <1>2, BettorsBet DEF Bettors, MatchesInv, Bets
<1>4. stake \in Nat /\ SendToLedger(w, n, stake, todo, 0, slot) /\ 0 \in Nat
  BY <1>1, <1>3
<1>5. /\ OwedFor(call, u, m) \in Nat /\ PaidOrOwed(u, m) \in Int
      /\ u \in call.todo /\ m = n => OwedFor(call, u, m) = bets[<<u, n>>].stake_in_match_pool
  <2>1. OwedFor(call, u, m) \in Nat /\ PaidOrOwed(u, m) \in Int
    BY OwedForNat, PaidInt
  <2>2. u \in call.todo /\ m = n => OwedFor(call, u, m) = bets[<<u, n>>].stake_in_match_pool
    BY <1>0, <1>1, <1>3 DEF OwedFor
  <2>. QED
    BY <2>1, <2>2
<1>6. CASE u = w /\ m = n
  <2>1. OwedFor(returns[slot], w, n) = stake
    BY <1>1, <1>5, <1>6
  <2>. HIDE DEF todo, stake, call
  <2>2. PaidOrOwed(w, n)' = PaidOrOwed(w, n)
    BY <1>2, <1>3, <1>4, <2>1, SentOwn
  <2>3. PaidOrOwed(u, m)' = PaidOrOwed(u, m)
    BY <1>6, <2>2
  <2>. QED
    BY <1>5, <2>3
<1>7. CASE u \in todo /\ m = n
  <2>1. u # w /\ OwedFor(returns[slot], u, n) = bets[<<u, n>>].stake_in_match_pool
    BY <1>5, <1>7
  <2>. HIDE DEF todo, stake, call
  <2>2. PaidOrOwed(u, n)' = PaidOrOwed(u, n)
    BY <1>2, <1>3, <1>4, <1>7, <2>1, OwnLater
  <2>3. PaidOrOwed(u, m)' = PaidOrOwed(u, m)
    BY <1>7, <2>2
  <2>. QED
    BY <1>5, <2>3
<1>8. CASE m # n \/ (u # w /\ u \notin todo)
  <2>. HIDE DEF todo, stake
  <2>1. PaidOrOwed(u, m)' = PaidOrOwed(u, m) - OwedFor(returns[slot], u, m) + 0 + 0
    BY <1>2, <1>3, <1>4, <1>8, SentElsewhere
  <2>. QED
    BY <1>5, <2>1
<1>. QED
  BY <1>6, <1>7, <1>8

LEMMA ReturnEndsPays ==
    ASSUME MatchesInv, BetsStay, NEW slot \in ReturnSlots,
           ReturnDone(slot) \/ ReturnRejected(slot) \/ ReturnAbandoned(slot),
           NEW u \in Users, NEW m \in MatchIds
    PROVE  PaidOrOwed(u, m)' \in Int /\ PaidOrOwed(u, m)' <= PaidOrOwed(u, m)
<1>. DEFINE call == returns[slot]
<1>1. /\ call \in Returns /\ call # NoCall
      /\ returns' = [returns EXCEPT ![slot] = NoCall]
  BY DEF ReturnDone, ReturnRejected, ReturnAbandoned, MatchesInv, MatchesTypeOK
<1>2. /\ call.payout \in Nat /\ call.amount \in Nat
      /\ paid \in [Users \X MatchIds -> Int] /\ paid[<<u, m>>] \in Int
  BY <1>1 DEF Returns, MatchesInv, MatchesTypeOK
<1>3. OwedFor(call, u, m) \in Nat
  BY OwedForNat
<1>4. CASE ReturnDone(slot)
  <2>. DEFINE sent == IF u = call.user /\ m = call.match THEN call.payout ELSE 0
  <2>1. call.todo = {} /\ paid' = [paid EXCEPT ![<<call.user, call.match>>] = @ + call.payout]
    BY <1>4 DEF ReturnDone
  <2>2. sent \in Int /\ paid'[<<u, m>>] = paid[<<u, m>>] + sent
    BY <1>2, <2>1
  <2>3. sent <= OwedFor(call, u, m)
    BY <1>1, <1>2, <1>3, <2>1 DEF OwedFor
  <2>. HIDE DEF sent, call
  <2>. QED
    BY <1>1, <2>2, <2>3, ReturnEnds DEF call
<1>5. CASE ReturnRejected(slot)
  <2>. DEFINE sent == IF u = call.user /\ m = call.match THEN 0 - call.amount ELSE 0
  <2>1. paid' = [paid EXCEPT ![<<call.user, call.match>>] = @ - call.amount]
    BY <1>5 DEF ReturnRejected
  <2>2. sent \in Int /\ paid'[<<u, m>>] = paid[<<u, m>>] + sent
    BY <1>2, <2>1
  <2>3. sent <= OwedFor(call, u, m)
    BY <1>2, <1>3
  <2>. HIDE DEF sent, call
  <2>. QED
    BY <1>1, <2>2, <2>3, ReturnEnds DEF call
<1>6. CASE ReturnAbandoned(slot)
  <2>1. 0 \in Int /\ 0 <= OwedFor(call, u, m) /\ paid'[<<u, m>>] = paid[<<u, m>>] + 0
    BY <1>2, <1>3, <1>6 DEF ReturnAbandoned
  <2>. HIDE DEF call
  <2>. QED
    BY <1>1, <2>1, ReturnEnds DEF call
<1>. QED
  BY <1>4, <1>5, <1>6

(* The handlers that neither pay nor concern a suspended call. *)
LEMMA QuietPays ==
    ASSUME \/ RegisterStep \/ BetStep
           \/ \E m \in MatchIds, oracle \in Oracles :
                 \/ \E r \in Reports : ProposeResult(oracle, m, r)
                 \/ \E slot \in QuerySlots : ProposeFromOracle(m, oracle, slot)
           \/ \E slot \in QuerySlots :
                 (\E r \in Reports : OracleReply(slot, r)) \/ OracleReplyFailed(slot)
           \/ \E m \in MatchIds, caller \in Accounts :
                 CancelProposedResult(caller, m) \/ CancelMatch(caller, m)
           \/ \E m \in MatchIds : FinalizeResult(m) \/ SweepMatchDust(m)
           \/ \E u \in Users : ClaimRefund(u) \/ \E caller \in Accounts : AdminPushRefund(caller, u)
           \/ UNCHANGED matchesVars
    PROVE  UNCHANGED <<paid, returns>>
BY DEF RegisterStep, BetStep, RegisterPhase, RegisterMatch, PlaceBet, PlaceBetFromFreebetLedger,
   ProposeResult, ProposeFromOracle, OracleReply, OracleReplyFailed, CancelProposedResult,
   CancelMatch, FinalizeResult, SweepMatchDust, ClaimRefund, AdminPushRefund, SendRefund,
   matchesVars, callVars

LEMMA PayoutsComeLastStep ==
    ASSUME MatchesInv, PayoutsComeLast, [MatchesNext]_allMatchesVars
    PROVE  PayoutsComeLast'
<1>1. ASSUME NEW n, NEW u, NEW amount, NEW todo, NEW payout, NEW slot \in ReturnSlots,
             SendToLedger(u, n, amount, todo, payout, slot), todo = {} \/ payout = 0
      PROVE  PayoutsComeLast'
  BY <1>1 DEF SendToLedger, PayoutsComeLast, MatchesInv, MatchesTypeOK
<1>2. ASSUME NEW slot \in ReturnSlots, NEW u, ReturnNext(slot, u)
      PROVE  PayoutsComeLast'
  BY <1>1, <1>2 DEF ReturnNext, PayoutsComeLast
<1>3. ASSUME NEW slot \in ReturnSlots,
             ReturnDone(slot) \/ ReturnRejected(slot) \/ ReturnAbandoned(slot)
      PROVE  PayoutsComeLast'
  BY <1>3 DEF ReturnDone, ReturnRejected, ReturnAbandoned, PayoutsComeLast, MatchesInv,
     MatchesTypeOK
<1>4. ASSUME NEW slot \in ReturnSlots, NEW u, NEW m,
             \/ ClaimFreebetReward(u, m, slot)
             \/ \E caller : CancelMatchWithFreebets(caller, m, u, slot)
      PROVE  PayoutsComeLast'
  BY <1>1, <1>4 DEF ClaimFreebetReward, CancelMatchWithFreebets
<1>5. ASSUME UNCHANGED returns
      PROVE  PayoutsComeLast'
  BY <1>5 DEF PayoutsComeLast
<1>6. ASSUME NEW u, NEW m, ClaimMatchReward(u, m)
      PROVE  UNCHANGED returns
  BY <1>6 DEF ClaimMatchReward, callVars
<1>. QED
  BY <1>2, <1>3, <1>4, <1>5, <1>6, QuietPays
     DEF MatchesNext, MatchesStep, ResultStep, PayoutStep, allMatchesVars

(* No step pays more than what it, or a step before it, entitles to. *)
LEMMA PaidStep ==
    ASSUME MatchesInv, KickedOff, OpenUntilDecided, SharesInv, PoolsInv, PoolsKept,
           PrincipalsAreStakes, PayoutsComeLast, PaidInv, EntitledTyped, EntitledTyped',
           [MatchesNext]_allMatchesVars
    PROVE  PaidInv'
<1>1. MoneyMoves /\ now \in Nat
  BY StepMoney, TimePasses DEF MatchesInv
<1>2. BetsStay
  BY <1>1, BetsStayStep
<1>3. \A u \in Users, m \in MatchIds : Entitled(u, m)' >= Entitled(u, m)
  BY <1>1, EntitledGrows
<1>4. ASSUME UNCHANGED <<paid, returns>>
      PROVE  PaidInv'
  BY <1>2, <1>3, <1>4, NothingPaid, NoMorePaid
<1>5. ASSUME NEW slot \in ReturnSlots,
             \/ \E w \in Users : ReturnNext(slot, w)
             \/ ReturnDone(slot) \/ ReturnRejected(slot) \/ ReturnAbandoned(slot)
      PROVE  PaidInv'
  <2>1. \A u \in Users, m \in MatchIds :
            PaidOrOwed(u, m)' \in Int /\ PaidOrOwed(u, m)' <= PaidOrOwed(u, m)
    BY <1>2, <1>5, ReturnNextPays, ReturnEndsPays
  <2>. QED
    BY <1>3, <2>1, NoMorePaid
<1>6. ASSUME NEW u \in Users, NEW m \in MatchIds,
             ClaimMatchReward(u, m) \/ \E slot \in ReturnSlots : ClaimFreebetReward(u, m, slot)
      PROVE  PaidInv'
  BY <1>1, <1>3, <1>6, ClaimPays
<1>7. ASSUME NEW caller \in Accounts, NEW n \in MatchIds, NEW u \in Users,
             NEW slot \in ReturnSlots, CancelMatchWithFreebets(caller, n, u, slot)
      PROVE  PaidInv'
  BY <1>1, <1>3, <1>7, CancelPays
<1>. QED
  BY <1>4, <1>5, <1>6, <1>7, QuietPays
     DEF MatchesNext, MatchesStep, ResultStep, PayoutStep, allMatchesVars

LEMMA PaidInit ==
    ASSUME AdminInit, MatchesInit
    PROVE  PoolsKept /\ PrincipalsAreStakes /\ PayoutsComeLast /\ PaidInv
<1>1. PoolsKept /\ PrincipalsAreStakes /\ PayoutsComeLast
  BY DEF MatchesInit, PoolsKept, Registered, PrincipalsAreStakes, PayoutsComeLast
<1>2. ASSUME NEW u \in Users, NEW m \in MatchIds
      PROVE  PaidOrOwed(u, m) <= Entitled(u, m)
  <2>1. \A s \in ReturnSlots : OwedTo(u, m)[s] = 0
    BY DEF MatchesInit, OwedTo, OwedFor
  <2>2. SumOver(OwedTo(u, m), ReturnSlots) = 0
    BY <2>1, SumOverZero, MatchesAssumption
  <2>3. paid[<<u, m>>] = 0 /\ Entitled(u, m) = 0
    BY DEF MatchesInit, Entitled, Closed
  <2>. QED
    BY <2>2, <2>3 DEF PaidOrOwed
<1>. QED
  BY <1>1, <1>2 DEF PaidInv

(* What a closed bet is entitled to is what the property grants it. *)
LEMMA PaidIsEnough ==
    ASSUME MatchesInv, OpenUntilDecided, PoolsInv, PaidInv, EntitledTyped
    PROVE  NoBetIsOverpaid
<1>. SUFFICES ASSUME NEW u \in Users, NEW m \in MatchIds
              PROVE  paid[<<u, m>>] <= DueFor(u, m)
  BY DEF NoBetIsOverpaid
<1>1. SumOver(StakesIn(m), Users) = StakeOf(Bettors(m), m)
  <2>. DEFINE stakes == [v \in Bettors(m) |-> bets[<<v, m>>].stake_in_match_pool]
  <2>1. \A v \in Users : StakesIn(m)[v] \in Nat
    BY StakesNat DEF StakesIn, MatchesInv, MatchesTypeOK
  <2>2. \A v \in Bettors(m) : stakes[v] = StakesIn(m)[v]
    BY DEF StakesIn, Bettors
  <2>3. \A v \in Users \ Bettors(m) : StakesIn(m)[v] = 0
    BY DEF StakesIn, Bettors
  <2>4. Bettors(m) \in SUBSET Users /\ IsFiniteSet(Users)
    BY MatchesAssumption DEF Bettors
  <2>. HIDE DEF stakes
  <2>5. SumOver(stakes, Bettors(m)) = SumOver(StakesIn(m), Users)
    BY <2>1, <2>2, <2>3, <2>4, SumOverWithin
  <2>. QED
    BY <2>5 DEF StakeOf, stakes
<1>2. DueFor(u, m) \in Nat
  <2>1. CASE u \notin Bettors(m)
    BY <2>1 DEF DueFor
  <2>2. CASE u \in Bettors(m)
    <3>1. bets[<<u, m>>] \in Bets /\ bets[<<u, m>>] # NoBet /\ m \in Registered
      BY <2>2, BettorsBet DEF Bettors, MatchesInv, PoolsInv
    <3>2. matches[m].total_winner_stake \in Nat /\ StakeOf(Bettors(m), m) \in Nat
      BY <1>1, <3>1, StakesInNat, MatchTyped DEF MatchesInv, Matches
    <3>3. matches[m].total_winner_stake # 0 =>
              Share(bets[<<u, m>>].stake_in_match_pool, StakeOf(Bettors(m), m),
                    matches[m].total_winner_stake) \in Nat
      BY <3>1, <3>2, ShareNat DEF Bets
    <3>. QED
      BY <2>2, <3>1, <3>3 DEF DueFor, Bets
  <2>. QED
    BY <2>1, <2>2
<1>3. Entitled(u, m) <= DueFor(u, m)
  <2>1. CASE Closed(u, m)
    <3>1. u \in Bettors(m) /\ Status(m) \in {"Finalized", "Cancelled"}
      BY <2>1 DEF Closed, Bettors, OpenUntilDecided
    <3>2. AmountDue(u, m) = DueFor(u, m)
      BY <1>1, <3>1 DEF AmountDue, DueFor
    <3>. QED
      BY <1>2, <2>1, <3>2 DEF Entitled
  <2>2. CASE ~Closed(u, m)
    BY <1>2, <2>2 DEF Entitled
  <2>. QED
    BY <2>1, <2>2
<1>4. PaidOrOwed(u, m) <= Entitled(u, m) /\ Entitled(u, m) \in Nat
  BY DEF PaidInv, EntitledTyped
<1>. HIDE DEF Entitled, DueFor
<1>. QED
  BY <1>2, <1>3, <1>4, PaidNumbers DEF PaidOrOwed

(* No sequence of claims, cancellations, retries and failed or abandoned   *)
(* ledger calls pays more for a bet than its share of all stakes on the    *)
(* match, or anything for a bet that lost or is undecided                  *)
(* (claim_match_reward, cancel_match, return_freebet_to_ledger); provided  *)
(* no oracle reports a result before the kick-off.                         *)
THEOREM BetsAreNotOverpaid ==
    ASSUME ~EarlyReports
    PROVE  MatchesSpec => []NoBetIsOverpaid
<1>. DEFINE Inv == PoolsKept /\ PrincipalsAreStakes /\ PayoutsComeLast /\ PaidInv
<1>1. AdminInit /\ MatchesInit => Inv
  BY PaidInit
<1>2. MoneyInv => EntitledTyped
  BY EntitledNat DEF MoneyInv
<1>3. ASSUME MoneyInv, EntitledTyped, EntitledTyped', Inv, [MatchesNext]_allMatchesVars
      PROVE  Inv'
  <2>1. MoneyMoves /\ now \in Nat
    BY <1>3, StepMoney, TimePasses DEF MoneyInv, MatchesInv
  <2>2. PoolsKept'
    BY <1>3, <2>1, PoolsKeptStep DEF MoneyInv
  <2>3. PrincipalsAreStakes' /\ PayoutsComeLast'
    BY <1>3, <2>1, PrincipalsStep, PayoutsComeLastStep DEF MoneyInv
  <2>4. PaidInv'
    BY <1>3, PaidStep DEF MoneyInv, RefundsInv
  <2>. QED
    BY <2>2, <2>3, <2>4
<1>4. MoneyInv /\ EntitledTyped /\ EntitledTyped' /\ Inv /\ [MatchesNext]_allMatchesVars => Inv'
  BY <1>3
<1>5. MoneyInv /\ EntitledTyped /\ Inv => NoBetIsOverpaid
  BY PaidIsEnough DEF MoneyInv, RefundsInv
<1>. QED
  BY <1>1, <1>2, <1>4, <1>5, MoneyInvariant, PTL DEF MatchesSpec
=============================================================================
