------------------------ MODULE FreebetLedgerProofs ------------------------
(***************************************************************************)
(* Theorems about the freebet ledger, for any number of users, programs,   *)
(* matches, grants and suspended calls.                                    *)
(*                                                                         *)
(* LedgerInv is inductive.  That the liability stays backed needs the      *)
(* markers: a surplus withdrawal with no marker set cannot meet a refused  *)
(* stake on its way back, because every suspended call has its marker.  It *)
(* needs LateBooks too: the same withdrawal may take stakes that came back *)
(* after their call gave up, and those are no more than was restored.      *)
(***************************************************************************)
EXTENDS FreebetLedger, SumsProofs

\* The stakes of calls whose await gave up before the message was handled.
Strays == {s \in Calls : ~ spends[s].waiting}

(* What came back of credit restored after late replies, or is still on    *)
(* its way, was restored before.                                           *)
LateBooks ==
    SumOver(recovered, Users) + VaraOf(Strays) <= SumOver(late, Users)

LedgerInv ==
    /\ LedgerTypeOK
    /\ MarkersMatchCalls
    /\ LateBooks
    /\ LiabilityIsBacked

\* VaraOf for any value of `spends`.
VaraIn(sp, calls) ==
    SumOver([s \in SpendSlots |-> IF s \in calls THEN sp[s].amount ELSE 0], SpendSlots)

----------------------------------------------------------------------------
(* Types *)

LEMMA InitTypes == Init => LedgerTypeOK
BY LedgerAssumption DEF Init, LedgerTypeOK

(* What a call that has not ended looks like. *)
LEMMA CallTyped ==
    ASSUME LedgerTypeOK, NEW s \in Calls
    PROVE  /\ s \in SpendSlots
           /\ spends[s] \in Spends
           /\ spends[s].key \in Keys
           /\ spends[s].amount \in Nat
           /\ spends[s].waiting \in BOOLEAN
           /\ spends[s].message \in {"queued", "kept", "refused"}
           /\ UserOf(s) \in Users
           /\ spends[s].key[1] \in Users
<1>1. s \in SpendSlots /\ spends[s] \in Spends
  BY DEF LedgerTypeOK, Calls
<1>2. spends[s].key \in Keys
  BY <1>1 DEF Spends
<1>3. spends[s].key[1] \in Users
  BY <1>2 DEF Keys
<1>. QED
  BY <1>1, <1>2, <1>3 DEF Spends, UserOf

(* A changed message or waiting flag leaves a call. *)
LEMMA CallChanged ==
    ASSUME NEW c \in Spends
    PROVE  /\ [c EXCEPT !.message = "kept"] \in Spends
           /\ [c EXCEPT !.message = "refused"] \in Spends
           /\ [c EXCEPT !.waiting = FALSE] \in Spends
BY DEF Spends

LEMMA AdministerTypes ==
    ASSUME LedgerTypeOK, Administer
    PROVE  LedgerTypeOK'
<1>. USE LedgerAssumption
<1>1. ASSUME NEW caller \in Accounts, NEW a \in Accounts, AddAdmin(caller, a)
      PROVE  LedgerTypeOK'
  BY <1>1 DEF LedgerTypeOK, AddAdmin, spendVars, lateVars, outVars
<1>2. ASSUME NEW caller \in Accounts, NEW a \in Accounts, RemoveAdmin(caller, a)
      PROVE  LedgerTypeOK'
  BY <1>2 DEF LedgerTypeOK, RemoveAdmin, spendVars, lateVars, outVars
<1>3. ASSUME NEW caller \in Accounts, NEW b \in BetPrograms,
             NEW value \in Amounts \cup {0}, AuthorizeBetProgram(caller, b, value)
      PROVE  LedgerTypeOK'
  <2>1. available' \in Nat
    BY <1>3 DEF LedgerTypeOK, AuthorizeBetProgram
  <2>. QED
    BY <1>3, <2>1 DEF LedgerTypeOK, AuthorizeBetProgram, spendVars, lateVars, outVars
<1>4. ASSUME NEW caller \in Accounts, NEW b \in BetPrograms, RevokeBetProgram(caller, b)
      PROVE  LedgerTypeOK'
  BY <1>4 DEF LedgerTypeOK, RevokeBetProgram, spendVars, lateVars, outVars
<1>5. ASSUME NEW caller \in Accounts, NEW to \in Users, NEW id \in GrantIds,
             NEW value \in GrantValues, Grant(caller, to, id, value)
      PROVE  LedgerTypeOK'
  <2>1. available' \in Nat /\ balances' \in [Users -> Nat]
    BY <1>5 DEF LedgerTypeOK, Grant
  <2>2. [recipient |-> to, amount |-> value] \in Grants
    BY DEF Grants
  <2>3. grants' \in [GrantIds -> Grants \cup {NoGrant}]
    BY <1>5, <2>2 DEF LedgerTypeOK, Grant
  <2>. QED
    BY <1>5, <2>1, <2>3 DEF LedgerTypeOK, Grant, roleVars, spendVars, lateVars, outVars
<1>6. ASSUME NEW caller \in Accounts, NEW amount \in Amounts,
             WithdrawSurplusVara(caller, amount)
      PROVE  LedgerTypeOK'
  <2>1. Liability \in Nat
    BY SumOverNat DEF LedgerTypeOK, Liability
  <2>2. available' \in Nat /\ hasty' \in Nat
    BY <1>6, <2>1 DEF LedgerTypeOK, WithdrawSurplusVara, Surplus
  <2>. QED
    BY <1>6, <2>2 DEF LedgerTypeOK, WithdrawSurplusVara, roleVars, spendVars, lateVars
<1>7. ASSUME NEW caller \in Accounts, NEW amount \in Amounts,
             ForceWithdrawVara(caller, amount)
      PROVE  LedgerTypeOK'
  <2>1. available' \in Nat /\ forced' \in Nat
    BY <1>7 DEF LedgerTypeOK, ForceWithdrawVara
  <2>. QED
    BY <1>7, <2>1 DEF LedgerTypeOK, ForceWithdrawVara, roleVars, spendVars, lateVars
<1>. QED
  BY <1>1, <1>2, <1>3, <1>4, <1>5, <1>6, <1>7 DEF Administer

LEMMA SpendTypes ==
    ASSUME LedgerTypeOK, Spend
    PROVE  LedgerTypeOK'
<1>. USE LedgerAssumption
<1>1. ASSUME NEW s \in SpendSlots, NEW u \in Users, NEW b \in BetPrograms,
             NEW m \in MatchIds, NEW amount \in Amounts, SpendFreebet(s, u, b, m, amount)
      PROVE  LedgerTypeOK'
  <2>1. <<u, b, m>> \in Keys
    BY DEF Keys
  <2>2. [key |-> <<u, b, m>>, amount |-> amount,
         waiting |-> TRUE, message |-> "queued"] \in Spends
    BY <2>1 DEF Spends
  <2>3. spends' \in [SpendSlots -> Spends \cup {NoCall}]
    BY <1>1, <2>2 DEF LedgerTypeOK, SpendFreebet
  <2>4. available' \in Nat /\ balances' \in [Users -> Nat]
    BY <1>1 DEF LedgerTypeOK, SpendFreebet
  <2>. QED
    BY <1>1, <2>1, <2>3, <2>4 DEF LedgerTypeOK, SpendFreebet, roleVars, lateVars, outVars
<1>2. ASSUME NEW u \in Users, NEW b \in BetPrograms, NEW amount \in Amounts,
             ReturnFreebet(b, u, amount)
      PROVE  LedgerTypeOK'
  <2>1. available' \in Nat /\ balances' \in [Users -> Nat] /\ staked' \in [Users -> Int]
    BY <1>2 DEF LedgerTypeOK, ReturnFreebet
  <2>. QED
    BY <1>2, <2>1 DEF LedgerTypeOK, ReturnFreebet, roleVars, spendVars, lateVars, outVars
<1>. QED
  BY <1>1, <1>2 DEF Spend

\* The steps of a call or message that SpendFreebet has started.
CallStep(s) ==
    \/ BetProgramKeeps(s) \/ BetProgramRefuses(s)
    \/ SpendSucceeds(s) \/ SpendFails(s) \/ SpendTimesOut(s)

(* Such a step changes one call, to another call or to none. *)
LEMMA CallStepShape ==
    ASSUME LedgerTypeOK, NEW s \in SpendSlots, CallStep(s)
    PROVE  /\ s \in Calls
           /\ \E c \in Spends \cup {NoCall} :
                /\ spends' = [spends EXCEPT ![s] = c]
                /\ BetProgramKeeps(s) =>
                     c = IF spends[s].waiting
                         THEN [spends[s] EXCEPT !.message = "kept"] ELSE NoCall
                /\ BetProgramRefuses(s) =>
                     c = IF spends[s].waiting
                         THEN [spends[s] EXCEPT !.message = "refused"] ELSE NoCall
                /\ SpendSucceeds(s) \/ SpendFails(s) => c = NoCall
                /\ SpendTimesOut(s) =>
                     c = IF spends[s].message = "queued"
                         THEN [spends[s] EXCEPT !.waiting = FALSE] ELSE NoCall
<1>1. s \in Calls
  BY DEF CallStep, BetProgramKeeps, BetProgramRefuses, SpendSucceeds, SpendFails,
         SpendTimesOut, Waiting
<1>2. spends[s] \in Spends /\ spends \in [SpendSlots -> Spends \cup {NoCall}]
  BY <1>1, CallTyped DEF LedgerTypeOK
<1>. DEFINE c == spends'[s]
<1>3. /\ spends' = [spends EXCEPT ![s] = c]
      /\ c \in Spends \cup {NoCall}
  <2>1. CASE BetProgramKeeps(s)
    BY <1>2, <2>1, CallChanged DEF BetProgramKeeps
  <2>2. CASE BetProgramRefuses(s)
    BY <1>2, <2>2, CallChanged DEF BetProgramRefuses
  <2>3. CASE SpendSucceeds(s)
    BY <1>2, <2>3 DEF SpendSucceeds
  <2>4. CASE SpendFails(s)
    BY <1>2, <2>4 DEF SpendFails
  <2>5. CASE SpendTimesOut(s)
    BY <1>2, <2>5, CallChanged DEF SpendTimesOut
  <2>. QED
    BY <2>1, <2>2, <2>3, <2>4, <2>5 DEF CallStep
<1>4. /\ BetProgramKeeps(s) =>
           c = IF spends[s].waiting
               THEN [spends[s] EXCEPT !.message = "kept"] ELSE NoCall
      /\ BetProgramRefuses(s) =>
           c = IF spends[s].waiting
               THEN [spends[s] EXCEPT !.message = "refused"] ELSE NoCall
      /\ SpendSucceeds(s) \/ SpendFails(s) => c = NoCall
      /\ SpendTimesOut(s) =>
           c = IF spends[s].message = "queued"
               THEN [spends[s] EXCEPT !.waiting = FALSE] ELSE NoCall
  BY <1>2 DEF BetProgramKeeps, BetProgramRefuses, SpendSucceeds, SpendFails,
              SpendTimesOut
<1>. HIDE DEF c
<1>. QED
  BY <1>1, <1>3, <1>4

LEMMA CallStepTypes ==
    ASSUME LedgerTypeOK, NEW s \in SpendSlots, CallStep(s)
    PROVE  LedgerTypeOK'
<1>1. s \in Calls /\ spends' \in [SpendSlots -> Spends \cup {NoCall}]
  BY CallStepShape DEF LedgerTypeOK
<1>2. /\ spends[s].amount \in Nat /\ UserOf(s) \in Users
      /\ spends[s].key \in Keys
  BY <1>1, CallTyped
<1>3. CASE BetProgramKeeps(s)
  <2>1. staked' \in [Users -> Int]
    BY <1>2, <1>3 DEF LedgerTypeOK, BetProgramKeeps
  <2>. QED
    BY <1>1, <1>3, <2>1 DEF LedgerTypeOK, BetProgramKeeps, roleVars, lateVars, outVars
<1>4. CASE BetProgramRefuses(s)
  <2>1. available' \in Nat /\ recovered' \in [Users -> Nat]
    BY <1>2, <1>4 DEF LedgerTypeOK, BetProgramRefuses
  <2>. QED
    BY <1>1, <1>4, <2>1 DEF LedgerTypeOK, BetProgramRefuses, roleVars, outVars
<1>5. CASE SpendSucceeds(s)
  BY <1>1, <1>5 DEF LedgerTypeOK, SpendSucceeds, roleVars, lateVars, outVars
<1>6. CASE SpendFails(s)
  <2>1. balances' \in [Users -> Nat] /\ pending_spends' \subseteq Keys
    BY <1>2, <1>6 DEF LedgerTypeOK, SpendFails, RestoreBalance
  <2>. QED
    BY <1>1, <1>6, <2>1 DEF LedgerTypeOK, SpendFails, roleVars, lateVars, outVars
<1>7. CASE SpendTimesOut(s)
  <2>1. balances' \in [Users -> Nat] /\ pending_spends' \subseteq Keys
    BY <1>2, <1>7 DEF LedgerTypeOK, SpendTimesOut, RestoreBalance
  <2>2. late' \in [Users -> Nat]
    BY <1>2, <1>7 DEF LedgerTypeOK, SpendTimesOut
  <2>. QED
    BY <1>1, <1>7, <2>1, <2>2 DEF LedgerTypeOK, SpendTimesOut, roleVars, outVars
<1>. QED
  BY <1>3, <1>4, <1>5, <1>6, <1>7 DEF CallStep

LEMMA StepTypes ==
    ASSUME LedgerTypeOK, [Next]_vars
    PROVE  LedgerTypeOK'
<1>1. CASE UNCHANGED vars
  BY <1>1 DEF LedgerTypeOK, vars, roleVars, spendVars, lateVars, outVars
<1>. QED
  BY <1>1, AdministerTypes, SpendTypes, CallStepTypes DEF Next, CallStep

----------------------------------------------------------------------------
(* Markers *)

LEMMA InitMarkers == Init => MarkersMatchCalls
BY DEF Init, MarkersMatchCalls, Waiting, Calls

LEMMA SpendMarkers ==
    ASSUME LedgerInv,
           NEW s \in SpendSlots, NEW u \in Users, NEW b \in BetPrograms,
           NEW m \in MatchIds, NEW amount \in Amounts, SpendFreebet(s, u, b, m, amount)
    PROVE  MarkersMatchCalls'
<1>. DEFINE c == [key |-> <<u, b, m>>, amount |-> amount,
                  waiting |-> TRUE, message |-> "queued"]
<1>1. /\ spends' = [spends EXCEPT ![s] = c]
      /\ spends[s] = NoCall
      /\ spends \in [SpendSlots -> Spends \cup {NoCall}]
      /\ pending_spends' = pending_spends \cup {<<u, b, m>>}
      /\ <<u, b, m>> \notin pending_spends
  BY DEF SpendFreebet, LedgerInv, LedgerTypeOK
<1>2. c # NoCall
  <2>1. c \in Spends
    BY LedgerAssumption DEF Spends, Keys
  <2>. QED
    BY <2>1, LedgerMarkers
<1>3. c.waiting = TRUE /\ c.key = <<u, b, m>>
  OBVIOUS
<1>. HIDE DEF c
<1>4. Waiting' = Waiting \cup {s} /\ s \notin Waiting
  BY <1>1, <1>2, <1>3 DEF Waiting, Calls
<1>5. spends'[s].key = <<u, b, m>> /\ \A t \in Waiting : spends'[t] = spends[t]
  BY <1>1, <1>3, <1>4 DEF Waiting, Calls
<1>. QED
  BY <1>1, <1>4, <1>5 DEF LedgerInv, MarkersMatchCalls

(* A message being handled leaves the suspended calls and their keys. *)
LEMMA HandledMarkers ==
    ASSUME LedgerInv, NEW s \in SpendSlots,
           BetProgramKeeps(s) \/ BetProgramRefuses(s)
    PROVE  MarkersMatchCalls'
<1>1. LedgerTypeOK /\ CallStep(s)
  BY DEF LedgerInv, CallStep
<1>2. s \in Calls /\ spends[s] \in Spends /\ spends[s].waiting \in BOOLEAN
  BY <1>1, CallStepShape, CallTyped
<1>3. PICK c \in Spends \cup {NoCall} :
         /\ spends' = [spends EXCEPT ![s] = c]
         /\ BetProgramKeeps(s) =>
              c = IF spends[s].waiting
                  THEN [spends[s] EXCEPT !.message = "kept"] ELSE NoCall
         /\ BetProgramRefuses(s) =>
              c = IF spends[s].waiting
                  THEN [spends[s] EXCEPT !.message = "refused"] ELSE NoCall
  BY <1>1, CallStepShape
<1>4. pending_spends' = pending_spends
  BY DEF BetProgramKeeps, BetProgramRefuses
<1>5. spends \in [SpendSlots -> Spends \cup {NoCall}]
  BY DEF LedgerInv, LedgerTypeOK
<1>6. IF s \in Waiting
      THEN c \in Spends /\ c.waiting = TRUE /\ c.key = spends[s].key
      ELSE c = NoCall
  BY <1>2, <1>3, CallChanged DEF Waiting, Spends
<1>7. Waiting' = Waiting /\ \A t \in Waiting : spends'[t].key = spends[t].key
  BY <1>3, <1>5, <1>6, LedgerMarkers DEF Waiting, Calls
<1>. QED
  BY <1>4, <1>7 DEF LedgerInv, MarkersMatchCalls

(* A call that ends takes its marker with it and no other's. *)
LEMMA EndedMarkers ==
    ASSUME LedgerInv, NEW s \in SpendSlots,
           SpendSucceeds(s) \/ SpendFails(s) \/ SpendTimesOut(s)
    PROVE  MarkersMatchCalls'
<1>1. LedgerTypeOK /\ CallStep(s)
  BY DEF LedgerInv, CallStep
<1>2. s \in Calls /\ spends[s] \in Spends /\ s \in Waiting
  BY <1>1, CallStepShape, CallTyped DEF SpendSucceeds, SpendFails, SpendTimesOut
<1>3. PICK c \in Spends \cup {NoCall} :
         /\ spends' = [spends EXCEPT ![s] = c]
         /\ SpendSucceeds(s) \/ SpendFails(s) => c = NoCall
         /\ SpendTimesOut(s) =>
              c = IF spends[s].message = "queued"
                  THEN [spends[s] EXCEPT !.waiting = FALSE] ELSE NoCall
  BY <1>1, CallStepShape
<1>4. pending_spends' = pending_spends \ {spends[s].key}
  BY DEF SpendSucceeds, SpendFails, SpendTimesOut, RestoreBalance
<1>5. spends \in [SpendSlots -> Spends \cup {NoCall}]
  BY DEF LedgerInv, LedgerTypeOK
<1>6. c = NoCall \/ c.waiting = FALSE
  BY <1>2, <1>3 DEF Spends
<1>7. Waiting' = Waiting \ {s} /\ \A t \in Waiting \ {s} : spends'[t] = spends[t]
  BY <1>3, <1>5, <1>6 DEF Waiting, Calls
<1>. QED
  BY <1>2, <1>4, <1>7 DEF LedgerInv, MarkersMatchCalls

LEMMA StepMarkers ==
    ASSUME LedgerInv, [Next]_vars
    PROVE  MarkersMatchCalls'
<1>1. CASE UNCHANGED spendVars
  BY <1>1 DEF LedgerInv, MarkersMatchCalls, Waiting, Calls, spendVars
<1>2. CASE Administer
  <2>1. UNCHANGED spendVars
    BY <1>2 DEF Administer, AddAdmin, RemoveAdmin, AuthorizeBetProgram,
                RevokeBetProgram, Grant, WithdrawSurplusVara, ForceWithdrawVara
  <2>. QED
    BY <1>1, <2>1
<1>3. CASE Spend
  <2>1. ASSUME NEW u \in Users, NEW b \in BetPrograms, NEW amount \in Amounts,
               ReturnFreebet(b, u, amount)
        PROVE  MarkersMatchCalls'
    BY <1>1, <2>1 DEF ReturnFreebet
  <2>. QED
    BY <1>3, <2>1, SpendMarkers DEF Spend
<1>4. CASE UNCHANGED vars
  BY <1>1, <1>4 DEF vars
<1>. QED
  BY <1>2, <1>3, <1>4, HandledMarkers, EndedMarkers DEF Next

----------------------------------------------------------------------------
(* Sums *)

LEMMA VaraInDef ==
    ASSUME NEW calls
    PROVE  VaraOf(calls) = VaraIn(spends, calls)
BY DEF VaraOf, VaraIn

LEMMA VaraInNat ==
    ASSUME NEW sp \in [SpendSlots -> Spends \cup {NoCall}],
           NEW A, \A t \in A \cap SpendSlots : sp[t] # NoCall
    PROVE  VaraIn(sp, A) \in Nat
<1>. DEFINE f == [t \in SpendSlots |-> IF t \in A THEN sp[t].amount ELSE 0]
<1>1. \A t \in SpendSlots : f[t] \in Nat
  BY DEF Spends
<1>. HIDE DEF f
<1>2. SumOver(f, SpendSlots) \in Nat
  BY <1>1, LedgerAssumption, SumOverNat
<1>. QED
  BY <1>2 DEF VaraIn, f

(* When one call changes, a sum of stakes changes by that call's.  A and B *)
(* are the calls summed before and after.                                  *)
LEMMA VaraInChange ==
    ASSUME NEW sp \in [SpendSlots -> Spends \cup {NoCall}],
           NEW sq \in [SpendSlots -> Spends \cup {NoCall}],
           NEW A, \A t \in A \cap SpendSlots : sp[t] # NoCall,
           NEW B, \A t \in B \cap SpendSlots : sq[t] # NoCall,
           NEW s \in SpendSlots,
           \A t \in SpendSlots \ {s} : sq[t] = sp[t] /\ (t \in A <=> t \in B)
    PROVE  VaraIn(sq, B) = VaraIn(sp, A) - (IF s \in A THEN sp[s].amount ELSE 0)
                                         + (IF s \in B THEN sq[s].amount ELSE 0)
<1>. DEFINE f == [t \in SpendSlots |-> IF t \in A THEN sp[t].amount ELSE 0]
            g == [t \in SpendSlots |-> IF t \in B THEN sq[t].amount ELSE 0]
<1>1. \A t \in SpendSlots : f[t] \in Nat /\ g[t] \in Nat
  BY DEF Spends
<1>2. \A t \in SpendSlots \ {s} : f[t] = g[t]
  OBVIOUS
<1>3. /\ f[s] = (IF s \in A THEN sp[s].amount ELSE 0)
      /\ g[s] = (IF s \in B THEN sq[s].amount ELSE 0)
  OBVIOUS
<1>. HIDE DEF f, g
<1>4. SumOver(g, SpendSlots) = SumOver(f, SpendSlots) - f[s] + g[s]
  BY <1>1, <1>2, LedgerAssumption, SumOverChange
<1>5. VaraIn(sp, A) = SumOver(f, SpendSlots) /\ VaraIn(sq, B) = SumOver(g, SpendSlots)
  BY DEF VaraIn, f, g
<1>. QED
  BY <1>3, <1>4, <1>5

(* The terms of the books as numbers. *)
LEMMA TermsNat ==
    ASSUME LedgerTypeOK
    PROVE  /\ Liability \in Nat
           /\ VaraOf(Returning) \in Nat /\ VaraOf(Strays) \in Nat
           /\ SumOver(recovered, Users) \in Nat /\ SumOver(late, Users) \in Nat
           /\ available \in Nat /\ forced \in Nat /\ hasty \in Nat
<1>1. \A u \in Users : balances[u] \in Nat /\ late[u] \in Nat /\ recovered[u] \in Nat
  BY DEF LedgerTypeOK
<1>2. spends \in [SpendSlots -> Spends \cup {NoCall}]
  BY DEF LedgerTypeOK
<1>3. /\ \A t \in Returning \cap SpendSlots : spends[t] # NoCall
      /\ \A t \in Strays \cap SpendSlots : spends[t] # NoCall
  BY DEF Returning, Waiting, Strays, Calls
<1>4. VaraOf(Returning) \in Nat /\ VaraOf(Strays) \in Nat
  BY <1>2, <1>3, VaraInNat, VaraInDef
<1>5. SumOver(balances, Users) \in Nat
  BY <1>1, LedgerAssumption, SumOverNat
<1>6. SumOver(late, Users) \in Nat
  BY <1>1, LedgerAssumption, SumOverNat
<1>7. SumOver(recovered, Users) \in Nat
  BY <1>1, LedgerAssumption, SumOverNat
<1>. QED
  BY <1>4, <1>5, <1>6, <1>7 DEF Liability, LedgerTypeOK

(* A step that changes one user's entry changes the sum by as much. *)
LEMMA UserSumChange ==
    ASSUME NEW f \in [Users -> Nat], NEW g \in [Users -> Nat], NEW u \in Users,
           \A v \in Users \ {u} : g[v] = f[v]
    PROVE  SumOver(g, Users) = SumOver(f, Users) - f[u] + g[u]
BY LedgerAssumption, SumOverChange

(* A step that changes one call changes the refused stakes, and the        *)
(* strays, by that call's.                                                 *)
LEMMA StakesChange ==
    ASSUME LedgerTypeOK, LedgerTypeOK', NEW s \in SpendSlots,
           \A t \in SpendSlots \ {s} : spends'[t] = spends[t]
    PROVE  /\ VaraOf(Returning)' =
                VaraOf(Returning) - (IF s \in Returning THEN spends[s].amount ELSE 0)
                                  + (IF s \in Returning' THEN spends'[s].amount ELSE 0)
           /\ VaraOf(Strays)' =
                VaraOf(Strays) - (IF s \in Strays THEN spends[s].amount ELSE 0)
                               + (IF s \in Strays' THEN spends'[s].amount ELSE 0)
<1>1. /\ spends \in [SpendSlots -> Spends \cup {NoCall}]
      /\ spends' \in [SpendSlots -> Spends \cup {NoCall}]
  BY DEF LedgerTypeOK
<1>2. /\ \A t \in Returning \cap SpendSlots : spends[t] # NoCall
      /\ \A t \in Strays \cap SpendSlots : spends[t] # NoCall
      /\ \A t \in Returning' \cap SpendSlots : spends'[t] # NoCall
      /\ \A t \in Strays' \cap SpendSlots : spends'[t] # NoCall
  BY DEF Returning, Waiting, Strays, Calls
<1>3. \A t \in SpendSlots \ {s} : /\ t \in Returning <=> t \in Returning'
                                  /\ t \in Strays <=> t \in Strays'
  BY DEF Returning, Waiting, Strays, Calls
<1>4. VaraOf(Returning)' = VaraIn(spends', Returning')
  BY DEF VaraOf, VaraIn
<1>5. VaraOf(Strays)' = VaraIn(spends', Strays')
  BY DEF VaraOf, VaraIn
<1>6. VaraOf(Returning) = VaraIn(spends, Returning) /\ VaraOf(Strays) = VaraIn(spends, Strays)
  BY VaraInDef
<1>7. VaraIn(spends', Returning') =
         VaraIn(spends, Returning) - (IF s \in Returning THEN spends[s].amount ELSE 0)
                                   + (IF s \in Returning' THEN spends'[s].amount ELSE 0)
  BY <1>1, <1>2, <1>3, VaraInChange
<1>8. VaraIn(spends', Strays') =
         VaraIn(spends, Strays) - (IF s \in Strays THEN spends[s].amount ELSE 0)
                                + (IF s \in Strays' THEN spends'[s].amount ELSE 0)
  BY <1>1, <1>2, <1>3, VaraInChange
<1>. QED
  BY <1>4, <1>5, <1>6, <1>7, <1>8

LEMMA VaraOfNone == VaraOf({}) = 0
<1>. DEFINE f == [t \in SpendSlots |-> IF t \in {} THEN spends[t].amount ELSE 0]
<1>1. \A t \in SpendSlots : f[t] = 0
  OBVIOUS
<1>. HIDE DEF f
<1>2. SumOver(f, SpendSlots) = 0
  BY <1>1, LedgerAssumption, SumOverZero
<1>. QED
  BY <1>2 DEF VaraOf, f

(* With no marker set there is no refused stake on its way back. *)
LEMMA NothingReturning ==
    ASSUME LedgerTypeOK, MarkersMatchCalls, pending_spends = {}
    PROVE  VaraOf(Returning) = 0
<1>1. Returning = {}
  BY DEF MarkersMatchCalls, Returning
<1>. QED
  BY <1>1, VaraOfNone


----------------------------------------------------------------------------
(* Backing *)

LEMMA InitBacked == Init => LateBooks /\ LiabilityIsBacked
<1>. SUFFICES ASSUME Init
              PROVE  LateBooks /\ LiabilityIsBacked
  OBVIOUS
<1>1. LedgerTypeOK /\ MarkersMatchCalls /\ pending_spends = {}
  BY InitTypes, InitMarkers DEF Init
<1>2. VaraOf(Returning) = 0
  BY <1>1, NothingReturning
<1>8. VaraOf(Strays) = 0
  <2>1. Strays = {}
    BY DEF Init, Strays, Calls
  <2>. QED
    BY <2>1, VaraOfNone
<1>3. \A u \in Users : balances[u] = 0 /\ recovered[u] = 0 /\ late[u] = 0
  BY DEF Init
<1>4. SumOver(balances, Users) = 0
  BY <1>3, LedgerAssumption, SumOverZero
<1>5. SumOver(recovered, Users) = 0
  BY <1>3, LedgerAssumption, SumOverZero
<1>6. SumOver(late, Users) = 0
  BY <1>3, LedgerAssumption, SumOverZero
<1>7. available = 0 /\ forced = 0 /\ hasty = 0
  BY DEF Init
<1>. QED
  BY <1>2, <1>4, <1>5, <1>6, <1>7, <1>8 DEF LateBooks, LiabilityIsBacked, Liability

(* The credit of all users follows one user's. *)
LEMMA LiabilityChange ==
    ASSUME LedgerTypeOK, LedgerTypeOK', NEW u \in Users,
           \A v \in Users \ {u} : balances'[v] = balances[v]
    PROVE  Liability' = Liability - balances[u] + balances'[u]
<1>1. balances \in [Users -> Nat] /\ balances' \in [Users -> Nat]
  BY DEF LedgerTypeOK
<1>2. SumOver(balances', Users)
        = SumOver(balances, Users) - balances[u] + balances'[u]
  BY <1>1, UserSumChange
<1>. QED
  BY <1>2 DEF Liability

LEMMA AdministerBacked ==
    ASSUME LedgerInv, LedgerTypeOK', Administer
    PROVE  LateBooks' /\ LiabilityIsBacked'
<1>. USE LedgerAssumption
<1>1. LedgerTypeOK /\ MarkersMatchCalls /\ LateBooks /\ LiabilityIsBacked
  BY DEF LedgerInv
<1>2. /\ Liability \in Nat
      /\ VaraOf(Returning) \in Nat /\ VaraOf(Strays) \in Nat
      /\ SumOver(recovered, Users) \in Nat /\ SumOver(late, Users) \in Nat
      /\ available \in Nat /\ forced \in Nat /\ hasty \in Nat
  BY <1>1, TermsNat
<1>3. /\ VaraOf(Returning)' = VaraOf(Returning)
      /\ VaraOf(Strays)' = VaraOf(Strays)
      /\ SumOver(recovered, Users)' = SumOver(recovered, Users)
      /\ SumOver(late, Users)' = SumOver(late, Users)
  <2>1. spends' = spends /\ late' = late /\ recovered' = recovered
    BY DEF Administer, AddAdmin, RemoveAdmin, AuthorizeBetProgram, RevokeBetProgram,
           Grant, WithdrawSurplusVara, ForceWithdrawVara, spendVars, lateVars
  <2>. QED
    BY <2>1 DEF VaraOf, Returning, Strays, Waiting, Calls
<1>4. balances' = balances => Liability' = Liability
  BY DEF Liability
<1>5. ASSUME NEW caller \in Accounts, NEW a \in Accounts,
             AddAdmin(caller, a) \/ RemoveAdmin(caller, a)
      PROVE  LiabilityIsBacked'
  <2>1. balances' = balances /\ available' = available /\ forced' = forced /\ hasty' = hasty
    BY <1>5 DEF AddAdmin, RemoveAdmin, outVars
  <2>. QED
    BY <1>1, <1>3, <1>4, <2>1 DEF LiabilityIsBacked
<1>6. ASSUME NEW caller \in Accounts, NEW b \in BetPrograms,
             NEW value \in Amounts \cup {0}, AuthorizeBetProgram(caller, b, value)
      PROVE  LiabilityIsBacked'
  <2>1. /\ balances' = balances /\ available' = available + value /\ value \in Nat
        /\ forced' = forced /\ hasty' = hasty
    BY <1>6 DEF AuthorizeBetProgram, outVars
  <2>. QED
    BY <1>1, <1>2, <1>3, <1>4, <2>1 DEF LiabilityIsBacked
<1>7. ASSUME NEW caller \in Accounts, NEW b \in BetPrograms, RevokeBetProgram(caller, b)
      PROVE  LiabilityIsBacked'
  <2>1. balances' = balances /\ available' = available /\ forced' = forced /\ hasty' = hasty
    BY <1>7 DEF RevokeBetProgram, outVars
  <2>. QED
    BY <1>1, <1>3, <1>4, <2>1 DEF LiabilityIsBacked
<1>8. ASSUME NEW caller \in Accounts, NEW to \in Users, NEW id \in GrantIds,
             NEW value \in GrantValues, Grant(caller, to, id, value)
      PROVE  LiabilityIsBacked'
  <2>1. /\ balances' = [balances EXCEPT ![to] = @ + value]
        /\ available' = available + value /\ value \in Nat
        /\ forced' = forced /\ hasty' = hasty
    BY <1>8 DEF Grant, outVars
  <2>2. /\ balances[to] \in Nat
        /\ balances'[to] = balances[to] + value
        /\ \A v \in Users \ {to} : balances'[v] = balances[v]
    BY <1>1, <2>1 DEF LedgerTypeOK
  <2>3. Liability' = Liability - balances[to] + balances'[to]
    BY <1>1, <2>2, LiabilityChange
  <2>4. Liability' = Liability + value
    BY <1>2, <2>1, <2>2, <2>3
  <2>. QED
    BY <1>1, <1>2, <1>3, <2>1, <2>4 DEF LiabilityIsBacked
<1>9. ASSUME NEW caller \in Accounts, NEW amount \in Amounts,
             WithdrawSurplusVara(caller, amount)
      PROVE  LiabilityIsBacked'
  <2>1. /\ balances' = balances /\ available' = available - amount /\ amount \in Nat
        /\ amount > 0 /\ amount <= Surplus /\ forced' = forced
        /\ hasty' = IF pending_spends = {} THEN hasty ELSE hasty + amount
    BY <1>9 DEF WithdrawSurplusVara
  <2>2. amount <= available - Liability
    BY <1>2, <2>1 DEF Surplus
  <2>3. CASE pending_spends # {}
    BY <1>1, <1>2, <1>3, <1>4, <2>1, <2>3 DEF LiabilityIsBacked
  <2>4. CASE pending_spends = {}
    <3>1. VaraOf(Returning) = 0
      BY <1>1, <2>4, NothingReturning
    <3>. QED
      BY <1>1, <1>2, <1>3, <1>4, <2>1, <2>2, <2>4, <3>1 DEF LateBooks, LiabilityIsBacked
  <2>. QED
    BY <2>3, <2>4
<1>10. ASSUME NEW caller \in Accounts, NEW amount \in Amounts,
              ForceWithdrawVara(caller, amount)
       PROVE  LiabilityIsBacked'
  <2>1. /\ balances' = balances /\ available' = available - amount /\ amount \in Nat
        /\ forced' = forced + amount /\ hasty' = hasty
    BY <1>10 DEF ForceWithdrawVara
  <2>. QED
    BY <1>1, <1>2, <1>3, <1>4, <2>1 DEF LiabilityIsBacked
<1>11. LateBooks'
  BY <1>1, <1>3 DEF LateBooks
<1>. QED
  BY <1>5, <1>6, <1>7, <1>8, <1>9, <1>10, <1>11 DEF Administer

LEMMA SpendBacked ==
    ASSUME LedgerInv, LedgerTypeOK', Spend
    PROVE  LateBooks' /\ LiabilityIsBacked'
<1>. USE LedgerAssumption
<1>1. LedgerTypeOK /\ LateBooks /\ LiabilityIsBacked
  BY DEF LedgerInv
<1>2. /\ Liability \in Nat
      /\ VaraOf(Returning) \in Nat /\ VaraOf(Strays) \in Nat
      /\ SumOver(recovered, Users) \in Nat /\ SumOver(late, Users) \in Nat
      /\ available \in Nat /\ forced \in Nat /\ hasty \in Nat
  BY <1>1, TermsNat
<1>3. ASSUME NEW s \in SpendSlots, NEW u \in Users, NEW b \in BetPrograms,
             NEW m \in MatchIds, NEW amount \in Amounts, SpendFreebet(s, u, b, m, amount)
      PROVE  LateBooks' /\ LiabilityIsBacked'
  <2>1. /\ balances' = [balances EXCEPT ![u] = @ - amount]
        /\ available' = available - amount /\ amount \in Nat
        /\ forced' = forced /\ hasty' = hasty
        /\ late' = late /\ recovered' = recovered
    BY <1>3 DEF SpendFreebet, lateVars, outVars
  <2>2. /\ balances[u] \in Nat
        /\ balances'[u] = balances[u] - amount
        /\ \A v \in Users \ {u} : balances'[v] = balances[v]
    BY <1>1, <2>1 DEF LedgerTypeOK
  <2>3. Liability' = Liability - balances[u] + balances'[u]
    BY <1>1, <2>2, LiabilityChange
  <2>4. Liability' = Liability - amount
    BY <1>2, <2>1, <2>2, <2>3
  <2>5. /\ spends[s] = NoCall
        /\ spends'[s].waiting = TRUE /\ spends'[s].message = "queued"
        /\ \A t \in SpendSlots \ {s} : spends'[t] = spends[t]
    BY <1>1, <1>3 DEF SpendFreebet, LedgerTypeOK
  <2>6. s \notin Returning /\ s \notin Returning' /\ s \notin Strays /\ s \notin Strays'
    BY <2>5 DEF Returning, Strays, Waiting, Calls
  <2>7. VaraOf(Returning)' = VaraOf(Returning) /\ VaraOf(Strays)' = VaraOf(Strays)
    BY <1>1, <1>2, <2>5, <2>6, StakesChange
  <2>8. SumOver(recovered, Users)' = SumOver(recovered, Users)
        /\ SumOver(late, Users)' = SumOver(late, Users)
    BY <2>1
  <2>. QED
    BY <1>1, <1>2, <2>1, <2>4, <2>7, <2>8 DEF LateBooks, LiabilityIsBacked
<1>4. ASSUME NEW u \in Users, NEW b \in BetPrograms, NEW amount \in Amounts,
             ReturnFreebet(b, u, amount)
      PROVE  LateBooks' /\ LiabilityIsBacked'
  <2>1. /\ balances' = [balances EXCEPT ![u] = @ + amount]
        /\ available' = available + amount /\ amount \in Nat
        /\ forced' = forced /\ hasty' = hasty
        /\ late' = late /\ recovered' = recovered /\ spends' = spends
    BY <1>4 DEF ReturnFreebet, lateVars, outVars, spendVars
  <2>2. /\ balances[u] \in Nat
        /\ balances'[u] = balances[u] + amount
        /\ \A v \in Users \ {u} : balances'[v] = balances[v]
    BY <1>1, <2>1 DEF LedgerTypeOK
  <2>3. Liability' = Liability - balances[u] + balances'[u]
    BY <1>1, <2>2, LiabilityChange
  <2>4. Liability' = Liability + amount
    BY <1>2, <2>1, <2>2, <2>3
  <2>5. VaraOf(Returning)' = VaraOf(Returning) /\ VaraOf(Strays)' = VaraOf(Strays)
    BY <2>1 DEF VaraOf, Returning, Strays, Waiting, Calls
  <2>6. SumOver(recovered, Users)' = SumOver(recovered, Users)
        /\ SumOver(late, Users)' = SumOver(late, Users)
    BY <2>1
  <2>. QED
    BY <1>1, <1>2, <2>1, <2>4, <2>5, <2>6 DEF LateBooks, LiabilityIsBacked
<1>. QED
  BY <1>3, <1>4 DEF Spend

(* The call that a step changes, after the step. *)
LEMMA CallAfter ==
    ASSUME LedgerTypeOK, NEW s \in SpendSlots, CallStep(s)
    PROVE  /\ \A t \in SpendSlots \ {s} : spends'[t] = spends[t]
           /\ BetProgramKeeps(s) \/ BetProgramRefuses(s) =>
                IF spends[s].waiting
                THEN /\ spends'[s] \in Spends
                     /\ spends'[s].key = spends[s].key
                     /\ spends'[s].amount = spends[s].amount
                     /\ spends'[s].waiting = TRUE
                     /\ BetProgramKeeps(s) => spends'[s].message = "kept"
                     /\ BetProgramRefuses(s) => spends'[s].message = "refused"
                ELSE spends'[s] = NoCall
           /\ SpendSucceeds(s) \/ SpendFails(s) => spends'[s] = NoCall
           /\ SpendTimesOut(s) =>
                IF spends[s].message = "queued"
                THEN /\ spends'[s] \in Spends
                     /\ spends'[s].key = spends[s].key
                     /\ spends'[s].amount = spends[s].amount
                     /\ spends'[s].waiting = FALSE
                     /\ spends'[s].message = "queued"
                ELSE spends'[s] = NoCall
<1>1. spends \in [SpendSlots -> Spends \cup {NoCall}]
  BY DEF LedgerTypeOK
<1>2. spends[s] \in Spends
  BY CallStepShape, CallTyped
<1>3. \A d \in Spends :
         /\ [d EXCEPT !.message = "kept"] \in Spends
         /\ [d EXCEPT !.message = "kept"].key = d.key
         /\ [d EXCEPT !.message = "kept"].amount = d.amount
         /\ [d EXCEPT !.message = "kept"].waiting = d.waiting
         /\ [d EXCEPT !.message = "kept"].message = "kept"
  BY DEF Spends
<1>4. \A d \in Spends :
         /\ [d EXCEPT !.message = "refused"] \in Spends
         /\ [d EXCEPT !.message = "refused"].key = d.key
         /\ [d EXCEPT !.message = "refused"].amount = d.amount
         /\ [d EXCEPT !.message = "refused"].waiting = d.waiting
         /\ [d EXCEPT !.message = "refused"].message = "refused"
  BY DEF Spends
<1>5. \A d \in Spends :
         /\ [d EXCEPT !.waiting = FALSE] \in Spends
         /\ [d EXCEPT !.waiting = FALSE].key = d.key
         /\ [d EXCEPT !.waiting = FALSE].amount = d.amount
         /\ [d EXCEPT !.waiting = FALSE].waiting = FALSE
         /\ [d EXCEPT !.waiting = FALSE].message = d.message
  BY DEF Spends
<1>6. spends[s].waiting \in BOOLEAN
  BY <1>2 DEF Spends
<1>7. PICK c \in Spends \cup {NoCall} :
         /\ spends' = [spends EXCEPT ![s] = c]
         /\ BetProgramKeeps(s) =>
              c = IF spends[s].waiting
                  THEN [spends[s] EXCEPT !.message = "kept"] ELSE NoCall
         /\ BetProgramRefuses(s) =>
              c = IF spends[s].waiting
                  THEN [spends[s] EXCEPT !.message = "refused"] ELSE NoCall
         /\ SpendSucceeds(s) \/ SpendFails(s) => c = NoCall
         /\ SpendTimesOut(s) =>
              c = IF spends[s].message = "queued"
                  THEN [spends[s] EXCEPT !.waiting = FALSE] ELSE NoCall
  BY CallStepShape
<1>8. spends'[s] = c /\ \A t \in SpendSlots \ {s} : spends'[t] = spends[t]
  BY <1>1, <1>7
<1>9. ASSUME BetProgramKeeps(s), spends[s].waiting
       PROVE  /\ spends'[s] \in Spends
              /\ spends'[s].key = spends[s].key
              /\ spends'[s].amount = spends[s].amount
              /\ spends'[s].waiting = TRUE
              /\ spends'[s].message = "kept"
  <2>1. spends'[s] = [spends[s] EXCEPT !.message = "kept"]
    BY <1>7, <1>8, <1>9
  <2>. QED
    BY <1>2, <1>3, <1>6, <1>9, <2>1
<1>10. ASSUME BetProgramRefuses(s), spends[s].waiting
       PROVE  /\ spends'[s] \in Spends
              /\ spends'[s].key = spends[s].key
              /\ spends'[s].amount = spends[s].amount
              /\ spends'[s].waiting = TRUE
              /\ spends'[s].message = "refused"
  <2>1. spends'[s] = [spends[s] EXCEPT !.message = "refused"]
    BY <1>7, <1>8, <1>10
  <2>. QED
    BY <1>2, <1>4, <1>6, <1>10, <2>1
<1>11. ASSUME SpendTimesOut(s), spends[s].message = "queued"
       PROVE  /\ spends'[s] \in Spends
              /\ spends'[s].key = spends[s].key
              /\ spends'[s].amount = spends[s].amount
              /\ spends'[s].waiting = FALSE
              /\ spends'[s].message = "queued"
  <2>1. spends'[s] = [spends[s] EXCEPT !.waiting = FALSE]
    BY <1>7, <1>8, <1>11
  <2>. QED
    BY <1>2, <1>5, <1>11, <2>1
<1>. QED
  BY <1>7, <1>8, <1>9, <1>10, <1>11

LEMMA CallStepBacked ==
    ASSUME LedgerInv, LedgerTypeOK', NEW s \in SpendSlots, CallStep(s)
    PROVE  LateBooks' /\ LiabilityIsBacked'
<1>1. LedgerTypeOK /\ LateBooks /\ LiabilityIsBacked
  BY DEF LedgerInv
<1>2. /\ Liability \in Nat
      /\ VaraOf(Returning) \in Nat /\ VaraOf(Strays) \in Nat
      /\ SumOver(recovered, Users) \in Nat /\ SumOver(late, Users) \in Nat
      /\ available \in Nat /\ forced \in Nat /\ hasty \in Nat
  BY <1>1, TermsNat
<1>. DEFINE a == spends[s].amount
            u == UserOf(s)
<1>3. /\ s \in Calls /\ spends[s] # NoCall
      /\ a \in Nat /\ u \in Users /\ spends[s].waiting \in BOOLEAN
  BY <1>1, CallStepShape, CallTyped DEF Calls
<1>4. \A t \in SpendSlots \ {s} : spends'[t] = spends[t]
  BY <1>1, CallAfter
<1>5. /\ VaraOf(Returning)' =
           VaraOf(Returning) - (IF s \in Returning THEN a ELSE 0)
                             + (IF s \in Returning' THEN spends'[s].amount ELSE 0)
      /\ VaraOf(Strays)' =
           VaraOf(Strays) - (IF s \in Strays THEN a ELSE 0)
                          + (IF s \in Strays' THEN spends'[s].amount ELSE 0)
  BY <1>1, <1>4, StakesChange
<1>6. /\ s \in Returning <=> spends[s].waiting /\ spends[s].message = "refused"
      /\ s \in Strays <=> ~ spends[s].waiting
      /\ s \in Returning' <=> /\ spends'[s] # NoCall /\ spends'[s].waiting
                              /\ spends'[s].message = "refused"
      /\ s \in Strays' <=> spends'[s] # NoCall /\ ~ spends'[s].waiting
  BY <1>3 DEF Returning, Strays, Waiting, Calls
<1>7. /\ balances \in [Users -> Nat] /\ balances' \in [Users -> Nat]
      /\ late \in [Users -> Nat] /\ late' \in [Users -> Nat]
      /\ recovered \in [Users -> Nat] /\ recovered' \in [Users -> Nat]
  BY <1>1 DEF LedgerTypeOK
<1>8. ASSUME balances' = [balances EXCEPT ![u] = @ + a]
      PROVE  Liability' = Liability + a
  <2>1. /\ balances'[u] = balances[u] + a /\ balances[u] \in Nat
        /\ \A v \in Users \ {u} : balances'[v] = balances[v]
    BY <1>3, <1>7, <1>8
  <2>2. Liability' = Liability - balances[u] + balances'[u]
    BY <1>1, <1>3, <2>1, LiabilityChange
  <2>. QED
    BY <1>2, <1>3, <2>1, <2>2
<1>9. CASE BetProgramKeeps(s)
  <2>1. /\ balances' = balances /\ available' = available /\ forced' = forced
        /\ hasty' = hasty /\ late' = late /\ recovered' = recovered
        /\ spends[s].message = "queued"
    BY <1>9 DEF BetProgramKeeps, lateVars, outVars
  <2>2. IF spends[s].waiting
        THEN spends'[s].waiting = TRUE /\ spends'[s].message = "kept"
        ELSE spends'[s] = NoCall
    BY <1>1, <1>9, CallAfter
  <2>3. s \notin Returning /\ s \notin Returning' /\ s \notin Strays'
    BY <1>6, <2>1, <2>2
  <2>4. VaraOf(Returning)' = VaraOf(Returning) /\ VaraOf(Strays)' <= VaraOf(Strays)
                             /\ VaraOf(Strays)' \in Int
    BY <1>2, <1>3, <1>5, <2>3
  <2>5. Liability' = Liability /\ SumOver(recovered, Users)' = SumOver(recovered, Users)
        /\ SumOver(late, Users)' = SumOver(late, Users)
    BY <2>1 DEF Liability
  <2>. QED
    BY <1>1, <1>2, <2>1, <2>4, <2>5 DEF LateBooks, LiabilityIsBacked
<1>10. CASE BetProgramRefuses(s) /\ spends[s].waiting
  <2>1. /\ balances' = balances /\ available' = available + a /\ forced' = forced
        /\ hasty' = hasty /\ late' = late /\ recovered' = recovered
        /\ spends[s].message = "queued"
    BY <1>10 DEF BetProgramRefuses, outVars
  <2>2. /\ spends'[s] # NoCall /\ spends'[s].waiting = TRUE
        /\ spends'[s].message = "refused" /\ spends'[s].amount = a
    BY <1>1, <1>10, CallAfter, LedgerMarkers
  <2>3. s \notin Returning /\ s \in Returning' /\ s \notin Strays /\ s \notin Strays'
    BY <1>6, <1>10, <2>1, <2>2
  <2>4. VaraOf(Returning)' = VaraOf(Returning) + a /\ VaraOf(Strays)' = VaraOf(Strays)
    BY <1>2, <1>3, <1>5, <2>2, <2>3
  <2>5. Liability' = Liability /\ SumOver(recovered, Users)' = SumOver(recovered, Users)
        /\ SumOver(late, Users)' = SumOver(late, Users)
    BY <2>1 DEF Liability
  <2>. QED
    BY <1>1, <1>2, <1>3, <2>1, <2>4, <2>5 DEF LateBooks, LiabilityIsBacked
<1>11. CASE BetProgramRefuses(s) /\ ~ spends[s].waiting
  <2>1. /\ balances' = balances /\ available' = available + a /\ forced' = forced
        /\ hasty' = hasty /\ late' = late
        /\ recovered' = [recovered EXCEPT ![u] = @ + a]
    BY <1>11 DEF BetProgramRefuses, outVars
  <2>2. spends'[s] = NoCall
    BY <1>1, <1>11, CallAfter
  <2>3. s \notin Returning /\ s \notin Returning' /\ s \in Strays /\ s \notin Strays'
    BY <1>6, <1>11, <2>2
  <2>4. VaraOf(Returning)' = VaraOf(Returning) /\ VaraOf(Strays)' = VaraOf(Strays) - a
    BY <1>2, <1>3, <1>5, <2>3
  <2>5. /\ recovered'[u] = recovered[u] + a /\ recovered[u] \in Nat
        /\ \A v \in Users \ {u} : recovered'[v] = recovered[v]
    BY <1>3, <1>7, <2>1
  <2>6. SumOver(recovered', Users)
          = SumOver(recovered, Users) - recovered[u] + recovered'[u]
    BY <1>3, <1>7, <2>5, UserSumChange
  <2>7. SumOver(recovered, Users)' = SumOver(recovered, Users) + a
    BY <1>2, <1>3, <2>5, <2>6
  <2>8. Liability' = Liability /\ SumOver(late, Users)' = SumOver(late, Users)
    BY <2>1 DEF Liability
  <2>. QED
    BY <1>1, <1>2, <1>3, <2>1, <2>4, <2>7, <2>8 DEF LateBooks, LiabilityIsBacked
<1>12. CASE SpendSucceeds(s)
  <2>1. /\ balances' = balances /\ available' = available /\ forced' = forced
        /\ hasty' = hasty /\ late' = late /\ recovered' = recovered
        /\ spends[s].message = "kept" /\ spends[s].waiting
    BY <1>12 DEF SpendSucceeds, Waiting, lateVars, outVars
  <2>2. spends'[s] = NoCall
    BY <1>1, <1>12, CallAfter
  <2>3. s \notin Returning /\ s \notin Returning' /\ s \notin Strays /\ s \notin Strays'
    BY <1>6, <2>1, <2>2
  <2>4. VaraOf(Returning)' = VaraOf(Returning) /\ VaraOf(Strays)' = VaraOf(Strays)
    BY <1>2, <1>5, <2>3
  <2>5. Liability' = Liability /\ SumOver(recovered, Users)' = SumOver(recovered, Users)
        /\ SumOver(late, Users)' = SumOver(late, Users)
    BY <2>1 DEF Liability
  <2>. QED
    BY <1>1, <1>2, <2>1, <2>4, <2>5 DEF LateBooks, LiabilityIsBacked
<1>13. CASE SpendFails(s)
  <2>1. /\ balances' = [balances EXCEPT ![u] = @ + a]
        /\ available' = available /\ forced' = forced
        /\ hasty' = hasty /\ late' = late /\ recovered' = recovered
        /\ spends[s].message = "refused" /\ spends[s].waiting
    BY <1>13 DEF SpendFails, RestoreBalance, Waiting, lateVars, outVars
  <2>2. spends'[s] = NoCall
    BY <1>1, <1>13, CallAfter
  <2>3. s \in Returning /\ s \notin Returning' /\ s \notin Strays /\ s \notin Strays'
    BY <1>6, <2>1, <2>2
  <2>4. VaraOf(Returning)' = VaraOf(Returning) - a /\ VaraOf(Strays)' = VaraOf(Strays)
    BY <1>2, <1>3, <1>5, <2>3
  <2>5. Liability' = Liability + a
    BY <1>8, <2>1
  <2>6. SumOver(recovered, Users)' = SumOver(recovered, Users)
        /\ SumOver(late, Users)' = SumOver(late, Users)
    BY <2>1
  <2>. QED
    BY <1>1, <1>2, <1>3, <2>1, <2>4, <2>5, <2>6 DEF LateBooks, LiabilityIsBacked
<1>14. CASE SpendTimesOut(s)
  <2>1. /\ balances' = [balances EXCEPT ![u] = @ + a]
        /\ late' = [late EXCEPT ![u] = @ + a]
        /\ available' = available /\ forced' = forced
        /\ hasty' = hasty /\ recovered' = recovered
        /\ spends[s].message # "refused" /\ spends[s].waiting
    BY <1>14 DEF SpendTimesOut, RestoreBalance, Waiting, outVars
  <2>2. IF spends[s].message = "queued"
        THEN spends'[s].waiting = FALSE /\ spends'[s].amount = a
        ELSE spends'[s] = NoCall
    BY <1>1, <1>14, CallAfter
  <2>3. s \notin Returning /\ s \notin Returning' /\ s \notin Strays
    BY <1>6, <2>1, <2>2
  <2>4. s \in Strays' => spends'[s].amount = a
    BY <1>6, <2>2
  <2>5. VaraOf(Returning)' = VaraOf(Returning) /\ VaraOf(Strays)' <= VaraOf(Strays) + a
                             /\ VaraOf(Strays)' \in Int
    BY <1>2, <1>3, <1>5, <2>3, <2>4
  <2>6. Liability' = Liability + a
    BY <1>8, <2>1
  <2>7. /\ late'[u] = late[u] + a /\ late[u] \in Nat
        /\ \A v \in Users \ {u} : late'[v] = late[v]
    BY <1>3, <1>7, <2>1
  <2>8. SumOver(late', Users) = SumOver(late, Users) - late[u] + late'[u]
    BY <1>3, <1>7, <2>7, UserSumChange
  <2>9. SumOver(late, Users)' = SumOver(late, Users) + a
    BY <1>2, <1>3, <2>7, <2>8
  <2>10. SumOver(recovered, Users)' = SumOver(recovered, Users)
    BY <2>1
  <2>. QED
    BY <1>1, <1>2, <1>3, <2>1, <2>5, <2>6, <2>9, <2>10 DEF LateBooks, LiabilityIsBacked
<1>. QED
  BY <1>9, <1>10, <1>11, <1>12, <1>13, <1>14 DEF CallStep

----------------------------------------------------------------------------
(* Credit *)

\* CreditIsConserved for one user.
CreditOf(w) ==
    balances[w] + VaraOf(OnTheWay(w)) + staked[w] + recovered[w]
        = GrantedTo(w) + late[w]

LEMMA CreditTermsTyped ==
    ASSUME LedgerTypeOK, NEW w \in Users
    PROVE  /\ balances[w] \in Nat /\ staked[w] \in Int
           /\ recovered[w] \in Nat /\ late[w] \in Nat
           /\ VaraOf(OnTheWay(w)) \in Nat /\ GrantedTo(w) \in Nat
<1>1. spends \in [SpendSlots -> Spends \cup {NoCall}]
  BY DEF LedgerTypeOK
<1>2. \A t \in OnTheWay(w) \cap SpendSlots : spends[t] # NoCall
  BY DEF OnTheWay, Calls
<1>3. VaraOf(OnTheWay(w)) \in Nat
  BY <1>1, <1>2, VaraInNat, VaraInDef
<1>. DEFINE f == [g \in GrantIds |->
                   IF grants[g] # NoGrant /\ grants[g].recipient = w
                   THEN grants[g].amount ELSE 0]
<1>4. \A g \in GrantIds : f[g] \in Nat
  BY DEF LedgerTypeOK, Grants
<1>. HIDE DEF f
<1>5. SumOver(f, GrantIds) \in Nat
  BY <1>4, LedgerAssumption, SumOverNat
<1>6. GrantedTo(w) \in Nat
  BY <1>5 DEF GrantedTo, f
<1>. QED
  BY <1>3, <1>6 DEF LedgerTypeOK

(* A grant adds its value to what its recipient was granted. *)
LEMMA GrantedChange ==
    ASSUME LedgerTypeOK, LedgerTypeOK', NEW caller \in Accounts, NEW to \in Users,
           NEW id \in GrantIds, NEW value \in GrantValues, Grant(caller, to, id, value),
           NEW w \in Users
    PROVE  GrantedTo(w)' = GrantedTo(w) + (IF w = to THEN value ELSE 0)
<1>. DEFINE f == [g \in GrantIds |->
                   IF grants[g] # NoGrant /\ grants[g].recipient = w
                   THEN grants[g].amount ELSE 0]
            h == [g \in GrantIds |->
                   IF grants'[g] # NoGrant /\ grants'[g].recipient = w
                   THEN grants'[g].amount ELSE 0]
<1>1. /\ grants \in [GrantIds -> Grants \cup {NoGrant}]
      /\ grants' \in [GrantIds -> Grants \cup {NoGrant}]
  BY DEF LedgerTypeOK
<1>2. /\ \A g \in GrantIds : f[g] \in Nat
      /\ \A g \in GrantIds : h[g] \in Nat
  BY <1>1 DEF Grants
<1>3. /\ grants[id] = NoGrant
      /\ grants' = [grants EXCEPT ![id] = [recipient |-> to, amount |-> value]]
  BY DEF Grant
<1>4. /\ grants'[id] = [recipient |-> to, amount |-> value]
      /\ \A g \in GrantIds \ {id} : grants'[g] = grants[g]
  BY <1>1, <1>3
<1>5. [recipient |-> to, amount |-> value] # NoGrant
  BY LedgerMarkers, LedgerAssumption DEF Grants
<1>6. /\ f[id] = 0
      /\ h[id] = (IF w = to THEN value ELSE 0)
      /\ \A g \in GrantIds \ {id} : f[g] = h[g]
  BY <1>3, <1>4, <1>5
<1>. HIDE DEF f, h
<1>7. SumOver(h, GrantIds) = SumOver(f, GrantIds) - f[id] + h[id]
  BY <1>2, <1>6, LedgerAssumption, SumOverChange
<1>8. GrantedTo(w) = SumOver(f, GrantIds) /\ GrantedTo(w)' = SumOver(h, GrantIds)
  BY DEF GrantedTo, f, h
<1>9. SumOver(f, GrantIds) \in Nat /\ value \in Nat
  BY <1>8, CreditTermsTyped, LedgerAssumption
<1>. QED
  BY <1>6, <1>7, <1>8, <1>9

(* A step that changes one call changes a user's stakes by that call's. *)
LEMMA OnTheWayChange ==
    ASSUME LedgerTypeOK, LedgerTypeOK', NEW s \in SpendSlots, NEW w \in Users,
           \A t \in SpendSlots \ {s} : spends'[t] = spends[t]
    PROVE  VaraOf(OnTheWay(w))' =
             VaraOf(OnTheWay(w)) - (IF s \in OnTheWay(w) THEN spends[s].amount ELSE 0)
                                 + (IF s \in OnTheWay(w)' THEN spends'[s].amount ELSE 0)
<1>1. /\ spends \in [SpendSlots -> Spends \cup {NoCall}]
      /\ spends' \in [SpendSlots -> Spends \cup {NoCall}]
  BY DEF LedgerTypeOK
<1>2. /\ \A t \in OnTheWay(w) \cap SpendSlots : spends[t] # NoCall
      /\ \A t \in OnTheWay(w)' \cap SpendSlots : spends'[t] # NoCall
  BY DEF OnTheWay, Calls
<1>3. \A t \in SpendSlots \ {s} : t \in OnTheWay(w) <=> t \in OnTheWay(w)'
  BY DEF OnTheWay, Calls, UserOf
<1>4. VaraOf(OnTheWay(w))' = VaraIn(spends', OnTheWay(w)')
  BY DEF VaraOf, VaraIn
<1>5. VaraOf(OnTheWay(w)) = VaraIn(spends, OnTheWay(w))
  BY VaraInDef
<1>6. VaraIn(spends', OnTheWay(w)') =
         VaraIn(spends, OnTheWay(w))
           - (IF s \in OnTheWay(w) THEN spends[s].amount ELSE 0)
           + (IF s \in OnTheWay(w)' THEN spends'[s].amount ELSE 0)
  BY <1>1, <1>2, <1>3, VaraInChange
<1>. QED
  BY <1>4, <1>5, <1>6

LEMMA InitCredit == Init => CreditIsConserved
<1>. SUFFICES ASSUME Init, NEW w \in Users
              PROVE  CreditOf(w)
  BY DEF CreditIsConserved, CreditOf
<1>1. OnTheWay(w) = {}
  BY DEF Init, OnTheWay, Calls
<1>2. VaraOf(OnTheWay(w)) = 0
  BY <1>1, VaraOfNone
<1>. DEFINE f == [g \in GrantIds |->
                   IF grants[g] # NoGrant /\ grants[g].recipient = w
                   THEN grants[g].amount ELSE 0]
<1>3. \A g \in GrantIds : f[g] = 0
  BY DEF Init
<1>. HIDE DEF f
<1>4. SumOver(f, GrantIds) = 0
  BY <1>3, LedgerAssumption, SumOverZero
<1>5. GrantedTo(w) = 0
  BY <1>4 DEF GrantedTo, f
<1>6. balances[w] = 0 /\ staked[w] = 0 /\ recovered[w] = 0 /\ late[w] = 0
  BY DEF Init
<1>. QED
  BY <1>2, <1>5, <1>6 DEF CreditOf

LEMMA AdministerCredit ==
    ASSUME LedgerTypeOK, LedgerTypeOK', Administer, NEW w \in Users, CreditOf(w)
    PROVE  CreditOf(w)'
<1>1. /\ spends' = spends /\ staked' = staked
      /\ late' = late /\ recovered' = recovered
  BY DEF Administer, AddAdmin, RemoveAdmin, AuthorizeBetProgram, RevokeBetProgram,
         Grant, WithdrawSurplusVara, ForceWithdrawVara, spendVars, lateVars
<1>2. VaraOf(OnTheWay(w))' = VaraOf(OnTheWay(w))
  BY <1>1 DEF VaraOf, OnTheWay, Calls, UserOf
<1>3. CASE UNCHANGED <<balances, grants>>
  <2>1. GrantedTo(w)' = GrantedTo(w)
    BY <1>3 DEF GrantedTo
  <2>. QED
    BY <1>1, <1>2, <1>3, <2>1 DEF CreditOf
<1>4. ASSUME NEW caller \in Accounts, NEW to \in Users, NEW id \in GrantIds,
             NEW value \in GrantValues, Grant(caller, to, id, value)
      PROVE  CreditOf(w)'
  <2>1. GrantedTo(w)' = GrantedTo(w) + (IF w = to THEN value ELSE 0)
    BY <1>4, GrantedChange
  <2>2. balances'[w] = balances[w] + (IF w = to THEN value ELSE 0)
    BY <1>4, CreditTermsTyped DEF Grant, LedgerTypeOK
  <2>3. value \in Nat
    BY LedgerAssumption
  <2>. QED
    BY <1>1, <1>2, <2>1, <2>2, <2>3, CreditTermsTyped DEF CreditOf
<1>5. (\E caller \in Accounts, to \in Users, id \in GrantIds, value \in GrantValues :
           Grant(caller, to, id, value)) \/ UNCHANGED <<balances, grants>>
  BY DEF Administer, AddAdmin, RemoveAdmin, AuthorizeBetProgram, RevokeBetProgram,
         WithdrawSurplusVara, ForceWithdrawVara
<1>. QED
  BY <1>3, <1>4, <1>5

LEMMA SpendCredit ==
    ASSUME LedgerTypeOK, LedgerTypeOK', Spend, NEW w \in Users, CreditOf(w)
    PROVE  CreditOf(w)'
<1>. USE LedgerAssumption
<1>1. ASSUME NEW s \in SpendSlots, NEW u \in Users, NEW b \in BetPrograms,
             NEW m \in MatchIds, NEW amount \in Amounts, SpendFreebet(s, u, b, m, amount)
      PROVE  CreditOf(w)'
  <2>1. /\ spends[s] = NoCall
        /\ spends'[s] = [key |-> <<u, b, m>>, amount |-> amount,
                         waiting |-> TRUE, message |-> "queued"]
        /\ \A t \in SpendSlots \ {s} : spends'[t] = spends[t]
    BY <1>1 DEF SpendFreebet, LedgerTypeOK
  <2>2. spends'[s] # NoCall
    <3>1. <<u, b, m>> \in Keys
      BY DEF Keys
    <3>2. [key |-> <<u, b, m>>, amount |-> amount,
           waiting |-> TRUE, message |-> "queued"] \in Spends
      BY <3>1 DEF Spends
    <3>. QED
      BY <2>1, <3>2, LedgerMarkers
  <2>3. s \notin OnTheWay(w) /\ (s \in OnTheWay(w)' <=> w = u) /\ spends'[s].amount = amount
    BY <2>1, <2>2 DEF OnTheWay, Calls, UserOf
  <2>4. VaraOf(OnTheWay(w))' = VaraOf(OnTheWay(w)) + (IF w = u THEN amount ELSE 0)
    <3>1. VaraOf(OnTheWay(w)) \in Nat
      BY CreditTermsTyped
    <3>2. VaraOf(OnTheWay(w))' =
             VaraOf(OnTheWay(w)) - (IF s \in OnTheWay(w) THEN spends[s].amount ELSE 0)
                                 + (IF s \in OnTheWay(w)' THEN spends'[s].amount ELSE 0)
      BY <2>1, OnTheWayChange
    <3>. QED
      BY <2>3, <3>1, <3>2
  <2>5. balances'[w] = balances[w] - (IF w = u THEN amount ELSE 0)
    BY <1>1, CreditTermsTyped DEF SpendFreebet, LedgerTypeOK
  <2>6. /\ grants' = grants /\ staked' = staked
        /\ late' = late /\ recovered' = recovered
    BY <1>1 DEF SpendFreebet, lateVars
  <2>7. GrantedTo(w)' = GrantedTo(w)
    BY <2>6 DEF GrantedTo
  <2>. QED
    BY <2>4, <2>5, <2>6, <2>7, CreditTermsTyped DEF CreditOf
<1>2. ASSUME NEW u \in Users, NEW b \in BetPrograms, NEW amount \in Amounts,
             ReturnFreebet(b, u, amount)
      PROVE  CreditOf(w)'
  <2>1. /\ grants' = grants /\ spends' = spends
        /\ late' = late /\ recovered' = recovered
    BY <1>2 DEF ReturnFreebet, spendVars, lateVars
  <2>2. /\ GrantedTo(w)' = GrantedTo(w)
        /\ VaraOf(OnTheWay(w))' = VaraOf(OnTheWay(w))
    BY <2>1 DEF GrantedTo, VaraOf, OnTheWay, Calls, UserOf
  <2>3. /\ balances'[w] = balances[w] + (IF w = u THEN amount ELSE 0)
        /\ staked'[w] = staked[w] - (IF w = u THEN amount ELSE 0)
    BY <1>2, CreditTermsTyped DEF ReturnFreebet, LedgerTypeOK
  <2>4. /\ balances[w] \in Nat /\ staked[w] \in Int
        /\ VaraOf(OnTheWay(w)) \in Nat /\ amount \in Nat
        /\ recovered[w] \in Nat /\ late[w] \in Nat /\ GrantedTo(w) \in Nat
    BY CreditTermsTyped
  <2>. QED
    BY <2>1, <2>2, <2>3, <2>4 DEF CreditOf
<1>. QED
  BY <1>1, <1>2 DEF Spend

LEMMA CallStepCredit ==
    ASSUME LedgerTypeOK, LedgerTypeOK', NEW s \in SpendSlots, CallStep(s),
           NEW w \in Users, CreditOf(w)
    PROVE  CreditOf(w)'
<1>. DEFINE a == spends[s].amount
            mine == IF w = UserOf(s) THEN a ELSE 0
<1>1. /\ s \in Calls /\ spends[s] # NoCall /\ a \in Nat /\ mine \in Nat
      /\ UserOf(s) \in Users /\ spends[s].waiting \in BOOLEAN
  BY CallStepShape, CallTyped DEF Calls
<1>2. \A t \in SpendSlots \ {s} : spends'[t] = spends[t]
  BY CallAfter
<1>3. VaraOf(OnTheWay(w))' =
         VaraOf(OnTheWay(w)) - (IF s \in OnTheWay(w) THEN a ELSE 0)
                             + (IF s \in OnTheWay(w)' THEN spends'[s].amount ELSE 0)
  BY <1>2, OnTheWayChange
<1>4. /\ s \in OnTheWay(w) <=> w = UserOf(s) /\ spends[s].message # "kept"
      /\ s \in OnTheWay(w)' <=> /\ spends'[s] # NoCall
                               /\ spends'[s].key[1] = w /\ spends'[s].message # "kept"
  BY <1>1 DEF OnTheWay, Calls, UserOf
<1>5. /\ balances[w] \in Nat /\ staked[w] \in Int
      /\ recovered[w] \in Nat /\ late[w] \in Nat
      /\ VaraOf(OnTheWay(w)) \in Nat /\ GrantedTo(w) \in Nat
  BY CreditTermsTyped
<1>6. GrantedTo(w)' = GrantedTo(w)
  <2>1. grants' = grants
    BY DEF CallStep, BetProgramKeeps, BetProgramRefuses, SpendSucceeds, SpendFails,
           SpendTimesOut
  <2>. QED
    BY <2>1 DEF GrantedTo
<1>7. CASE BetProgramKeeps(s)
  <2>1. /\ balances' = balances /\ late' = late /\ recovered' = recovered
        /\ staked' = [staked EXCEPT ![UserOf(s)] = @ + a]
        /\ spends[s].message = "queued"
    BY <1>7 DEF BetProgramKeeps, lateVars
  <2>2. staked'[w] = staked[w] + mine
    BY <1>1, <1>5, <2>1 DEF LedgerTypeOK
  <2>3. spends'[s] = NoCall \/ spends'[s].message = "kept"
    BY <1>1, <1>7, CallAfter
  <2>4. VaraOf(OnTheWay(w))' = VaraOf(OnTheWay(w)) - mine
    BY <1>1, <1>3, <1>4, <1>5, <2>1, <2>3
  <2>. QED
    BY <1>1, <1>5, <1>6, <2>1, <2>2, <2>4 DEF CreditOf
<1>8. CASE BetProgramRefuses(s) /\ spends[s].waiting
  <2>1. /\ balances' = balances /\ late' = late /\ recovered' = recovered
        /\ staked' = staked /\ spends[s].message = "queued"
    BY <1>8 DEF BetProgramRefuses
  <2>2. /\ spends'[s] # NoCall /\ spends'[s].key = spends[s].key
        /\ spends'[s].amount = a /\ spends'[s].message = "refused"
    BY <1>8, CallAfter, LedgerMarkers
  <2>3. VaraOf(OnTheWay(w))' = VaraOf(OnTheWay(w))
    BY <1>1, <1>3, <1>4, <1>5, <2>1, <2>2 DEF UserOf
  <2>. QED
    BY <1>5, <1>6, <2>1, <2>3 DEF CreditOf
<1>9. CASE BetProgramRefuses(s) /\ ~ spends[s].waiting
  <2>1. /\ balances' = balances /\ late' = late /\ staked' = staked
        /\ recovered' = [recovered EXCEPT ![UserOf(s)] = @ + a]
        /\ spends[s].message = "queued"
    BY <1>9 DEF BetProgramRefuses
  <2>2. recovered'[w] = recovered[w] + mine
    BY <1>1, <1>5, <2>1 DEF LedgerTypeOK
  <2>3. spends'[s] = NoCall
    BY <1>9, CallAfter
  <2>4. VaraOf(OnTheWay(w))' = VaraOf(OnTheWay(w)) - mine
    BY <1>1, <1>3, <1>4, <1>5, <2>1, <2>3
  <2>. QED
    BY <1>1, <1>5, <1>6, <2>1, <2>2, <2>4 DEF CreditOf
<1>10. CASE SpendSucceeds(s)
  <2>1. /\ balances' = balances /\ late' = late /\ recovered' = recovered
        /\ staked' = staked /\ spends[s].message = "kept"
    BY <1>10 DEF SpendSucceeds, lateVars
  <2>2. spends'[s] = NoCall
    BY <1>10, CallAfter
  <2>3. VaraOf(OnTheWay(w))' = VaraOf(OnTheWay(w))
    BY <1>3, <1>4, <1>5, <2>1, <2>2
  <2>. QED
    BY <1>5, <1>6, <2>1, <2>3 DEF CreditOf
<1>11. CASE SpendFails(s)
  <2>1. /\ balances' = [balances EXCEPT ![UserOf(s)] = @ + a]
        /\ late' = late /\ recovered' = recovered
        /\ staked' = staked /\ spends[s].message = "refused"
    BY <1>11 DEF SpendFails, RestoreBalance, lateVars
  <2>2. balances'[w] = balances[w] + mine
    BY <1>1, <1>5, <2>1 DEF LedgerTypeOK
  <2>3. spends'[s] = NoCall
    BY <1>11, CallAfter
  <2>4. VaraOf(OnTheWay(w))' = VaraOf(OnTheWay(w)) - mine
    BY <1>1, <1>3, <1>4, <1>5, <2>1, <2>3
  <2>. QED
    BY <1>1, <1>5, <1>6, <2>1, <2>2, <2>4 DEF CreditOf
<1>12. CASE SpendTimesOut(s)
  <2>1. /\ balances' = [balances EXCEPT ![UserOf(s)] = @ + a]
        /\ late' = [late EXCEPT ![UserOf(s)] = @ + a]
        /\ recovered' = recovered /\ staked' = staked
        /\ spends[s].message \in {"queued", "kept"}
    BY <1>12 DEF SpendTimesOut, RestoreBalance
  <2>2. balances'[w] = balances[w] + mine /\ late'[w] = late[w] + mine
    BY <1>1, <1>5, <2>1 DEF LedgerTypeOK
  <2>3. CASE spends[s].message = "queued"
    <3>1. /\ spends'[s] # NoCall /\ spends'[s].key = spends[s].key
          /\ spends'[s].amount = a /\ spends'[s].message = "queued"
      BY <1>12, <2>3, CallAfter, LedgerMarkers
    <3>2. VaraOf(OnTheWay(w))' = VaraOf(OnTheWay(w))
      BY <1>1, <1>3, <1>4, <1>5, <2>3, <3>1 DEF UserOf
    <3>. QED
      BY <1>1, <1>5, <1>6, <2>1, <2>2, <3>2 DEF CreditOf
  <2>4. CASE spends[s].message = "kept"
    <3>1. spends'[s] = NoCall
      BY <1>12, <2>4, CallAfter
    <3>2. VaraOf(OnTheWay(w))' = VaraOf(OnTheWay(w))
      BY <1>3, <1>4, <1>5, <2>4, <3>1
    <3>. QED
      BY <1>1, <1>5, <1>6, <2>1, <2>2, <3>2 DEF CreditOf
  <2>. QED
    BY <2>1, <2>3, <2>4
<1>. QED
  BY <1>7, <1>8, <1>9, <1>10, <1>11, <1>12 DEF CallStep

----------------------------------------------------------------------------
(* Theorems *)

(* LedgerInv holds in every reachable state. *)
THEOREM LedgerInvariant == Spec => []LedgerInv
<1>1. Init => LedgerInv
  BY InitTypes, InitMarkers, InitBacked DEF LedgerInv
<1>2. LedgerInv /\ [Next]_vars => LedgerInv'
  <2>. SUFFICES ASSUME LedgerInv, [Next]_vars
                PROVE  LedgerInv'
    OBVIOUS
  <2>1. LedgerTypeOK' /\ MarkersMatchCalls'
    BY StepTypes, StepMarkers DEF LedgerInv
  <2>2. LateBooks' /\ LiabilityIsBacked'
    <3>1. CASE UNCHANGED vars
      BY <3>1 DEF LedgerInv, LateBooks, LiabilityIsBacked, Liability, VaraOf, Returning,
                  Strays, Waiting, Calls, vars, spendVars, lateVars, outVars
    <3>. QED
      BY <2>1, <3>1, AdministerBacked, SpendBacked, CallStepBacked DEF Next, CallStep
  <2>. QED
    BY <2>1, <2>2 DEF LedgerInv
<1>. QED
  BY <1>1, <1>2, PTL DEF Spec

(* The ledger's data keep their types. *)
THEOREM LedgerTypes == Spec => []LedgerTypeOK
<1>1. LedgerInv => LedgerTypeOK
  BY DEF LedgerInv
<1>. QED
  BY <1>1, LedgerInvariant, PTL

(* Every suspended spend has its marker, and no marker outlives its call.  *)
THEOREM MarkersFollowCalls == Spec => []MarkersMatchCalls
<1>1. LedgerInv => MarkersMatchCalls
  BY DEF LedgerInv
<1>. QED
  BY <1>1, LedgerInvariant, PTL

(* The users' credit is backed, but for the three leaks named in           *)
(* LiabilityIsBacked.                                                      *)
THEOREM CreditIsBacked == Spec => []LiabilityIsBacked
<1>1. LedgerInv => LiabilityIsBacked
  BY DEF LedgerInv
<1>. QED
  BY <1>1, LedgerInvariant, PTL

(* Every freebet granted is accounted for once, for each user.             *)
THEOREM CreditConserved == Spec => []CreditIsConserved
<1>1. LedgerTypeOK /\ LedgerTypeOK' /\ CreditIsConserved /\ [Next]_vars
        => CreditIsConserved'
  <2>. SUFFICES ASSUME LedgerTypeOK, LedgerTypeOK', CreditIsConserved, [Next]_vars,
                       NEW w \in Users
                PROVE  CreditOf(w)'
    BY DEF CreditIsConserved, CreditOf
  <2>1. CreditOf(w)
    BY DEF CreditIsConserved, CreditOf
  <2>2. CASE UNCHANGED vars
    BY <2>1, <2>2 DEF CreditOf, GrantedTo, VaraOf, OnTheWay, Calls, UserOf, vars,
                      spendVars, lateVars
  <2>. QED
    BY <2>1, <2>2, AdministerCredit, SpendCredit, CallStepCredit DEF Next, CallStep
<1>. QED
  BY <1>1, InitCredit, LedgerTypes, PTL DEF Spec
=============================================================================
