------------------------- MODULE OracleProgramProofs -------------------------
(***************************************************************************)
(* Theorems about the Oracle program, for any number of accounts, feeders, *)
(* matches and results.                                                    *)
(*                                                                         *)
(* OracleInv is inductive.  Its second part, VotesAreSound, says what a    *)
(* list of submissions is: one of each feeder, and true unless the feeder  *)
(* is faulty.  So a false result has at most as many submissions of        *)
(* authorized feeders as there are faulty ones among these, and below the  *)
(* threshold that makes no consensus.                                      *)
(***************************************************************************)
EXTENDS OracleProgram, FiniteSetTheorems, TLAPS

\* One submission of each feeder; those of the others than Faulty say truth.
Sound(subs, truth) ==
    /\ \A i, j \in DOMAIN subs : subs[i].feeder = subs[j].feeder => i = j
    /\ \A i \in DOMAIN subs : subs[i].feeder \notin Faulty => subs[i].result = truth

VotesAreSound ==
    \A m \in MatchIds : match_results[m] # NoEntry =>
        Sound(match_results[m].submissions, Truth[m])

OracleInv == OracleTypeOK /\ VotesAreSound

----------------------------------------------------------------------------
(* Lists of submissions *)

(* Appending the submission of a feeder that is not in the list, and that  *)
(* is true unless the feeder is faulty, keeps the list sound.              *)
LEMMA AppendSound ==
    ASSUME NEW subs \in Seq(Submissions), NEW truth, Sound(subs, truth),
           NEW f \in Feeders, NEW r \in Results,
           f \notin Faulty => r = truth,
           \A i \in DOMAIN subs : subs[i].feeder # f
    PROVE  LET new == Append(subs, [feeder |-> f, result |-> r])
           IN  new \in Seq(Submissions) /\ Sound(new, truth)
<1>. DEFINE s == [feeder |-> f, result |-> r]
            new == Append(subs, s)
<1>1. s \in Submissions /\ s.feeder = f /\ s.result = r
  BY DEF Submissions
<1>2. /\ new \in Seq(Submissions)
      /\ DOMAIN new = 1..(Len(subs) + 1) /\ DOMAIN subs = 1..Len(subs)
      /\ Len(subs) \in Nat
      /\ \A i \in 1..Len(subs) : new[i] = subs[i]
      /\ new[Len(subs) + 1] = s
  BY <1>1
<1>. HIDE DEF s, new
<1>3. \A i \in DOMAIN new : i \in DOMAIN subs \/ i = Len(subs) + 1
  BY <1>2
<1>4. \A i, j \in DOMAIN new : new[i].feeder = new[j].feeder => i = j
  BY <1>1, <1>2, <1>3 DEF Sound
<1>5. \A i \in DOMAIN new : new[i].feeder \notin Faulty => new[i].result = truth
  BY <1>1, <1>2, <1>3 DEF Sound
<1>. QED
  BY <1>2, <1>4, <1>5 DEF Sound, new, s

(* A result that is not true has no more authorized backers than there are *)
(* authorized faulty feeders.                                              *)
LEMMA FalseBacking ==
    ASSUME NEW subs \in Seq(Submissions), NEW truth, Sound(subs, truth),
           NEW active \in SUBSET Feeders, NEW r, r # truth
    PROVE  Backing(subs, active, r) <= Cardinality(active \cap Faulty)
<1>. DEFINE backers == {i \in DOMAIN subs : /\ subs[i].feeder \in active
                                            /\ subs[i].result = r}
            by == [i \in backers |-> subs[i].feeder]
<1>1. \A i \in backers : subs[i].feeder \in active \cap Faulty
  BY DEF Sound
<1>2. by \in [backers -> active \cap Faulty]
  BY <1>1
<1>3. \A i, j \in backers : by[i] = by[j] => i = j
  BY DEF Sound
<1>4. by \in Injection(backers, active \cap Faulty)
  BY <1>2, <1>3 DEF Injection, IsInjective
<1>5. IsFiniteSet(active \cap Faulty)
  BY OracleAssumption, FS_Subset
<1>6. Cardinality(backers) <= Cardinality(active \cap Faulty)
  BY <1>4, <1>5, FS_Injection
<1>. QED
  BY <1>6 DEF Backing

----------------------------------------------------------------------------
(* The inductive invariant *)

(* OracleInv holds of a program just deployed. *)
LEMMA OracleInitInv == Init => OracleInv
<1>. SUFFICES ASSUME Init
              PROVE  OracleInv
  OBVIOUS
<1>. USE OracleAssumption DEF Init
<1>1. IsFiniteSet(admins) /\ Cardinality(authorized_feeders) = 0
  BY FS_Singleton, FS_EmptySet
<1>2. OracleTypeOK
  BY <1>1 DEF OracleTypeOK
<1>3. VotesAreSound
  BY DEF VotesAreSound
<1>. QED
  BY <1>2, <1>3 DEF OracleInv

(* The role handlers keep an admin who is one of the admins. *)
LEMMA RolesInv == OracleInv /\ ManageRoles => OracleInv'
<1>. SUFFICES ASSUME OracleInv, ManageRoles
              PROVE  OracleInv'
  OBVIOUS
<1>. USE DEF OracleInv, OracleTypeOK, feederVars
<1>1. ASSUME NEW caller \in Accounts, AcceptAdmin(caller)
      PROVE  OracleTypeOK' /\ match_results' = match_results
  BY <1>1, FS_AddElement DEF AcceptAdmin
<1>2. ASSUME NEW caller \in Accounts, NEW a \in Accounts, ProposeAdmin(caller, a)
      PROVE  OracleTypeOK' /\ match_results' = match_results
  BY <1>2 DEF ProposeAdmin
<1>3. ASSUME NEW caller \in Accounts, NEW a \in Accounts, AddAdmin(caller, a)
      PROVE  OracleTypeOK' /\ match_results' = match_results
  BY <1>3, FS_AddElement DEF AddAdmin
<1>4. ASSUME NEW caller \in Accounts, NEW a \in Accounts, RemoveAdmin(caller, a)
      PROVE  OracleTypeOK' /\ match_results' = match_results
  BY <1>4, FS_RemoveElement DEF RemoveAdmin
<1>5. ASSUME NEW caller \in Accounts, NEW a \in Accounts,
             AddOperator(caller, a) \/ RemoveOperator(caller, a)
      PROVE  OracleTypeOK' /\ match_results' = match_results
  BY <1>5 DEF AddOperator, RemoveOperator
<1>6. OracleTypeOK' /\ match_results' = match_results
  BY <1>1, <1>2, <1>3, <1>4, <1>5 DEF ManageRoles
<1>. QED
  BY <1>6 DEF VotesAreSound

(* No order of authorizations and revocations passes the limit. *)
LEMMA FeedersInv == OracleInv /\ ManageFeeders => OracleInv'
<1>. SUFFICES ASSUME OracleInv, ManageFeeders
              PROVE  OracleInv'
  OBVIOUS
<1>. USE DEF OracleInv, OracleTypeOK, roleVars
<1>1. IsFiniteSet(authorized_feeders) /\ Cardinality(authorized_feeders) \in Nat
  BY OracleAssumption, FS_Subset, FS_CardinalityType
<1>2. ASSUME NEW caller \in Accounts, NEW f \in Feeders, AuthorizeFeeder(caller, f)
      PROVE  OracleTypeOK' /\ match_results' = match_results
  <2>1. Cardinality(authorized_feeders') = Cardinality(authorized_feeders) + 1
    BY <1>1, <1>2, FS_AddElement DEF AuthorizeFeeder
  <2>2. Cardinality(authorized_feeders') <= MAX_FEEDERS
    BY <1>1, <1>2, <2>1, OracleAssumption DEF AuthorizeFeeder
  <2>. QED
    BY <1>2, <2>2 DEF AuthorizeFeeder
<1>3. ASSUME NEW caller \in Accounts, NEW f \in Feeders, RevokeFeeder(caller, f)
      PROVE  OracleTypeOK' /\ match_results' = match_results
  <2>1. Cardinality(authorized_feeders') <= Cardinality(authorized_feeders)
    BY <1>1, <1>3, FS_Subset DEF RevokeFeeder
  <2>2. Cardinality(authorized_feeders') \in Nat
    BY <1>1, <1>3, FS_Subset, FS_CardinalityType DEF RevokeFeeder
  <2>3. Cardinality(authorized_feeders') <= MAX_FEEDERS
    BY <1>1, <2>1, <2>2, OracleAssumption
  <2>. QED
    BY <1>3, <2>3 DEF RevokeFeeder
<1>4. ASSUME NEW caller \in Accounts, NEW t, SetConsensusThreshold(caller, t)
      PROVE  OracleTypeOK' /\ match_results' = match_results
  BY <1>4 DEF SetConsensusThreshold
<1>5. OracleTypeOK' /\ match_results' = match_results
  BY <1>2, <1>3, <1>4 DEF ManageFeeders
<1>. QED
  BY <1>5 DEF VotesAreSound

(* A changed entry that is typed and sound preserves the invariant. *)
LEMMA NewEntryInv ==
    ASSUME OracleInv, NEW m \in MatchIds, NEW e \in Entries,
           Sound(e.submissions, Truth[m]),
           match_results' = [match_results EXCEPT ![m] = e],
           UNCHANGED <<roleVars, feederVars>>
    PROVE  OracleInv'
<1>1. match_results' \in [MatchIds -> Entries \cup {NoEntry}]
  BY DEF OracleInv, OracleTypeOK
<1>2. OracleTypeOK'
  BY <1>1 DEF OracleInv, OracleTypeOK, roleVars, feederVars
<1>3. \A n \in MatchIds : match_results'[n] = IF n = m THEN e ELSE match_results[n]
  BY DEF OracleInv, OracleTypeOK
<1>4. VotesAreSound'
  BY <1>3 DEF OracleInv, VotesAreSound
<1>. QED
  BY <1>2, <1>4 DEF OracleInv

(* A match just registered or cancelled has no submission to be wrong. *)
LEMMA EmptyEntrySound ==
    EmptyEntry \in Entries /\ \A t : Sound(EmptyEntry.submissions, t)
BY DEF EmptyEntry, Entries, Sound

(* Registering, forcing and cancelling leave sound lists. *)
LEMMA ResultsInv == OracleInv /\ ManageResults => OracleInv'
<1>. SUFFICES ASSUME OracleInv, ManageResults
              PROVE  OracleInv'
  OBVIOUS
<1>1. ASSUME NEW caller \in Accounts, NEW m \in MatchIds, RegisterMatch(caller, m)
      PROVE  OracleInv'
  BY <1>1, EmptyEntrySound, NewEntryInv DEF RegisterMatch
<1>2. ASSUME NEW caller \in Accounts, NEW m \in MatchIds, CancelResult(caller, m)
      PROVE  OracleInv'
  BY <1>2, EmptyEntrySound, NewEntryInv DEF CancelResult
<1>3. ASSUME NEW caller \in Accounts, NEW m \in MatchIds, NEW r \in Results,
             ForceFinalizeResult(caller, m, r)
      PROVE  OracleInv'
  <2>. DEFINE old == IF match_results[m] = NoEntry THEN EmptyEntry
                     ELSE match_results[m]
              e == [old EXCEPT !.final_result = r]
  <2>1. old \in Entries /\ Sound(old.submissions, Truth[m])
    BY EmptyEntrySound DEF OracleInv, OracleTypeOK, VotesAreSound
  <2>. HIDE DEF old
  <2>2. e \in Entries /\ e.submissions = old.submissions
    BY <2>1 DEF Entries
  <2>3. match_results' = [match_results EXCEPT ![m] = e]
    BY <1>3 DEF ForceFinalizeResult, old
  <2>. HIDE DEF e
  <2>. QED
    BY <1>3, <2>1, <2>2, <2>3, NewEntryInv DEF ForceFinalizeResult
<1>. QED
  BY <1>1, <1>2, <1>3 DEF ManageResults

(* What a submission makes of an entry. *)
LEMMA SubmittedEntry ==
    ASSUME OracleInv, NEW f \in Feeders, NEW m \in MatchIds, NEW r \in Results,
           SubmitResult(f, m, r)
    PROVE  \E e \in Entries :
             /\ Sound(e.submissions, Truth[m])
             /\ match_results' = [match_results EXCEPT ![m] = e]
             /\ e.final_result # NoResult =>
                  Backing(e.submissions, authorized_feeders, e.final_result)
                    >= consensus_threshold
<1>. DEFINE subs == Append(match_results[m].submissions,
                           [feeder |-> f, result |-> r])
<1>1. /\ match_results[m].submissions \in Seq(Submissions)
      /\ Sound(match_results[m].submissions, Truth[m])
  BY DEF OracleInv, OracleTypeOK, VotesAreSound, SubmitResult, Entries
<1>2. subs \in Seq(Submissions) /\ Sound(subs, Truth[m])
  BY <1>1, AppendSound DEF SubmitResult
<1>3. PICK i \in DOMAIN subs :
          match_results' = [match_results EXCEPT ![m] =
              [submissions |-> subs,
               final_result |->
                 IF Backing(subs, authorized_feeders, subs[i].result)
                      >= consensus_threshold
                 THEN subs[i].result ELSE NoResult]]
  BY DEF SubmitResult
<1>. HIDE DEF subs
<1>4. subs[i].result \in Results
  <2>1. subs[i] \in Submissions
    BY <1>2
  <2>. QED
    BY <2>1 DEF Submissions
<1>. DEFINE final == IF Backing(subs, authorized_feeders, subs[i].result)
                          >= consensus_threshold
                     THEN subs[i].result ELSE NoResult
            e == [submissions |-> subs, final_result |-> final]
<1>5. final \in Results \cup {NoResult}
  BY <1>4
<1>6. final # NoResult => Backing(subs, authorized_feeders, final) >= consensus_threshold
  OBVIOUS
<1>7. match_results' = [match_results EXCEPT ![m] = e]
  BY <1>3
<1>. HIDE DEF final
<1>8. e \in Entries /\ e.submissions = subs /\ e.final_result = final
  BY <1>2, <1>5 DEF Entries
<1>. QED
  BY <1>2, <1>6, <1>7, <1>8

(* A submission leaves a sound list. *)
LEMMA SubmitInv ==
    ASSUME OracleInv, NEW f \in Feeders, NEW m \in MatchIds, NEW r \in Results,
           SubmitResult(f, m, r)
    PROVE  OracleInv'
<1>1. UNCHANGED <<roleVars, feederVars>>
  BY DEF SubmitResult
<1>. QED
  BY <1>1, SubmittedEntry, NewEntryInv

(* Every handler preserves OracleInv. *)
LEMMA OracleStepInv == OracleInv /\ [Next]_vars => OracleInv'
<1>. SUFFICES ASSUME OracleInv, [Next]_vars
              PROVE  OracleInv'
  OBVIOUS
<1>1. CASE ManageRoles
  BY <1>1, RolesInv
<1>2. CASE ManageFeeders
  BY <1>2, FeedersInv
<1>3. CASE ManageResults
  BY <1>3, ResultsInv
<1>4. ASSUME NEW f \in Feeders, NEW m \in MatchIds, NEW r \in Results,
             SubmitResult(f, m, r)
      PROVE  OracleInv'
  BY <1>4, SubmitInv
<1>5. CASE UNCHANGED vars
  BY <1>5 DEF OracleInv, OracleTypeOK, VotesAreSound, vars, roleVars, feederVars
<1>. QED
  BY <1>1, <1>2, <1>3, <1>4, <1>5 DEF Next

(* The program always is as OracleTypeOK says, with an admin and within    *)
(* the limit of feeders, and its submissions are sound.                    *)
THEOREM OracleInvariant == Spec => [](OracleTypeOK /\ VotesAreSound)
<1>1. Spec => []OracleInv
  BY OracleInitInv, OracleStepInv, PTL DEF Spec
<1>. QED
  BY <1>1, PTL DEF OracleInv

----------------------------------------------------------------------------
(* What a step may do to a result *)

(* Only the four result handlers touch an entry, and each only its own. *)
LEMMA EntryLife ==
    ASSUME OracleInv, [Next]_vars, NEW m \in MatchIds
    PROVE  \/ match_results'[m] = match_results[m]
           \/ match_results[m] = NoEntry
           \/ /\ ~Finalized(m)
              /\ \/ ~Finalized(m)'
                 \/ match_results'[m].submissions = match_results[m].submissions
                 \/ \E f \in Feeders, r \in Results : SubmitResult(f, m, r)
<1>. USE DEF OracleInv, OracleTypeOK
<1>0. \A n, e : n # m => [match_results EXCEPT ![n] = e][m] = match_results[m]
  OBVIOUS
<1>1. CASE ManageRoles
  BY <1>1 DEF ManageRoles, AcceptAdmin, ProposeAdmin, AddAdmin, RemoveAdmin,
              AddOperator, RemoveOperator
<1>2. CASE ManageFeeders
  BY <1>2 DEF ManageFeeders, AuthorizeFeeder, RevokeFeeder, SetConsensusThreshold
<1>3. ASSUME NEW caller \in Accounts, NEW n \in MatchIds,
             RegisterMatch(caller, n) \/ CancelResult(caller, n)
      PROVE  \/ match_results'[m] = match_results[m]
             \/ match_results[m] = NoEntry
             \/ ~Finalized(m) /\ ~Finalized(m)'
  <2>1. CASE n = m
    <3>1. match_results'[m] = EmptyEntry
      BY <1>3, <2>1 DEF RegisterMatch, CancelResult
    <3>2. ~Finalized(m)'
      BY <3>1 DEF Finalized, EmptyEntry
    <3>. QED
      BY <1>3, <2>1, <3>2 DEF RegisterMatch, CancelResult
  <2>2. CASE n # m
    <3>1. match_results' = [match_results EXCEPT ![n] = EmptyEntry]
      BY <1>3 DEF RegisterMatch, CancelResult
    <3>. QED
      BY <1>0, <2>2, <3>1
  <2>. QED
    BY <2>1, <2>2
<1>4. ASSUME NEW caller \in Accounts, NEW n \in MatchIds, NEW r \in Results,
             ForceFinalizeResult(caller, n, r), match_results[m] # NoEntry
      PROVE  \/ match_results'[m] = match_results[m]
             \/ /\ ~Finalized(m)
                /\ match_results'[m].submissions = match_results[m].submissions
  <2>1. CASE n = m
    <3>. DEFINE old == match_results[m]
    <3>1. match_results'[m] = [old EXCEPT !.final_result = r] /\ old \in Entries
      BY <1>4, <2>1 DEF ForceFinalizeResult
    <3>2. match_results'[m].submissions = old.submissions
      BY <3>1 DEF Entries
    <3>. QED
      BY <1>4, <2>1, <3>2 DEF ForceFinalizeResult
  <2>2. CASE n # m
    BY <1>4, <2>2 DEF ForceFinalizeResult
  <2>. QED
    BY <2>1, <2>2
<1>5. CASE ManageResults
  BY <1>3, <1>4, <1>5 DEF ManageResults
<1>6. ASSUME NEW f \in Feeders, NEW n \in MatchIds, NEW r \in Results,
             SubmitResult(f, n, r)
      PROVE  \/ match_results'[m] = match_results[m]
             \/ ~Finalized(m) /\ SubmitResult(f, m, r)
  <2>1. CASE n = m
    BY <1>6, <2>1 DEF SubmitResult
  <2>2. CASE n # m
    <3>1. PICK e : match_results' = [match_results EXCEPT ![n] = e]
      BY <1>6, SubmittedEntry
    <3>. QED
      BY <1>0, <2>2, <3>1
  <2>. QED
    BY <2>1, <2>2
<1>7. CASE UNCHANGED vars
  BY <1>7 DEF vars
<1>. QED
  BY <1>1, <1>2, <1>5, <1>6, <1>7 DEF Next

(* A final result never changes, for any number of feeders and matches. *)
THEOREM ResultsStay == Spec => FinalResultsStay
<1>1. OracleInv /\ [Next]_vars =>
        [\A m \in MatchIds :
            Finalized(m) => match_results'[m] = match_results[m]]_vars
  BY EntryLife DEF Finalized
<1>. QED
  BY <1>1, OracleInvariant, PTL DEF Spec, FinalResultsStay, OracleInv

(* A consensus is true whenever fewer faulty feeders than the threshold    *)
(* are authorized when it is reached.                                      *)
LEMMA AgreedIsTrue ==
    ASSUME OracleInv, [Next]_vars, NEW m \in MatchIds, Agreed(m),
           Cardinality(authorized_feeders \cap Faulty) < consensus_threshold
    PROVE  match_results'[m].final_result = Truth[m]
<1>1. PICK f \in Feeders, r \in Results : SubmitResult(f, m, r)
  BY EntryLife DEF Agreed
<1>2. PICK e \in Entries :
          /\ Sound(e.submissions, Truth[m])
          /\ match_results' = [match_results EXCEPT ![m] = e]
          /\ e.final_result # NoResult =>
               Backing(e.submissions, authorized_feeders, e.final_result)
                 >= consensus_threshold
  BY <1>1, SubmittedEntry
<1>3. match_results'[m] = e
  BY <1>2 DEF OracleInv, OracleTypeOK
<1>4. Backing(e.submissions, authorized_feeders, e.final_result) >= consensus_threshold
  BY <1>2, <1>3 DEF Agreed, Finalized
<1>. SUFFICES ASSUME e.final_result # Truth[m]
              PROVE  FALSE
  BY <1>3
<1>5. authorized_feeders \subseteq Feeders /\ consensus_threshold \in Nat
  BY OracleAssumption DEF OracleInv, OracleTypeOK
<1>6. e.submissions \in Seq(Submissions)
  BY DEF Entries
<1>. DEFINE backing == Backing(e.submissions, authorized_feeders, e.final_result)
            faulty == Cardinality(authorized_feeders \cap Faulty)
<1>7. backing <= faulty
  BY <1>2, <1>5, <1>6, FalseBacking
<1>8. faulty \in Nat
  BY <1>5, OracleAssumption, FS_Subset, FS_CardinalityType
<1>9. backing \in Nat
  <2>1. IsFiniteSet(DOMAIN e.submissions)
    BY <1>6, FS_Interval
  <2>. QED
    BY <2>1, FS_Subset, FS_CardinalityType DEF Backing
<1>. HIDE DEF backing, faulty
<1>. QED
  BY <1>4, <1>5, <1>7, <1>8, <1>9 DEF backing, faulty

THEOREM ConsensusHolds == Spec => ConsensusIsTrue
<1>1. OracleInv /\ [Next]_vars =>
        [\A m \in MatchIds :
            /\ Agreed(m)
            /\ Cardinality(authorized_feeders \cap Faulty) < consensus_threshold
            => match_results'[m].final_result = Truth[m]]_vars
  BY AgreedIsTrue
<1>. QED
  BY <1>1, OracleInvariant, PTL DEF Spec, ConsensusIsTrue, OracleInv
=============================================================================
