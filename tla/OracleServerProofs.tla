------------------------- MODULE OracleServerProofs -------------------------
(***************************************************************************)
(* Proofs about the oracle server between the two programs, for any number *)
(* of matches, fixtures, feeders, restarts and messages: its types, and    *)
(* that the results it brings to BolaoCore are those of the fixtures       *)
(* registered there.                                                       *)
(*                                                                         *)
(* The second rests on an agreement of everything that names a fixture for *)
(* an id (Aligned): what BolaoCore and the Oracle program registered, the  *)
(* mapping in memory, the one in the file and the list being worked off.   *)
(* Then whoever submits a result submits that of the fixture (Truths).     *)
(***************************************************************************)
EXTENDS OracleServer, BolaoMatchesProofs, SequenceTheorems

Maybe(S) == S \cup {NoFixture}

Jobs == [phase : PhaseNames \cup {"none"}, todo : Seq(Fixtures), id : Nat, sent : BOOLEAN]

\* The ids handed out to what is left of a list are ids of matches.
JobFits ==
    job.todo # <<>> =>
        /\ job.phase \in PhaseNames
        /\ job.id > 0 /\ job.id + Len(job.todo) - 1 <= Cardinality(MatchIds)

Files == [mapping : [MatchIds -> Maybe(Fixtures)], kick_offs : [MatchIds -> Nat \cup {NoTime}]]

\* The types by the variables that change together.
ChainTypes ==
    /\ oracle_results \in [MatchIds -> Oracle!Entries \cup {NoEntry}]
    /\ bolao_fixture \in [MatchIds -> Maybe(Fixtures)]
    /\ oracle_fixture \in [MatchIds -> Maybe(Fixtures)]

MapTypes ==
    /\ mapping \in [MatchIds -> Maybe(Fixtures)]
    /\ match_of \in [Fixtures -> MatchIds \cup {0}]
    /\ kick_offs \in [MatchIds -> Nat \cup {NoTime}]
    /\ disk \in Files

JobTypes == job \in Jobs /\ JobFits

BridgeTypes ==
    /\ up \in BOOLEAN /\ bridge \in {"connecting", "on", "off"}
    /\ rebuilding \in {"no", "results", "fixtures"}
    /\ events \subseteq MatchIds
    /\ timers \subseteq Timers
    /\ restarts \in 0..MaxRestarts
    /\ manual \subseteq MatchIds /\ guessed \subseteq MatchIds /\ misnumbered \in BOOLEAN

ServerTypes == ChainTypes /\ MapTypes /\ JobTypes /\ BridgeTypes

\* Every submission and what is final is t.
Truthful(e, t) ==
    /\ \A i \in DOMAIN e.submissions : e.submissions[i].result = t
    /\ e.final_result \in {NoResult, t}

EntriesHaveFixtures ==
    \A m \in MatchIds : oracle_results[m] # NoEntry => oracle_fixture[m] # NoFixture

\* What names a fixture for an id names the one BolaoCore has under that id,
\* and the list being worked off is in step with BolaoCore's counter.
NextIsFree == \A m \in MatchIds : m > next_match_id => bolao_fixture[m] = NoFixture

JobIsAligned ==
    job.todo # <<>> =>
        IF job.sent THEN job.id = next_match_id /\ bolao_fixture[job.id] = Head(job.todo)
        ELSE job.id = next_match_id + 1

Agrees(fixtures) == \A m \in MatchIds : fixtures[m] \in {NoFixture, bolao_fixture[m]}

MapsAgree ==
    /\ Agrees(oracle_fixture) /\ Agrees(mapping) /\ Agrees(disk.mapping)
    /\ \A f \in Fixtures : match_of[f] # 0 => bolao_fixture[match_of[f]] = f

Aligned == ~misnumbered => NextIsFree /\ JobIsAligned /\ MapsAgree

\* A result in BolaoCore and the submissions to the Oracle program.
Claims == {"Proposed", "Finalized"}

EntryIsTrue(m) ==
    oracle_results[m] # NoEntry => Truthful(oracle_results[m], Played[bolao_fixture[m]])

Claimed(m) == m \in Registered /\ Status(m) \in Claims

ResultIsTrue(m) == Claimed(m) => matches[m].result.final = Played[bolao_fixture[m]]

Truths ==
    ~misnumbered =>
        \A m \in MatchIds : m \notin guessed => EntryIsTrue(m) /\ ResultIsTrue(m)

ServerInv ==
    /\ MatchesInv /\ ServerTypes
    /\ EntriesHaveFixtures /\ Aligned /\ Truths

----------------------------------------------------------------------------
(* The server sends BolaoCore only its messages                            *)

LEMMA DeployerIsAdmin == Deployer \in Accounts /\ OracleProgramId \in Oracles
BY AdminAssumption, ServerAssumption

(* A list is registered phase first.                                       *)
LEMMA StartJobKeepsBolao ==
    ASSUME ServerTypes, MatchesInv, NEW phase \in PhaseNames, NEW weight \in Weights, NEW todo,
           StartJob(phase, weight, todo)
    PROVE  [MatchesNext]_allMatchesVars
<1>1. RegisterPhase(Deployer, phase, weight) \/ UNCHANGED allMatchesVars
  BY DEF StartJob
<1>. QED
  BY <1>1, DeployerIsAdmin DEF MatchesNext, MatchesStep, RegisterStep

LEMMA RegisterBothKeepsBolao ==
    ASSUME ServerTypes, MatchesInv, NEW phase \in PhaseNames, NEW f \in Cup,
           RegisterBoth(phase, f)
    PROVE  UNCHANGED allMatchesVars
  BY DEF RegisterBoth, StartJob, RegisterPhase

LEMMA HeadTyped ==
    ASSUME JobTypes, job.todo # <<>>
    PROVE  /\ Head(job.todo) \in Fixtures /\ Tail(job.todo) \in Seq(Fixtures)
           /\ Len(Tail(job.todo)) = Len(job.todo) - 1 /\ Len(job.todo) \in Nat \ {0}
           /\ job.phase \in PhaseNames /\ job.id \in MatchIds
           /\ KickOffOf[Head(job.todo)] \in KickOffs
<1>1. job.todo \in Seq(Fixtures) /\ job.id \in Nat
  BY DEF JobTypes, Jobs
<1>2. /\ Head(job.todo) \in Fixtures /\ Tail(job.todo) \in Seq(Fixtures)
      /\ Len(Tail(job.todo)) = Len(job.todo) - 1 /\ Len(job.todo) \in Nat \ {0}
  BY <1>1
<1>3. job.phase \in PhaseNames /\ job.id > 0 /\ job.id + Len(job.todo) - 1 <= Cardinality(MatchIds)
  BY DEF JobTypes, JobFits
<1>4. Cardinality(MatchIds) \in Nat /\ MatchIds = 1..Cardinality(MatchIds)
  BY ServerAssumption, MatchesAssumption, FS_CardinalityType
<1>5. job.id \in MatchIds
  BY <1>1, <1>2, <1>3, <1>4
<1>. QED
  BY <1>2, <1>3, <1>5, ServerAssumption

LEMMA RegisterJobKeepsBolao ==
    ASSUME ServerTypes, MatchesInv, RegisterJobStep
    PROVE  [MatchesNext]_allMatchesVars
<1>1. ASSUME NEW phase \in PhaseNames, NEW weight \in Weights, SyncTournament(phase, weight)
      PROVE  [MatchesNext]_allMatchesVars
  BY <1>1, StartJobKeepsBolao DEF SyncTournament
<1>2. ASSUME NEW phase \in PhaseNames, NEW f \in Cup, RegisterBoth(phase, f)
      PROVE  [MatchesNext]_allMatchesVars
  BY <1>2, RegisterBothKeepsBolao
<1>3. ASSUME SyncBolao
      PROVE  [MatchesNext]_allMatchesVars
  <2>1. job.todo # <<>>
    BY <1>3 DEF SyncBolao
  <2>2. /\ RegisterMatch(Deployer, job.phase, KickOffOf[Head(job.todo)])
           \/ UNCHANGED allMatchesVars
    BY <1>3 DEF SyncBolao
  <2>3. job.phase \in PhaseNames /\ KickOffOf[Head(job.todo)] \in KickOffs
    BY <2>1, HeadTyped DEF ServerTypes
  <2>. QED
    BY <2>2, <2>3, DeployerIsAdmin DEF MatchesNext, MatchesStep, RegisterStep
<1>4. ASSUME SyncOracle \/ SyncEnd \/ \E m \in MatchIds : RepairMapping(m)
      PROVE  UNCHANGED allMatchesVars
  BY <1>4 DEF SyncOracle, SyncEnd, RepairMapping
<1>. QED
  BY <1>1, <1>2, <1>3, <1>4 DEF RegisterJobStep

LEMMA BridgeKeepsBolao ==
    ASSUME ServerTypes, MatchesInv, BridgeStep
    PROVE  [MatchesNext]_allMatchesVars
<1>1. ASSUME NEW m \in MatchIds, BridgeConsensus(m)
      PROVE  [MatchesNext]_allMatchesVars
  BY <1>1, DeployerIsAdmin DEF BridgeConsensus, MatchesNext, MatchesStep, ResultStep
<1>2. ASSUME NEW slot \in QuerySlots, OracleAnswers(slot)
      PROVE  [MatchesNext]_allMatchesVars
  <2>1. \/ OracleReply(slot, oracle_results[queries[slot].match].final_result)
        \/ OracleReplyFailed(slot)
    BY <1>2 DEF OracleAnswers
  <2>2. ASSUME NEW r, OracleReply(slot, r)
        PROVE  r \in Reports
    BY <2>2 DEF OracleReply, ReportsOn
  <2>. QED
    BY <2>1, <2>2 DEF MatchesNext, MatchesStep, ResultStep
<1>3. ASSUME NEW t \in timers, FireTimer(t)
      PROVE  [MatchesNext]_allMatchesVars
  <2>1. t.match \in MatchIds
    BY DEF ServerTypes, BridgeTypes, Timers
  <2>. QED
    BY <1>3, <2>1 DEF FireTimer, MatchesNext, MatchesStep, ResultStep
<1>4. ASSUME RecoverProposedMatches
      PROVE  UNCHANGED allMatchesVars
  BY <1>4 DEF RecoverProposedMatches
<1>. QED
  BY <1>1, <1>2, <1>3, <1>4 DEF BridgeStep

LEMMA AdminKeepsBolao ==
    ASSUME AdminIntervenes
    PROVE  [MatchesNext]_allMatchesVars
<1>1. ASSUME SetOracleAuthorized(Deployer, OracleProgramId, TRUE), UNCHANGED matchesVars
      PROVE  MatchesNext
  BY <1>1, DeployerIsAdmin DEF MatchesNext, AdminNext, ConfigStep, TrustStep
<1>2. ASSUME NEW m \in MatchIds,
             \/ CancelProposedResult(Deployer, m) \/ CancelMatch(Deployer, m)
             \/ FinalizeResult(m)
             \/ \E slot \in QuerySlots : ProposeFromOracle(m, OracleProgramId, slot)
      PROVE  MatchesNext
  BY <1>2, DeployerIsAdmin DEF MatchesNext, MatchesStep, ResultStep
<1>. QED
  BY <1>1, <1>2 DEF AdminIntervenes

LEMMA ServerKeepsBolao ==
    ASSUME ServerTypes, MatchesInv, [ServerNext]_allVars
    PROVE  [MatchesNext]_allMatchesVars
<1>1. ASSUME FeedStep
      PROVE  UNCHANGED allMatchesVars
  BY <1>1 DEF FeedStep, AutoFeed, FeedMatch, ForceFinalize, OtherFeeder, SyncFinished, Feed, Submit
<1>2. ASSUME ProcessStep
      PROVE  UNCHANGED allMatchesVars
  BY <1>2 DEF ProcessStep, Stop, Boot, Connect, RebuildKickOffs, RebuildMapping
<1>3. ASSUME ChainStep
      PROVE  MatchesNext
  BY <1>3 DEF ChainStep, MatchesNext, AdminNext
<1>4. ASSUME UNCHANGED allVars
      PROVE  UNCHANGED allMatchesVars
  BY <1>4 DEF allVars
<1>. QED
  BY <1>1, <1>2, <1>3, <1>4, RegisterJobKeepsBolao, BridgeKeepsBolao, AdminKeepsBolao
  DEF ServerNext

----------------------------------------------------------------------------
(* What is submitted                                                       *)

(* What the server makes of the sports API's answer is what was played: the*)
(* goals of a shoot-out come off the score, and its winner is theirs.      *)
LEMMA ResolvesToPlayed ==
    ASSUME NEW f \in Fixtures, ResolveOnFieldResult(ScoreNode[f]) # NoResult
    PROVE  ResolveOnFieldResult(ScoreNode[f]) = Played[f] /\ Played[f] \in Reports
<1>. DEFINE node == ScoreNode[f]
            r == Played[f]
<1>1. Tells(node, r) /\ r \in Reports
  BY ApiAssumption, ServerAssumption
<1>2. r \in Predictions /\ r = [score |-> r.score, penalty_winner |-> r.penalty_winner]
      /\ r.score = [home |-> r.score.home, away |-> r.score.away]
      /\ r.score.home \in Nat /\ r.score.away \in Nat
  BY <1>1, MatchesAssumption DEF Predictions, Scores
<1>. HIDE DEF node, r
<1>3. ResolveOnFieldResult(node) # NoResult
  BY DEF node
<1>4. CASE node.duration \in {"REGULAR", "EXTRA_TIME"}
  <2>1. r = [score |-> node.fullTime, penalty_winner |-> "None"]
    BY <1>1, <1>4 DEF Tells
  <2>2. ResolveOnFieldResult(node) = [score |-> node.fullTime, penalty_winner |-> "None"]
    BY <1>4 DEF ResolveOnFieldResult
  <2>. QED
    BY <1>1, <2>1, <2>2 DEF node, r
<1>5. CASE node.duration = "PENALTY_SHOOTOUT"
  <2>. DEFINE home == node.fullTime.home - node.penalties.home
              away == node.fullTime.away - node.penalties.away
              shootOut == [score |-> [home |-> home, away |-> away],
                           penalty_winner |-> IF node.penalties.home > node.penalties.away
                                              THEN "Home" ELSE "Away"]
  <2>1. node.penalties # NoScore /\ ResolveOnFieldResult(node) = shootOut
    BY <1>3, <1>5 DEF ResolveOnFieldResult
  <2>2. /\ node.penalties \in [home : Nat, away : Nat]
        /\ node.fullTime = [home |-> r.score.home + node.penalties.home,
                            away |-> r.score.away + node.penalties.away]
        /\ r.penalty_winner = IF node.penalties.home > node.penalties.away THEN "Home" ELSE "Away"
    BY <1>1, <1>5, <2>1 DEF Tells
  <2>3. home = r.score.home /\ away = r.score.away
    BY <1>2, <2>2
  <2>4. shootOut = r
    BY <1>2, <2>2, <2>3
  <2>. QED
    BY <1>1, <2>1, <2>4 DEF node, r
<1>6. CASE node.duration \notin {"REGULAR", "EXTRA_TIME", "PENALTY_SHOOTOUT"}
  BY <1>3, <1>6 DEF ResolveOnFieldResult
<1>. QED
  BY <1>4, <1>5, <1>6

\* The entry of m gets a result r, and holds nothing else if it did not before.
EntryMoves(m, r) ==
    \E e \in Oracle!Entries :
        /\ oracle_results' = [oracle_results EXCEPT ![m] = e]
        /\ oracle_results[m] = NoEntry \/ Truthful(oracle_results[m], r) => Truthful(e, r)

LEMMA EntryMovesTyped ==
    ASSUME ChainTypes, NEW m \in MatchIds, NEW r, EntryMoves(m, r),
           UNCHANGED <<bolao_fixture, oracle_fixture>>
    PROVE  ChainTypes'
BY DEF EntryMoves, ChainTypes

LEMMA SubmitMoves ==
    ASSUME ChainTypes, NEW m \in MatchIds, NEW feeder \in Feeders, NEW r \in Reports,
           Submit(feeder, m, r)
    PROVE  EntryMoves(m, r) /\ oracle_results[m] # NoEntry
<1>. DEFINE old == oracle_results[m]
            new == Append(old.submissions, [feeder |-> feeder, result |-> r])
<1>1. old # NoEntry /\ old \in Oracle!Entries
  BY DEF Submit, Oracle!SubmitResult, ChainTypes
<1>2. PICK i \in DOMAIN new :
         oracle_results' = [oracle_results EXCEPT ![m] =
            [submissions |-> new,
             final_result |->
               IF Oracle!Backing(new, Feeders, new[i].result) >= CONSENSUS_THRESHOLD
               THEN new[i].result ELSE NoResult]]
  BY DEF Submit, Oracle!SubmitResult, Setup
<1>. DEFINE final == IF Oracle!Backing(new, Feeders, new[i].result) >= CONSENSUS_THRESHOLD
                     THEN new[i].result ELSE NoResult
            e == [submissions |-> new, final_result |-> final]
<1>3. old.submissions \in Seq(Oracle!Submissions)
  BY <1>1 DEF Oracle!Entries
<1>. DEFINE sub == [feeder |-> feeder, result |-> r]
<1>4. sub \in Oracle!Submissions /\ sub.result = r
  BY DEF Oracle!Submissions
<1>. HIDE DEF sub
<1>5. /\ Append(old.submissions, sub) \in Seq(Oracle!Submissions)
      /\ DOMAIN Append(old.submissions, sub) = 1..(Len(old.submissions) + 1)
      /\ DOMAIN old.submissions = 1..Len(old.submissions) /\ Len(old.submissions) \in Nat
      /\ \A j \in 1..Len(old.submissions) :
            Append(old.submissions, sub)[j] = old.submissions[j]
      /\ Append(old.submissions, sub)[Len(old.submissions) + 1] = sub
  BY <1>3, <1>4
<1>6. new = Append(old.submissions, sub)
  BY DEF sub
<1>. HIDE DEF new
<1>7. /\ new \in Seq(Oracle!Submissions)
      /\ \A j \in DOMAIN new :
            new[j] \in Oracle!Submissions /\ (j \in DOMAIN old.submissions \/ new[j].result = r)
      /\ \A j \in DOMAIN new : j \in DOMAIN old.submissions => new[j] = old.submissions[j]
  BY <1>4, <1>5, <1>6
<1>8. final \in {new[i].result, NoResult}
  OBVIOUS
<1>. HIDE DEF final
<1>9. e \in Oracle!Entries
  BY <1>7, <1>8 DEF Oracle!Entries, Oracle!Submissions
<1>10. ASSUME Truthful(old, r)
       PROVE  Truthful(e, r)
  <2>1. \A j \in DOMAIN new : new[j].result = r
    BY <1>7, <1>10 DEF Truthful
  <2>. QED
    BY <1>2, <1>8, <2>1 DEF Truthful
<1>11. oracle_results' = [oracle_results EXCEPT ![m] = e]
  BY <1>2 DEF final
<1>. HIDE DEF e, old
<1>12. old = oracle_results[m]
  BY DEF old
<1>. QED
  BY <1>1, <1>9, <1>10, <1>11, <1>12 DEF EntryMoves

LEMMA ForceMoves ==
    ASSUME ChainTypes, NEW m \in MatchIds, NEW r \in Reports,
           Oracle!ForceFinalizeResult(Deployer, m, r)
    PROVE  EntryMoves(m, r)
<1>. DEFINE entry == IF oracle_results[m] = NoEntry THEN Oracle!EmptyEntry ELSE oracle_results[m]
            e == [entry EXCEPT !.final_result = r]
<1>1. oracle_results' = [oracle_results EXCEPT ![m] = e]
  BY DEF Oracle!ForceFinalizeResult
<1>2. entry \in Oracle!Entries
  BY DEF ChainTypes, Oracle!EmptyEntry, Oracle!Entries
<1>. HIDE DEF entry
<1>3. e \in Oracle!Entries /\ e.submissions = entry.submissions /\ e.final_result = r
  BY <1>2 DEF Oracle!Entries
<1>4. oracle_results[m] = NoEntry \/ Truthful(oracle_results[m], r) => Truthful(e, r)
  BY <1>3 DEF Truthful, entry, Oracle!EmptyEntry
<1>. HIDE DEF e
<1>. QED
  BY <1>1, <1>3, <1>4 DEF EntryMoves

\* What the feeding of a result leaves alone, and what it adds to.
FeedFrame(m) ==
    /\ UNCHANGED <<allMatchesVars, bolao_fixture, oracle_fixture, up, bridge, mapVars, job, rebuilding,
                   timers, restarts, misnumbered>>
    /\ events' \in {events, events \cup {m}} /\ manual' \in {manual, manual \cup {m}}
    /\ guessed' \in {guessed, guessed \cup {m}}

\* r is the result of a fixture that something names for m.
Named(m, r) ==
    \E f \in Fixtures :
        r = Played[f] /\ (mapping[m] = f \/ match_of[f] = m \/ oracle_fixture[m] = f)

FeedMove(m, r) ==
    /\ EntryMoves(m, r) /\ FeedFrame(m)
    /\ oracle_results[m] # NoEntry \/ oracle_fixture[m] # NoFixture
    /\ m \in guessed' \/ Named(m, r)

LEMMA SubmitFrame ==
    ASSUME NEW m, NEW feeder, NEW r, Submit(feeder, m, r),
           guessed' \in {guessed, guessed \cup {m}}
    PROVE  FeedFrame(m)
<1>1. events' \in {events, events \cup {m}} /\ manual' \in {manual, manual \cup {m}}
  BY DEF Submit
<1>. QED
  BY <1>1 DEF Submit, FeedFrame

LEMMA FeedMoves ==
    ASSUME ServerTypes, FeedStep
    PROVE  \E m \in MatchIds, r \in Reports : FeedMove(m, r)
<1>1. ASSUME NEW m \in MatchIds, FeedMatch(m)
      PROVE  \E r \in Reports : FeedMove(m, r)
  <2>. DEFINE f == SportsId(m)
              r == ResolveOnFieldResult(ScoreNode[f])
  <2>1. f \in Fixtures /\ r # NoResult /\ Submit(Gateway, m, r)
        /\ guessed' = IF mapping[m] = NoFixture THEN guessed \cup {m} ELSE guessed
    <3>1. f # NoFixture /\ r # NoResult /\ Submit(Gateway, m, r)
          /\ guessed' = IF mapping[m] = NoFixture THEN guessed \cup {m} ELSE guessed
      BY <1>1 DEF FeedMatch, Feed
    <3>2. f \in Maybe(Fixtures)
      BY ServerAssumption DEF SportsId, ServerTypes, MapTypes, Maybe
    <3>. QED
      BY <3>1, <3>2 DEF Maybe
  <2>2. mapping[m] # NoFixture => f = mapping[m]
    BY DEF SportsId
  <2>. HIDE DEF f
  <2>3. r = Played[f] /\ r \in Reports
    BY <2>1, ResolvesToPlayed
  <2>. HIDE DEF r
  <2>4. EntryMoves(m, r) /\ oracle_results[m] # NoEntry
    BY <2>1, <2>3, SubmitMoves, ServerAssumption DEF ServerTypes
  <2>5. FeedFrame(m)
    BY <2>1, SubmitFrame
  <2>6. m \in guessed' \/ Named(m, r)
    BY <2>1, <2>2, <2>3 DEF Named
  <2>. QED
    BY <2>3, <2>4, <2>5, <2>6 DEF FeedMove
<1>2. ASSUME NEW f \in Cup, SyncFinished(f)
      PROVE  \E m \in MatchIds, r \in Reports : FeedMove(m, r)
  <2>. DEFINE r == ResolveOnFieldResult(ScoreNode[f])
  <2>1. PICK m \in MatchIds : match_of[f] = m /\ r # NoResult /\ Submit(Gateway, m, r)
    BY <1>2 DEF SyncFinished, Feed
  <2>2. f \in Fixtures /\ r = Played[f] /\ r \in Reports
    BY <2>1, ResolvesToPlayed, ServerAssumption
  <2>. HIDE DEF r
  <2>3. EntryMoves(m, r) /\ oracle_results[m] # NoEntry
    BY <2>1, <2>2, SubmitMoves, ServerAssumption DEF ServerTypes
  <2>4. FeedFrame(m)
    BY <1>2, <2>1, SubmitFrame DEF SyncFinished
  <2>5. Named(m, r)
    BY <2>1, <2>2 DEF Named
  <2>. QED
    BY <2>2, <2>3, <2>4, <2>5 DEF FeedMove
<1>3. ASSUME NEW m \in MatchIds, oracle_fixture[m] # NoFixture
      PROVE  /\ oracle_fixture[m] \in Fixtures /\ Played[oracle_fixture[m]] \in Reports
             /\ Named(m, Played[oracle_fixture[m]])
  <2>1. oracle_fixture[m] \in Fixtures
    BY <1>3 DEF ServerTypes, ChainTypes, Maybe
  <2>. QED
    BY <2>1, ServerAssumption DEF Named
<1>4. ASSUME NEW m \in MatchIds, NEW feeder \in Feeders, OtherFeeder(feeder, m)
      PROVE  \E r \in Reports : FeedMove(m, r)
  <2>. DEFINE r == Played[oracle_fixture[m]]
  <2>1. r \in Reports /\ Named(m, r) /\ Submit(feeder, m, r) /\ UNCHANGED guessed
    BY <1>3, <1>4 DEF OtherFeeder
  <2>. HIDE DEF r
  <2>2. EntryMoves(m, r) /\ oracle_results[m] # NoEntry
    BY <2>1, SubmitMoves DEF ServerTypes
  <2>3. FeedFrame(m)
    BY <2>1, SubmitFrame
  <2>. QED
    BY <2>1, <2>2, <2>3 DEF FeedMove
<1>5. ASSUME NEW m \in MatchIds, ForceFinalize(m)
      PROVE  \E r \in Reports : FeedMove(m, r)
  <2>. DEFINE r == Played[oracle_fixture[m]]
  <2>1. /\ oracle_fixture[m] # NoFixture /\ r \in Reports /\ Named(m, r)
        /\ Oracle!ForceFinalizeResult(Deployer, m, r)
    BY <1>3, <1>5 DEF ForceFinalize
  <2>. HIDE DEF r
  <2>2. EntryMoves(m, r)
    BY <2>1, ForceMoves DEF ServerTypes
  <2>3. FeedFrame(m)
    BY <1>5 DEF ForceFinalize, FeedFrame
  <2>. QED
    BY <2>1, <2>2, <2>3 DEF FeedMove
<1>. QED
  BY <1>1, <1>2, <1>4, <1>5 DEF FeedStep, AutoFeed

----------------------------------------------------------------------------
(* Types: registration                                                     *)

LEMMA IdsInterval ==
    /\ Cardinality(MatchIds) \in Nat /\ MatchIds = 1..Cardinality(MatchIds)
    /\ \A m \in MatchIds : m \in Nat \ {0}
BY ServerAssumption, MatchesAssumption, FS_CardinalityType

LEMMA NoMappingTyped ==
    /\ NoMapping \in [MatchIds -> Maybe(Fixtures)]
    /\ NoMatchOf \in [Fixtures -> MatchIds \cup {0}]
    /\ NoKickOffs \in [MatchIds -> Nat \cup {NoTime}]
    /\ Blank \in Files
BY DEF NoMapping, NoMatchOf, NoKickOffs, Blank, Maybe, Files

LEMMA NoJobTyped == NoJob \in Jobs /\ NoJob.todo = <<>>
BY DEF NoJob, Jobs

LEMMA ScheduledTyped == Scheduled \in Seq(Fixtures)
<1>. DEFINE past == {i \in DOMAIN Stage : KickOffOf[Stage[i]] <= now}
            k == Cardinality(past) + 1
<1>1. Stage \in Seq(Fixtures) /\ Len(Stage) \in Nat /\ DOMAIN Stage = 1..Len(Stage)
  BY ServerAssumption
<1>2. IsFiniteSet(past) /\ Cardinality(past) \in Nat
  <2>1. 1 \in Int /\ Len(Stage) \in Int
    BY <1>1
  <2>2. IsFiniteSet(1..Len(Stage))
    BY <2>1, FS_Interval
  <2>3. past \subseteq 1..Len(Stage)
    BY <1>1
  <2>. HIDE DEF past
  <2>. QED
    BY <2>2, <2>3, FS_Subset, FS_CardinalityType
<1>3. k \in Int /\ k > 0
  BY <1>2
<1>. HIDE DEF k
<1>4. \A i \in k..Len(Stage) : Stage[i] \in Fixtures
  BY <1>1, <1>3
<1>5. SubSeq(Stage, k, Len(Stage)) \in Seq(Fixtures)
  BY <1>1, <1>3, <1>4, SubSeqProperties
<1>. QED
  BY <1>5 DEF Scheduled, k

LEMMA StartJobTyped ==
    ASSUME ServerTypes, MatchesInv, NEW phase \in PhaseNames, NEW weight,
           NEW todo \in Seq(Fixtures), StartJob(phase, weight, todo)
    PROVE  ServerTypes'
<1>1. /\ job' = [phase |-> phase, todo |-> todo, id |-> next_match_id + 1, sent |-> FALSE]
      /\ todo # <<>> /\ next_match_id + Len(todo) \in MatchIds
  BY DEF StartJob
<1>2. next_match_id \in Nat /\ Len(todo) \in Nat
  BY DEF MatchesInv, MatchesTypeOK
<1>3. job' \in Jobs
  BY <1>1, <1>2 DEF Jobs
<1>4. JobFits'
  BY <1>1, <1>2, IdsInterval DEF JobFits
<1>5. UNCHANGED <<chainVars, up, bridge, mapVars, rebuilding, events, timers, restarts, historyVars>>
  BY DEF StartJob
<1>. QED
  BY <1>3, <1>4, <1>5
  DEF ServerTypes, ChainTypes, MapTypes, JobTypes, BridgeTypes, chainVars, mapVars, historyVars

LEMMA NextEntryTyped ==
    ASSUME JobTypes, job.todo # <<>>
    PROVE  /\ NextEntry(job) \in Jobs
           /\ job' = NextEntry(job) => JobTypes'
           /\ NextEntry(job).todo = Tail(job.todo) /\ NextEntry(job).id = job.id + 1
           /\ NextEntry(job).sent = FALSE
<1>. DEFINE j == NextEntry(job)
<1>1. /\ Tail(job.todo) \in Seq(Fixtures) /\ Len(Tail(job.todo)) = Len(job.todo) - 1
      /\ Len(job.todo) \in Nat
  BY HeadTyped
<1>2. /\ job \in Jobs /\ job.phase \in PhaseNames /\ job.id > 0 /\ job.id \in Nat
      /\ job.id + Len(job.todo) - 1 <= Cardinality(MatchIds)
  BY DEF JobTypes, JobFits, Jobs
<1>. DEFINE rest == Tail(job.todo)
            next == job.id + 1
<1>0. next \in Nat /\ next > 0 /\ next + Len(rest) - 1 <= Cardinality(MatchIds)
  BY <1>1, <1>2, IdsInterval
<1>. HIDE DEF rest, next
<1>3. /\ j = [job EXCEPT !.todo = rest, !.id = next, !.sent = FALSE]
      /\ rest \in Seq(Fixtures)
  BY <1>1 DEF NextEntry, rest, next
<1>. HIDE DEF j
<1>4. j \in Jobs /\ j.phase = job.phase /\ j.todo = rest /\ j.id = next /\ j.sent = FALSE
  BY <1>0, <1>2, <1>3 DEF Jobs
<1>5. ASSUME job' = j
      PROVE  JobTypes'
  BY <1>0, <1>2, <1>4, <1>5 DEF JobTypes, JobFits
<1>. QED
  BY <1>4, <1>5 DEF j, rest, next

LEMMA SyncBolaoTyped ==
    ASSUME ServerTypes, MatchesInv, SyncBolao
    PROVE  ServerTypes'
<1>. DEFINE f == Head(job.todo)
            k == next_match_id + 1
<1>1. job.todo # <<>>
  BY DEF SyncBolao
<1>2. f \in Fixtures /\ job \in Jobs
  BY <1>1, HeadTyped DEF ServerTypes, JobTypes
<1>3. bolao_fixture' = [bolao_fixture EXCEPT ![k] = f] \/ bolao_fixture' = bolao_fixture
  BY DEF SyncBolao
<1>. HIDE DEF f, k
<1>4. bolao_fixture' \in [MatchIds -> Maybe(Fixtures)]
  BY <1>2, <1>3 DEF ServerTypes, ChainTypes, Maybe
<1>5. ChainTypes'
  BY <1>4 DEF SyncBolao, ServerTypes, ChainTypes
<1>6. job' = [job EXCEPT !.sent = TRUE] \/ job' = NextEntry(job)
  BY DEF SyncBolao
<1>7. ASSUME job' = [job EXCEPT !.sent = TRUE]
      PROVE  JobTypes'
  <2>1. job' \in Jobs /\ job'.todo = job.todo /\ job'.id = job.id /\ job'.phase = job.phase
    BY <1>2, <1>7 DEF Jobs
  <2>. QED
    BY <2>1 DEF ServerTypes, JobTypes, JobFits
<1>8. JobTypes'
  BY <1>1, <1>6, <1>7, NextEntryTyped DEF ServerTypes
<1>9. misnumbered' \in BOOLEAN /\ UNCHANGED <<up, bridge, mapVars, rebuilding, events, timers, restarts,
                                              manual, guessed>>
  BY DEF SyncBolao, ServerTypes, BridgeTypes
<1>. QED
  BY <1>5, <1>8, <1>9 DEF ServerTypes, MapTypes, BridgeTypes, mapVars

LEMMA AddMappingTyped ==
    ASSUME MapTypes, NEW m \in MatchIds, NEW f \in Fixtures, AddMatchMapping(m, f)
    PROVE  /\ mapping' \in [MatchIds -> Maybe(Fixtures)]
           /\ match_of' \in [Fixtures -> MatchIds \cup {0}]
           /\ \A n \in MatchIds : mapping'[n] = IF n = m THEN f ELSE mapping[n]
           /\ \A g \in Fixtures : match_of'[g] = IF g = f THEN m ELSE match_of[g]
BY DEF MapTypes, AddMatchMapping, Maybe

LEMMA SyncOracleTyped ==
    ASSUME ServerTypes, MatchesInv, SyncOracle
    PROVE  ServerTypes'
<1>. DEFINE f == Head(job.todo)
            id == job.id
<1>1. job.todo # <<>> /\ job' = NextEntry(job)
  BY DEF SyncOracle
<1>2. f \in Fixtures /\ id \in MatchIds /\ KickOffOf[f] \in KickOffs
  BY <1>1, HeadTyped DEF ServerTypes
<1>3. \/ /\ oracle_results' = [oracle_results EXCEPT ![id] = Oracle!EmptyEntry]
         /\ oracle_fixture' = [oracle_fixture EXCEPT ![id] = f]
      \/ UNCHANGED <<oracle_results, oracle_fixture>>
  BY DEF SyncOracle, Oracle!RegisterMatch
<1>4. \/ AddMatchMapping(id, f) /\ kick_offs' = [kick_offs EXCEPT ![id] = KickOffOf[f]]
      \/ UNCHANGED <<mapping, match_of, kick_offs>>
  BY DEF SyncOracle
<1>5. UNCHANGED <<bolao_fixture, up, bridge, disk, rebuilding, events, timers, restarts, historyVars>>
  BY DEF SyncOracle
<1>. HIDE DEF f, id
<1>6. Oracle!EmptyEntry \in Oracle!Entries
  BY DEF Oracle!EmptyEntry, Oracle!Entries
<1>7. ChainTypes'
  BY <1>2, <1>3, <1>5, <1>6 DEF ServerTypes, ChainTypes, Maybe
<1>8. KickOffOf[f] \in Nat
  BY <1>2, MatchesAssumption
<1>9. MapTypes'
  <2>1. CASE AddMatchMapping(id, f) /\ kick_offs' = [kick_offs EXCEPT ![id] = KickOffOf[f]]
    <3>1. kick_offs' \in [MatchIds -> Nat \cup {NoTime}]
      BY <1>2, <1>8, <2>1 DEF ServerTypes, MapTypes
    <3>. QED
      BY <1>2, <1>5, <2>1, <3>1, AddMappingTyped DEF ServerTypes, MapTypes
  <2>2. CASE UNCHANGED <<mapping, match_of, kick_offs>>
    BY <1>5, <2>2 DEF ServerTypes, MapTypes
  <2>. QED
    BY <1>4, <2>1, <2>2
<1>10. JobTypes'
  BY <1>1, NextEntryTyped DEF ServerTypes
<1>. QED
  BY <1>5, <1>7, <1>9, <1>10 DEF ServerTypes, BridgeTypes, historyVars

LEMMA SyncEndTyped ==
    ASSUME ServerTypes, SyncEnd
    PROVE  ServerTypes'
<1>1. JobTypes'
  BY NoJobTyped DEF SyncEnd, JobTypes, JobFits
<1>2. disk' = InMemory /\ UNCHANGED <<mapping, match_of, kick_offs>>
  BY DEF SyncEnd
<1>3. InMemory \in Files
  BY DEF InMemory, Files, ServerTypes, MapTypes
<1>4. MapTypes'
  BY <1>2, <1>3 DEF ServerTypes, MapTypes
<1>5. UNCHANGED <<chainVars, up, bridge, rebuilding, events, timers, restarts, historyVars>>
  BY DEF SyncEnd
<1>. QED
  BY <1>1, <1>4, <1>5 DEF ServerTypes, ChainTypes, BridgeTypes, chainVars, historyVars

LEMMA DiskMapped ==
    ASSUME disk \in Files, NEW new \in [MatchIds -> Maybe(Fixtures)]
    PROVE  /\ [disk EXCEPT !.mapping = new] \in Files
           /\ [disk EXCEPT !.mapping = new].mapping = new
BY DEF Files

LEMMA RepairTyped ==
    ASSUME ServerTypes, NEW m \in MatchIds, RepairMapping(m)
    PROVE  ServerTypes'
<1>1. oracle_fixture[m] \in Fixtures
  BY DEF RepairMapping, ServerTypes, ChainTypes, Maybe
<1>2. /\ AddMatchMapping(m, oracle_fixture[m]) /\ disk' = [disk EXCEPT !.mapping = mapping']
      /\ UNCHANGED kick_offs
  BY DEF RepairMapping
<1>3. /\ mapping' \in [MatchIds -> Maybe(Fixtures)]
      /\ match_of' \in [Fixtures -> MatchIds \cup {0}]
  BY <1>1, <1>2, AddMappingTyped DEF ServerTypes
<1>4. disk' \in Files
  BY <1>2, <1>3, DiskMapped DEF ServerTypes, MapTypes
<1>5. MapTypes'
  BY <1>2, <1>3, <1>4 DEF ServerTypes, MapTypes
<1>6. UNCHANGED <<chainVars, up, bridge, job, rebuilding, events, timers, restarts, historyVars>>
  BY DEF RepairMapping
<1>. QED
  BY <1>5, <1>6
  DEF ServerTypes, ChainTypes, JobTypes, JobFits, BridgeTypes, chainVars, historyVars

LEMMA RegisterJobTyped ==
    ASSUME ServerTypes, MatchesInv, RegisterJobStep
    PROVE  ServerTypes'
<1>1. ASSUME NEW phase \in PhaseNames, NEW weight \in Weights, SyncTournament(phase, weight)
      PROVE  ServerTypes'
  BY <1>1, ScheduledTyped, StartJobTyped DEF SyncTournament
<1>2. ASSUME NEW phase \in PhaseNames, NEW f \in Cup, RegisterBoth(phase, f)
      PROVE  ServerTypes'
  <2>1. <<f>> \in Seq(Fixtures) /\ StartJob(phase, phases[phase], <<f>>)
    BY <1>2, ServerAssumption DEF RegisterBoth
  <2>. QED
    BY <2>1, StartJobTyped
<1>. QED
  BY <1>1, <1>2, SyncBolaoTyped, SyncOracleTyped, SyncEndTyped, RepairTyped DEF RegisterJobStep

----------------------------------------------------------------------------
(* Types: feeding, bridge, crash and boot                                  *)

LEMMA FeedTyped ==
    ASSUME ServerTypes, FeedStep
    PROVE  ServerTypes'
<1>1. PICK m \in MatchIds, r \in Reports : FeedMove(m, r)
  BY FeedMoves
<1>2. ChainTypes'
  BY <1>1, EntryMovesTyped DEF FeedMove, FeedFrame, ServerTypes
<1>3. BridgeTypes'
  BY <1>1 DEF FeedMove, FeedFrame, ServerTypes, BridgeTypes
<1>. QED
  BY <1>1, <1>2, <1>3
  DEF FeedMove, FeedFrame, ServerTypes, MapTypes, JobTypes, JobFits, mapVars

LEMMA TimesNat ==
    ASSUME MatchesInv
    PROVE  /\ now \in Nat /\ CHALLENGE_WINDOW_MS \in Nat /\ FINALIZE_BUFFER_MS \in Nat
           /\ \A t \in Nat : Due(t) \in Nat
<1>1. now \in Nat /\ CHALLENGE_WINDOW_MS \in Nat /\ FINALIZE_BUFFER_MS \in Nat
  BY AdminAssumption, MatchesAssumption, ServerAssumption DEF MatchesInv, AdminTypeOK
<1>. QED
  BY <1>1 DEF Due

\* Steps that touch the events, the timers and what is left to administrators.
LEMMA BridgeFrameTyped ==
    ASSUME ServerTypes, UNCHANGED <<chainVars, up, bridge, mapVars, job, rebuilding, restarts, guessed,
                                    misnumbered>>,
           events' \subseteq events, timers' \subseteq Timers, manual' \subseteq MatchIds
    PROVE  ServerTypes'
BY DEF ServerTypes, ChainTypes, MapTypes, JobTypes, JobFits, BridgeTypes, chainVars, mapVars

LEMMA BridgeTyped ==
    ASSUME ServerTypes, MatchesInv, BridgeStep
    PROVE  ServerTypes'
<1>0. timers \subseteq Timers /\ manual \subseteq MatchIds
  BY DEF ServerTypes, BridgeTypes
<1>1. ASSUME NEW m \in MatchIds, BridgeConsensus(m)
      PROVE  ServerTypes'
  <2>. DEFINE t == [match |-> m, due |-> Due(now)]
  <2>1. t \in Timers
    BY TimesNat DEF Timers
  <2>2. timers' \in {timers, timers \cup {t}} /\ manual' \in {manual, manual \cup {m}}
    BY <1>1 DEF BridgeConsensus
  <2>. HIDE DEF t
  <2>3. timers' \subseteq Timers /\ manual' \subseteq MatchIds
    BY <1>0, <2>1, <2>2
  <2>. QED
    BY <1>1, <2>3, BridgeFrameTyped DEF BridgeConsensus
<1>2. ASSUME NEW slot \in QuerySlots, OracleAnswers(slot)
      PROVE  ServerTypes'
  <2>1. queries[slot].match \in MatchIds
    BY <1>2 DEF OracleAnswers, MatchesInv, QueriesRegistered, Registered
  <2>2. manual' \subseteq MatchIds
    BY <1>0, <1>2, <2>1 DEF OracleAnswers
  <2>. QED
    BY <1>0, <1>2, <2>2, BridgeFrameTyped DEF OracleAnswers
<1>3. ASSUME NEW t \in timers, FireTimer(t)
      PROVE  ServerTypes'
  <2>1. timers' \subseteq Timers
    BY <1>0, <1>3 DEF FireTimer
  <2>. QED
    BY <1>0, <1>3, <2>1, BridgeFrameTyped DEF FireTimer, historyVars
<1>4. ASSUME RecoverProposedMatches
      PROVE  ServerTypes'
  <2>1. ASSUME NEW m \in Stuck
        PROVE  RecoveryTimer(m) \in Timers
    <3>1. m \in MatchIds /\ matches[m] \in Matches
      BY <2>1 DEF Stuck, Registered, MatchesInv, MatchesTypeOK
    <3>2. matches[m].result.proposed_at \in Nat
      BY <3>1 DEF Matches, Results
    <3>3. Due(matches[m].result.proposed_at) \in Nat
      BY <3>2, TimesNat
    <3>. QED
      BY <3>1, <3>3 DEF RecoveryTimer, Timers
  <2>2. timers' \subseteq Timers
    BY <1>0, <1>4, <2>1 DEF RecoverProposedMatches
  <2>. QED
    BY <1>0, <1>4, <2>2, BridgeFrameTyped DEF RecoverProposedMatches, historyVars
<1>. QED
  BY <1>1, <1>2, <1>3, <1>4 DEF BridgeStep

(* A fixture found for several matches is taken for the last.              *)
LEMMA LastMatch ==
    ASSUME NEW ms \in SUBSET MatchIds
    PROVE  /\ ms # {} => Max(ms) \in ms
           /\ Max(ms \cup {0}) \in ms \cup {0}
<1>1. Cardinality(MatchIds) \in Nat /\ MatchIds \subseteq 0..Cardinality(MatchIds)
  BY IdsInterval
<1>2. ms \in SUBSET (0..Cardinality(MatchIds)) /\ ms \cup {0} \in SUBSET (0..Cardinality(MatchIds))
  BY <1>1
<1>. QED
  BY <1>1, <1>2, MaxIsIn

LEMMA StopTyped ==
    ASSUME ServerTypes, Stop
    PROVE  ServerTypes'
<1>1. MapTypes'
  BY NoMappingTyped DEF Stop, ServerTypes, MapTypes
<1>2. JobTypes'
  BY NoJobTyped DEF Stop, JobTypes, JobFits
<1>3. BridgeTypes'
  <2>1. restarts' \in 0..MaxRestarts
    BY ServerAssumption DEF Stop, ServerTypes, BridgeTypes
  <2>2. manual' \subseteq MatchIds
    BY DEF Stop, ServerTypes, BridgeTypes
  <2>3. events' = {} /\ timers' = {} /\ up' = FALSE /\ rebuilding' = "no"
        /\ bridge' = "off" /\ UNCHANGED <<guessed, misnumbered>>
    BY DEF Stop
  <2>. QED
    BY <2>1, <2>2, <2>3 DEF ServerTypes, BridgeTypes
<1>. QED
  BY <1>1, <1>2, <1>3 DEF Stop, ServerTypes, ChainTypes, chainVars

LEMMA LoadedTyped ==
    ASSUME NEW f \in Fixtures
    PROVE  /\ LoadedMatchOf[f] \in MatchIds \cup {0}
           /\ LoadedMatchOf[f] # 0 => disk.mapping[LoadedMatchOf[f]] = f
<1>. DEFINE ms == {m \in MatchIds : disk.mapping[m] = f}
<1>1. LoadedMatchOf[f] = Max(ms \cup {0})
  BY DEF LoadedMatchOf
<1>2. Max(ms \cup {0}) \in ms \cup {0}
  BY LastMatch
<1>. QED
  BY <1>1, <1>2

LEMMA BootTyped ==
    ASSUME ServerTypes, Boot
    PROVE  ServerTypes'
<1>1. LoadedMatchOf \in [Fixtures -> MatchIds \cup {0}]
  BY LoadedTyped DEF LoadedMatchOf
<1>2. disk.mapping \in [MatchIds -> Maybe(Fixtures)] /\ disk.kick_offs \in [MatchIds -> Nat \cup {NoTime}]
  BY DEF ServerTypes, MapTypes, Files
<1>3. MapTypes'
  BY <1>1, <1>2 DEF Boot, ServerTypes, MapTypes
<1>4. up' = TRUE /\ bridge' = "connecting"
  BY DEF Boot
<1>. QED
  BY <1>3, <1>4
  DEF Boot, ServerTypes, ChainTypes, JobTypes, JobFits, BridgeTypes, chainVars, historyVars

LEMMA ConnectTyped ==
    ASSUME ServerTypes, Connect
    PROVE  ServerTypes'
<1>1. /\ bridge' \in {"on", "off"}
      /\ rebuilding' \in {"no", "results", rebuilding}
      /\ UNCHANGED <<chainVars, up, mapVars, job, events, timers, restarts, historyVars>>
  BY DEF Connect
<1>. QED
  BY <1>1
  DEF ServerTypes, ChainTypes, MapTypes, JobTypes, JobFits, BridgeTypes, chainVars, mapVars,
      historyVars

LEMMA RebuildKickOffsTyped ==
    ASSUME ServerTypes, RebuildKickOffs
    PROVE  ServerTypes'
<1>. DEFINE new == [m \in MatchIds |-> IF oracle_fixture[m] = NoFixture THEN kick_offs[m]
                                       ELSE KickOffOf[oracle_fixture[m]]]
<1>1. ASSUME NEW f \in Fixtures
      PROVE  KickOffOf[f] \in Nat
  BY <1>1, ServerAssumption, MatchesAssumption
<1>2. new \in [MatchIds -> Nat \cup {NoTime}]
  BY <1>1 DEF ServerTypes, ChainTypes, MapTypes, Maybe
<1>3. \/ kick_offs' = new /\ disk' = [disk EXCEPT !.kick_offs = kick_offs']
      \/ UNCHANGED <<kick_offs, disk>>
  BY DEF RebuildKickOffs
<1>. HIDE DEF new
<1>4. ASSUME NEW k \in [MatchIds -> Nat \cup {NoTime}]
      PROVE  [disk EXCEPT !.kick_offs = k] \in Files
  BY <1>4 DEF ServerTypes, MapTypes, Files
<1>5. kick_offs' \in [MatchIds -> Nat \cup {NoTime}] /\ disk' \in Files
  BY <1>2, <1>3, <1>4 DEF ServerTypes, MapTypes
<1>6. UNCHANGED <<chainVars, up, bridge, mapping, match_of, job, events, timers, restarts, historyVars>>
      /\ rebuilding' \in {"no", "results", "fixtures"}
  BY DEF RebuildKickOffs
<1>. QED
  BY <1>5, <1>6
  DEF ServerTypes, ChainTypes, MapTypes, JobTypes, JobFits, BridgeTypes, chainVars, historyVars

\* What RebuildMapping does with the fixtures found.
Rebuilt(found) ==
    /\ \A m \in MatchIds : found[m] # NoFixture => found[m] = oracle_fixture[m]
    /\ mapping' = [m \in MatchIds |-> IF found[m] # NoFixture THEN found[m] ELSE mapping[m]]
    /\ disk' = disk \/ disk' = [disk EXCEPT !.mapping = mapping']
    /\ \E new \in [Fixtures -> MatchIds \cup {0}] :
          /\ match_of' = new
          /\ \A f \in Fixtures :
                \/ new[f] = match_of[f]
                \/ new[f] \in MatchIds /\ found[new[f]] = f

LEMMA RebuildMappingIs ==
    ASSUME ServerTypes, RebuildMapping
    PROVE  \E found \in [MatchIds -> Maybe(Fixtures)] : Rebuilt(found)
<1>. DEFINE matchesOf(found, f) == {m \in MatchIds : found[m] = f}
            new(found) == [f \in Fixtures |-> IF matchesOf(found, f) # {} THEN Max(matchesOf(found, f))
                                              ELSE match_of[f]]
<1>1. PICK found \in [MatchIds -> Cup \cup {NoFixture}] :
         /\ \A m \in MatchIds : found[m] # NoFixture => Resolves(m, found[m])
         /\ mapping' = [m \in MatchIds |-> IF found[m] # NoFixture THEN found[m] ELSE mapping[m]]
         /\ match_of' = new(found)
         /\ disk' = IF mapping' = NoMapping THEN disk ELSE [disk EXCEPT !.mapping = mapping']
  BY DEF RebuildMapping
<1>2. found \in [MatchIds -> Maybe(Fixtures)]
  BY ServerAssumption DEF Maybe
<1>3. ASSUME NEW f \in Fixtures
      PROVE  /\ new(found)[f] \in MatchIds \cup {0}
             /\ \/ new(found)[f] = match_of[f]
                \/ new(found)[f] \in MatchIds /\ found[new(found)[f]] = f
  <2>1. CASE matchesOf(found, f) = {}
    BY <2>1 DEF ServerTypes, MapTypes
  <2>2. CASE matchesOf(found, f) # {}
    <3>1. new(found)[f] = Max(matchesOf(found, f)) /\ matchesOf(found, f) \in SUBSET MatchIds
      BY <2>2
    <3>2. new(found)[f] \in matchesOf(found, f)
      BY <2>2, <3>1, LastMatch
    <3>. QED
      BY <3>2
  <2>. QED
    BY <2>1, <2>2
<1>4. new(found) \in [Fixtures -> MatchIds \cup {0}]
  BY <1>3
<1>. HIDE DEF new
<1>5. Rebuilt(found)
  BY <1>1, <1>3, <1>4 DEF Rebuilt, Resolves
<1>. QED
  BY <1>2, <1>5

LEMMA RebuildMappingTyped ==
    ASSUME ServerTypes, RebuildMapping
    PROVE  ServerTypes'
<1>1. PICK found \in [MatchIds -> Maybe(Fixtures)] : Rebuilt(found)
  BY RebuildMappingIs
<1>2. mapping' \in [MatchIds -> Maybe(Fixtures)]
  BY <1>1 DEF Rebuilt, ServerTypes, MapTypes
<1>3. disk' \in Files
  BY <1>1, <1>2, DiskMapped DEF Rebuilt, ServerTypes, MapTypes
<1>4. MapTypes'
  BY <1>1, <1>2, <1>3 DEF Rebuilt, RebuildMapping, ServerTypes, MapTypes
<1>5. UNCHANGED <<chainVars, up, bridge, job, events, timers, restarts, historyVars>> /\ rebuilding' = "no"
  BY DEF RebuildMapping
<1>. QED
  BY <1>4, <1>5
  DEF ServerTypes, ChainTypes, JobTypes, JobFits, BridgeTypes, chainVars, historyVars

LEMMA AdminTyped ==
    ASSUME ServerTypes, AdminIntervenes
    PROVE  ServerTypes'
<1>1. manual' \subseteq MatchIds
  BY DEF AdminIntervenes, ServerTypes, BridgeTypes
<1>2. events' \subseteq events /\ timers' \subseteq Timers
  BY DEF AdminIntervenes, ServerTypes, BridgeTypes
<1>3. UNCHANGED <<chainVars, up, bridge, mapVars, job, rebuilding, restarts, guessed, misnumbered>>
  BY DEF AdminIntervenes
<1>. QED
  BY <1>1, <1>2, <1>3, BridgeFrameTyped

LEMMA ServerTypesStep ==
    ASSUME ServerTypes, MatchesInv, [ServerNext]_allVars
    PROVE  ServerTypes'
<1>1. ASSUME UNCHANGED <<chainVars, serverVars>>
      PROVE  ServerTypes'
  BY <1>1
  DEF ServerTypes, ChainTypes, MapTypes, JobTypes, JobFits, BridgeTypes, chainVars, serverVars,
      mapVars, historyVars
<1>2. ASSUME ProcessStep
      PROVE  ServerTypes'
  BY <1>2, StopTyped, BootTyped, ConnectTyped, RebuildKickOffsTyped, RebuildMappingTyped DEF ProcessStep
<1>. QED
  BY <1>1, <1>2, RegisterJobTyped, FeedTyped, BridgeTyped, AdminTyped
  DEF ServerNext, ChainStep, allVars

LEMMA ServerTypesInit == ServerInit => ServerTypes
<1>. SUFFICES ASSUME ServerInit
              PROVE  ServerTypes
  OBVIOUS
<1>1. ChainTypes
  BY NoMappingTyped DEF ServerInit, ChainTypes
<1>2. MapTypes
  BY NoMappingTyped DEF ServerInit, MapTypes
<1>3. JobTypes
  BY NoJobTyped DEF ServerInit, JobTypes, JobFits
<1>4. BridgeTypes
  <2>1. 0 \in 0..MaxRestarts
    BY ServerAssumption
  <2>. QED
    BY <2>1 DEF ServerInit, BridgeTypes
<1>. QED
  BY <1>1, <1>2, <1>3, <1>4 DEF ServerTypes

(* The instance counts as this module does.                                *)
LEMMA SameCounting ==
    \A S : Oracle!Cardinality(S) = Cardinality(S) /\ (Oracle!IsFiniteSet(S) <=> IsFiniteSet(S))
BY DEF Oracle!Cardinality, Cardinality, Oracle!IsFiniteSet, IsFiniteSet

LEMMA TypesAreOK == MatchesInv /\ ServerTypes => ServerTypeOK
<1>. SUFFICES ASSUME MatchesInv, ServerTypes
              PROVE  ServerTypeOK
  OBVIOUS
<1>1. Oracle!OracleTypeOK
  <2>1. IsFiniteSet({Deployer}) /\ Cardinality(Feeders) \in Nat
    BY ServerAssumption, FS_Singleton, FS_CardinalityType
  <2>2. Deployer \in Accounts /\ CONSENSUS_THRESHOLD \in 1..Cardinality(Feeders)
    BY ServerAssumption, AdminAssumption
  <2>3. oracle_results \in [MatchIds -> Oracle!Entries \cup {NoEntry}]
    BY DEF ServerTypes, ChainTypes
  <2>4. /\ Setup.admin = Deployer /\ Setup.admins = {Deployer} /\ Setup.pending = Nobody
        /\ Setup.operators = {} /\ Setup.feeders = Feeders
        /\ Setup.threshold = CONSENSUS_THRESHOLD
    BY DEF Setup
  <2>. HIDE DEF Setup
  <2>5. /\ Setup.admins \subseteq Accounts /\ IsFiniteSet(Setup.admins)
        /\ Setup.admin \in Setup.admins /\ Setup.pending \in Accounts \cup {Nobody}
        /\ Setup.operators \subseteq Accounts /\ Setup.feeders \subseteq Feeders
    BY <2>1, <2>2, <2>4
  <2>6. Cardinality(Setup.feeders) <= Cardinality(Feeders)
    BY <2>1, <2>4
  <2>7. Setup.threshold \in 1..Cardinality(Feeders)
    BY <2>2, <2>4
  <2>. QED
    BY <2>3, <2>5, <2>6, <2>7, SameCounting DEF Oracle!OracleTypeOK
<1>2. disk.mapping \in [MatchIds -> Maybe(Fixtures)] /\ disk.kick_offs \in [MatchIds -> Nat \cup {NoTime}]
  BY DEF ServerTypes, MapTypes, Files
<1>3. job.todo \in Seq(Fixtures) /\ job.id \in Nat /\ job.sent \in BOOLEAN
  BY DEF ServerTypes, JobTypes, Jobs
<1>. QED
  BY <1>1, <1>2, <1>3
  DEF ServerTypeOK, MatchesInv, ServerTypes, ChainTypes, MapTypes, BridgeTypes, Maybe

----------------------------------------------------------------------------
(* Everything that names a fixture for an id agrees                        *)

(* What the Oracle program has an entry for, it has the fixture of.        *)
LEMMA EntriesStep ==
    ASSUME ServerTypes, EntriesHaveFixtures, [ServerNext]_allVars
    PROVE  EntriesHaveFixtures'
<1>1. ASSUME UNCHANGED <<oracle_results, oracle_fixture>>
      PROVE  EntriesHaveFixtures'
  BY <1>1 DEF EntriesHaveFixtures
<1>2. CASE SyncOracle
  <2>. DEFINE f == Head(job.todo)
              id == job.id
  <2>1. f \in Fixtures /\ id \in MatchIds
    BY <1>2, HeadTyped DEF SyncOracle, ServerTypes
  <2>2. \/ /\ oracle_results' = [oracle_results EXCEPT ![id] = Oracle!EmptyEntry]
           /\ oracle_fixture' = [oracle_fixture EXCEPT ![id] = f]
        \/ UNCHANGED <<oracle_results, oracle_fixture>>
    BY <1>2 DEF SyncOracle, Oracle!RegisterMatch
  <2>. HIDE DEF f, id
  <2>. QED
    BY <2>1, <2>2, ServerAssumption DEF EntriesHaveFixtures, ServerTypes, ChainTypes
<1>3. CASE FeedStep
  <2>1. PICK m \in MatchIds, r \in Reports : FeedMove(m, r)
    BY <1>3, FeedMoves
  <2>2. oracle_fixture' = oracle_fixture /\ oracle_fixture[m] # NoFixture
    BY <2>1 DEF FeedMove, FeedFrame, EntriesHaveFixtures
  <2>3. \A n \in MatchIds : n # m => oracle_results'[n] = oracle_results[n]
    BY <2>1 DEF FeedMove, EntryMoves, ServerTypes, ChainTypes
  <2>. QED
    BY <2>2, <2>3 DEF EntriesHaveFixtures
<1>4. CASE RegisterJobStep /\ ~SyncOracle
  BY <1>1, <1>4
  DEF RegisterJobStep, SyncTournament, RegisterBoth, StartJob, SyncBolao, SyncEnd,
      RepairMapping, chainVars
<1>5. CASE BridgeStep \/ ProcessStep \/ AdminIntervenes \/ ChainStep \/ UNCHANGED allVars
  BY <1>1, <1>5
  DEF BridgeStep, BridgeConsensus, OracleAnswers, FireTimer, RecoverProposedMatches,
      ProcessStep, Stop, Boot, Connect, RebuildKickOffs, RebuildMapping, AdminIntervenes, ChainStep,
      allVars, chainVars
<1>. QED
  BY <1>2, <1>3, <1>4, <1>5 DEF ServerNext

LEMMA NextNat ==
    ASSUME MatchesInv
    PROVE  next_match_id \in Nat
BY DEF MatchesInv, MatchesTypeOK

(* Steps that hand out no id and name no fixture.                          *)
LEMMA AlignedFrame ==
    ASSUME Aligned,
           UNCHANGED <<next_match_id, bolao_fixture, oracle_fixture, mapping, match_of, job,
                       misnumbered>>,
           disk'.mapping = disk.mapping
    PROVE  Aligned'
BY DEF Aligned, NextIsFree, JobIsAligned, MapsAgree, Agrees

(* Steps that register nothing, and leave the list alone or drop it.       *)
LEMMA AlignedMaps ==
    ASSUME Aligned, UNCHANGED <<next_match_id, bolao_fixture, misnumbered>>,
           job' = job \/ job' = NoJob,
           ~misnumbered => MapsAgree'
    PROVE  Aligned'
<1>1. JobIsAligned => JobIsAligned'
  BY NoJobTyped DEF JobIsAligned
<1>. QED
  BY <1>1 DEF Aligned, NextIsFree

LEMMA StartJobAligned ==
    ASSUME ServerTypes, MatchesInv, Aligned, NEW phase, NEW weight, NEW todo,
           StartJob(phase, weight, todo)
    PROVE  Aligned'
<1>1. /\ job' = [phase |-> phase, todo |-> todo, id |-> next_match_id + 1, sent |-> FALSE]
      /\ UNCHANGED <<next_match_id, bolao_fixture, oracle_fixture, mapping, match_of, disk,
                     misnumbered>>
  BY DEF StartJob, RegisterPhase, allMatchesVars, matchesVars, boardVars, chainVars, mapVars,
         historyVars
<1>2. job'.todo = todo /\ job'.id = next_match_id + 1 /\ job'.sent = FALSE
  BY <1>1
<1>3. JobIsAligned'
  BY <1>1, <1>2 DEF JobIsAligned
<1>. QED
  BY <1>1, <1>3 DEF Aligned, NextIsFree, MapsAgree, Agrees

(* BolaoCore's next id is free, so whatever names a fixture names none for *)
(* it, and goes on agreeing when the match is registered.                  *)
LEMMA SyncBolaoAligned ==
    ASSUME ServerTypes, MatchesInv, Aligned, SyncBolao
    PROVE  Aligned'
<1>. DEFINE f == Head(job.todo)
            k == next_match_id + 1
<1>1. SUFFICES ASSUME ~misnumbered'
               PROVE  Aligned'
  BY DEF Aligned
<1>2. /\ job.todo # <<>> /\ ~job.sent
      /\ RegisterMatch(Deployer, job.phase, KickOffOf[f])
      /\ bolao_fixture' = [bolao_fixture EXCEPT ![k] = f]
      /\ job' = [job EXCEPT !.sent = TRUE]
      /\ UNCHANGED <<misnumbered, oracle_fixture, mapping, match_of, disk>>
  BY <1>1 DEF SyncBolao, mapVars
<1>3. k \in MatchIds /\ next_match_id' = k /\ next_match_id \in Nat
  BY <1>2, NextNat DEF RegisterMatch
<1>4. f \in Fixtures /\ job \in Jobs
  BY <1>2, HeadTyped DEF ServerTypes, JobTypes
<1>5. NextIsFree /\ JobIsAligned /\ MapsAgree /\ bolao_fixture[k] = NoFixture
  BY <1>1, <1>2, <1>3 DEF Aligned, NextIsFree
<1>6. job'.todo = job.todo /\ job'.id = job.id /\ job'.sent = TRUE
  BY <1>2, <1>4 DEF Jobs
<1>7. job.id = k
  BY <1>2, <1>5 DEF JobIsAligned
<1>8. Head(job'.todo) = f
  BY <1>6
<1>. HIDE DEF f
<1>9. /\ bolao_fixture'[k] = f
      /\ \A m \in MatchIds : m # k => bolao_fixture'[m] = bolao_fixture[m]
  BY <1>2, <1>3 DEF ServerTypes, ChainTypes
<1>10. NextIsFree'
  <2>. SUFFICES ASSUME NEW m \in MatchIds, m > k
                PROVE  bolao_fixture'[m] = NoFixture
    BY <1>3 DEF NextIsFree
  <2>1. m # k /\ m > next_match_id
    BY <1>3, IdsInterval
  <2>. QED
    BY <1>5, <1>9, <2>1 DEF NextIsFree
<1>. HIDE DEF k
<1>11. JobIsAligned'
  BY <1>3, <1>6, <1>7, <1>8, <1>9 DEF JobIsAligned
<1>12. ASSUME NEW fixtures, Agrees(fixtures), NEW m \in MatchIds
       PROVE  fixtures[m] \in {NoFixture, bolao_fixture'[m]}
  BY <1>5, <1>9, <1>12 DEF Agrees
<1>13. Agrees(oracle_fixture)' /\ Agrees(mapping)' /\ Agrees(disk.mapping)'
  BY <1>2, <1>5, <1>12 DEF Agrees, MapsAgree
<1>14. ASSUME NEW g \in Fixtures, match_of[g] # 0
       PROVE  bolao_fixture'[match_of[g]] = g
  <2>1. bolao_fixture[match_of[g]] = g /\ g # NoFixture /\ match_of[g] \in MatchIds
    BY <1>5, <1>14, ServerAssumption DEF MapsAgree, ServerTypes, MapTypes
  <2>. QED
    BY <1>5, <1>9, <2>1
<1>15. MapsAgree'
  BY <1>2, <1>13, <1>14 DEF MapsAgree
<1>. QED
  BY <1>10, <1>11, <1>15 DEF Aligned

LEMMA AddMappingAgrees ==
    ASSUME ServerTypes, NEW m \in MatchIds, NEW f \in Fixtures, AddMatchMapping(m, f),
           Agrees(mapping), bolao_fixture[m] = f, UNCHANGED bolao_fixture,
           \A g \in Fixtures : match_of[g] # 0 => bolao_fixture[match_of[g]] = g
    PROVE  /\ Agrees(mapping)'
           /\ \A g \in Fixtures : match_of'[g] # 0 => bolao_fixture[match_of'[g]] = g
<1>1. /\ \A n \in MatchIds : mapping'[n] = IF n = m THEN f ELSE mapping[n]
      /\ \A g \in Fixtures : match_of'[g] = IF g = f THEN m ELSE match_of[g]
  BY AddMappingTyped DEF ServerTypes
<1>. QED
  BY <1>1 DEF Agrees

LEMMA SyncOracleAligned ==
    ASSUME ServerTypes, MatchesInv, Aligned, SyncOracle
    PROVE  Aligned'
<1>. DEFINE f == Head(job.todo)
            id == job.id
<1>1. SUFFICES ASSUME ~misnumbered
               PROVE  Aligned'
  BY DEF Aligned, SyncOracle, historyVars
<1>2. /\ job.todo # <<>> /\ job.sent /\ job' = NextEntry(job)
      /\ UNCHANGED <<next_match_id, bolao_fixture, misnumbered, disk>>
      /\ oracle_fixture' = [oracle_fixture EXCEPT ![id] = f] \/ UNCHANGED oracle_fixture
      /\ AddMatchMapping(id, f) \/ UNCHANGED <<mapping, match_of>>
  BY DEF SyncOracle, historyVars, allMatchesVars, matchesVars, boardVars
<1>3. f \in Fixtures /\ id \in MatchIds
  BY <1>2, HeadTyped DEF ServerTypes
<1>4. NextIsFree /\ MapsAgree /\ id = next_match_id /\ bolao_fixture[id] = f
  BY <1>1, <1>2 DEF Aligned, JobIsAligned
<1>5. job'.todo = Tail(job.todo) /\ job'.id = next_match_id + 1 /\ job'.sent = FALSE
  BY <1>2, <1>4, NextEntryTyped DEF ServerTypes
<1>6. JobIsAligned'
  BY <1>2, <1>5 DEF JobIsAligned
<1>. HIDE DEF f, id
<1>7. Agrees(oracle_fixture)'
  BY <1>2, <1>3, <1>4 DEF MapsAgree, Agrees, ServerTypes, ChainTypes
<1>8. /\ Agrees(mapping)'
      /\ \A g \in Fixtures : match_of'[g] # 0 => bolao_fixture[match_of'[g]] = g
  BY <1>2, <1>3, <1>4, AddMappingAgrees DEF MapsAgree, Agrees
<1>9. MapsAgree'
  BY <1>2, <1>4, <1>7, <1>8 DEF MapsAgree, Agrees
<1>. QED
  BY <1>2, <1>4, <1>6, <1>9 DEF Aligned, NextIsFree

LEMMA RepairAligned ==
    ASSUME ServerTypes, Aligned, NEW m \in MatchIds, RepairMapping(m)
    PROVE  Aligned'
<1>. DEFINE f == oracle_fixture[m]
<1>1. /\ UNCHANGED <<next_match_id, bolao_fixture, oracle_fixture, misnumbered, job>>
      /\ f # NoFixture /\ AddMatchMapping(m, f)
      /\ disk' = [disk EXCEPT !.mapping = mapping']
  BY DEF RepairMapping, historyVars, chainVars, allMatchesVars, matchesVars, boardVars
<1>2. f \in Fixtures
  BY <1>1 DEF ServerTypes, ChainTypes, Maybe
<1>. HIDE DEF f
<1>3. mapping' \in [MatchIds -> Maybe(Fixtures)]
  BY <1>1, <1>2, AddMappingTyped DEF ServerTypes
<1>4. disk'.mapping = mapping'
  BY <1>1, <1>3, DiskMapped DEF ServerTypes, MapTypes
<1>5. ASSUME ~misnumbered
      PROVE  MapsAgree'
  <2>1. MapsAgree
    BY <1>5 DEF Aligned
  <2>2. bolao_fixture[m] = f
    BY <1>1, <2>1 DEF MapsAgree, Agrees, f
  <2>3. /\ Agrees(mapping)'
        /\ \A g \in Fixtures : match_of'[g] # 0 => bolao_fixture[match_of'[g]] = g
    BY <1>1, <1>2, <2>1, <2>2, AddMappingAgrees DEF MapsAgree
  <2>. QED
    BY <1>1, <1>4, <2>1, <2>3 DEF MapsAgree, Agrees
<1>. QED
  BY <1>1, <1>5, AlignedMaps

LEMMA RegisterJobAligned ==
    ASSUME ServerTypes, MatchesInv, Aligned, RegisterJobStep
    PROVE  Aligned'
<1>1. ASSUME NEW phase, NEW weight, NEW todo, StartJob(phase, weight, todo)
      PROVE  Aligned'
  BY <1>1, StartJobAligned
<1>2. ASSUME SyncEnd
      PROVE  Aligned'
  <2>1. /\ UNCHANGED <<next_match_id, bolao_fixture, oracle_fixture, mapping, match_of,
                       misnumbered>>
        /\ job' = NoJob /\ disk' = InMemory
    BY <1>2 DEF SyncEnd, historyVars, chainVars, allMatchesVars, matchesVars, boardVars
  <2>2. disk'.mapping = mapping
    BY <2>1 DEF InMemory
  <2>3. MapsAgree => MapsAgree'
    BY <2>1, <2>2 DEF MapsAgree, Agrees
  <2>. QED
    BY <2>1, <2>3, AlignedMaps DEF Aligned
<1>. QED
  BY <1>1, <1>2, SyncBolaoAligned, SyncOracleAligned, RepairAligned
  DEF RegisterJobStep, SyncTournament, RegisterBoth

(* A crash forgets, a boot remembers what the file holds, and what is      *)
(* rebuilt is read off the Oracle program: none of it contradicts.         *)
LEMMA ProcessAligned ==
    ASSUME ServerTypes, Aligned, ProcessStep
    PROVE  Aligned'
<1>1. UNCHANGED <<next_match_id, bolao_fixture, oracle_fixture, misnumbered>>
  BY DEF ProcessStep, Stop, Boot, Connect, RebuildKickOffs, RebuildMapping, historyVars, chainVars,
         allMatchesVars, matchesVars, boardVars
<1>2. job' = job \/ job' = NoJob
  BY DEF ProcessStep, Stop, Boot, Connect, RebuildKickOffs, RebuildMapping
<1>3. ASSUME MapsAgree, Stop
      PROVE  MapsAgree'
  <2>1. mapping' = NoMapping /\ match_of' = NoMatchOf /\ disk' \in {disk, Blank}
    BY <1>3 DEF Stop
  <2>2. disk'.mapping = disk.mapping \/ disk'.mapping = NoMapping
    BY <2>1 DEF Blank
  <2>. QED
    BY <1>1, <1>3, <2>1, <2>2 DEF MapsAgree, Agrees, NoMapping, NoMatchOf
<1>4. ASSUME MapsAgree, Boot
      PROVE  MapsAgree'
  <2>1. mapping' = disk.mapping /\ match_of' = LoadedMatchOf /\ disk' = disk
    BY <1>4 DEF Boot
  <2>2. ASSUME NEW f \in Fixtures, LoadedMatchOf[f] # 0
        PROVE  bolao_fixture[LoadedMatchOf[f]] = f
    <3>1. LoadedMatchOf[f] \in MatchIds /\ disk.mapping[LoadedMatchOf[f]] = f
      BY <2>2, LoadedTyped
    <3>. QED
      BY <1>4, <3>1, ServerAssumption DEF MapsAgree, Agrees
  <2>. QED
    BY <1>1, <1>4, <2>1, <2>2 DEF MapsAgree, Agrees
<1>5. ASSUME MapsAgree, RebuildKickOffs
      PROVE  MapsAgree'
  <2>1. disk' = disk \/ \E k : disk' = [disk EXCEPT !.kick_offs = k]
    BY <1>5 DEF RebuildKickOffs
  <2>2. disk'.mapping = disk.mapping
    BY <2>1 DEF ServerTypes, MapTypes, Files
  <2>. QED
    BY <1>1, <1>5, <2>2 DEF RebuildKickOffs, MapsAgree, Agrees
<1>6. ASSUME MapsAgree, RebuildMapping
      PROVE  MapsAgree'
  <2>1. PICK found \in [MatchIds -> Maybe(Fixtures)] : Rebuilt(found)
    BY <1>6, RebuildMappingIs
  <2>2. \A m \in MatchIds : found[m] \in {NoFixture, bolao_fixture[m]}
    BY <1>6, <2>1 DEF Rebuilt, MapsAgree, Agrees
  <2>3. Agrees(mapping)' /\ mapping' \in [MatchIds -> Maybe(Fixtures)]
    BY <1>1, <1>6, <2>1, <2>2 DEF Rebuilt, MapsAgree, Agrees, ServerTypes, MapTypes
  <2>4. disk'.mapping = disk.mapping \/ disk'.mapping = mapping'
    BY <2>1, <2>3, DiskMapped DEF Rebuilt, ServerTypes, MapTypes
  <2>5. ASSUME NEW f \in Fixtures, match_of'[f] # 0
        PROVE  bolao_fixture[match_of'[f]] = f
    <3>1. \/ match_of'[f] = match_of[f]
          \/ match_of'[f] \in MatchIds /\ found[match_of'[f]] = f
      BY <2>1 DEF Rebuilt
    <3>. QED
      BY <1>6, <2>2, <2>5, <3>1, ServerAssumption DEF MapsAgree
  <2>. QED
    BY <1>1, <1>6, <2>3, <2>4, <2>5 DEF MapsAgree, Agrees
<1>7. ASSUME MapsAgree, Connect
      PROVE  MapsAgree'
  BY <1>1, <1>7 DEF Connect, mapVars, MapsAgree, Agrees
<1>8. ~misnumbered => MapsAgree'
  BY <1>3, <1>4, <1>5, <1>6, <1>7 DEF ProcessStep, Aligned
<1>. QED
  BY <1>1, <1>2, <1>8, AlignedMaps

LEMMA AlignedStep ==
    ASSUME ServerTypes, MatchesInv, Aligned, [ServerNext]_allVars
    PROVE  Aligned'
<1>1. CASE FeedStep
  <2>1. PICK m \in MatchIds, r \in Reports : FeedMove(m, r)
    BY <1>1, FeedMoves
  <2>. QED
    BY <2>1, AlignedFrame
    DEF FeedMove, FeedFrame, allMatchesVars, matchesVars, boardVars, mapVars
<1>2. CASE BridgeStep
  BY <1>2, AlignedFrame
  DEF BridgeStep, BridgeConsensus, OracleAnswers, FireTimer, RecoverProposedMatches,
      ProposeFromOracle, OracleReply, OracleReplyFailed, FinalizeResult, allMatchesVars,
      matchesVars, boardVars, mapVars, chainVars, historyVars
<1>3. CASE AdminIntervenes
  BY <1>3, AlignedFrame
  DEF AdminIntervenes, ProposeFromOracle, FinalizeResult, CancelProposedResult, CancelMatch,
      matchesVars, boardVars, mapVars, chainVars
<1>4. CASE ChainStep \/ UNCHANGED allVars
  BY <1>4, AlignedFrame
  DEF ChainStep, allVars, allMatchesVars, matchesVars, boardVars, mapVars, chainVars,
      serverVars, historyVars
<1>. QED
  BY <1>1, <1>2, <1>3, <1>4, RegisterJobAligned, ProcessAligned DEF ServerNext

----------------------------------------------------------------------------
(* Results are those of the fixtures                                       *)

(* Only the Oracle program's answer proposes a result.                     *)
LEMMA NoOtherProposal ==
    ASSUME ServerTypes, MatchesInv, [ServerNext]_allVars,
           \A slot \in QuerySlots : ~OracleAnswers(slot),
           NEW m \in Registered, Status(m) = "Unresolved"
    PROVE  matches'[m].result.status # "Proposed"
<1>0. m \in MatchIds /\ matches \in [MatchIds -> Matches \cup {NoMatch}]
  BY DEF Registered, MatchesInv, MatchesTypeOK
<1>1. ASSUME matches'[m] = matches[m]
      PROVE  matches'[m].result.status # "Proposed"
  BY <1>1 DEF Status
<1>2. ASSUME NEW n, FinalizeResult(n) \/ CancelProposedResult(Deployer, n)
      PROVE  matches'[m].result.status # "Proposed"
  <2>1. n # m
    BY <1>2 DEF FinalizeResult, CancelProposedResult
  <2>2. matches'[m] = matches[m]
    BY <1>0, <1>2, <2>1 DEF FinalizeResult, CancelProposedResult
  <2>. QED
    BY <1>1, <2>2
<1>3. ASSUME NEW n \in MatchIds, CancelMatch(Deployer, n)
      PROVE  matches'[m].result.status # "Proposed"
  <2>1. CASE n = m
    BY <1>3, <2>1, VoidMoves DEF CancelMatch
  <2>2. CASE n # m
    BY <1>0, <1>1, <1>3, <2>2 DEF CancelMatch, VoidMatch
  <2>. QED
    BY <2>1, <2>2
<1>4. CASE SyncBolao
  <2>1. CASE UNCHANGED allMatchesVars
    BY <1>1, <2>1 DEF allMatchesVars, matchesVars
  <2>2. CASE RegisterMatch(Deployer, job.phase, KickOffOf[Head(job.todo)])
    BY <1>0, <1>1, <2>2 DEF RegisterMatch, NewMatch, Unresolved
  <2>. QED
    BY <1>4, <2>1, <2>2 DEF SyncBolao
<1>5. CASE RegisterJobStep /\ ~SyncBolao
  BY <1>1, <1>5
  DEF RegisterJobStep, SyncTournament, RegisterBoth, StartJob, RegisterPhase, SyncOracle,
      SyncEnd, RepairMapping, allMatchesVars, matchesVars
<1>6. CASE FeedStep
  <2>1. PICK n \in MatchIds, r \in Reports : FeedMove(n, r)
    BY <1>6, FeedMoves
  <2>. QED
    BY <1>1, <2>1 DEF FeedMove, FeedFrame, allMatchesVars, matchesVars
<1>7. CASE BridgeStep
  BY <1>1, <1>2, <1>7
  DEF BridgeStep, BridgeConsensus, FireTimer, RecoverProposedMatches, ProposeFromOracle,
      allMatchesVars, matchesVars
<1>8. CASE AdminIntervenes
  BY <1>1, <1>2, <1>3, <1>8 DEF AdminIntervenes, ProposeFromOracle, matchesVars
<1>9. CASE ProcessStep \/ ChainStep \/ UNCHANGED allVars
  BY <1>1, <1>9
  DEF ProcessStep, Stop, Boot, Connect, RebuildKickOffs, RebuildMapping, ChainStep, allVars,
      allMatchesVars, matchesVars
<1>. QED
  BY <1>4, <1>5, <1>6, <1>7, <1>8, <1>9 DEF ServerNext

(* A result that is claimed after another step was claimed before it.      *)
LEMMA ClaimsStay ==
    ASSUME ServerTypes, MatchesInv, [ServerNext]_allVars,
           \A slot \in QuerySlots : ~OracleAnswers(slot),
           NEW m \in MatchIds, Claimed(m)'
    PROVE  Claimed(m) /\ matches'[m].result.final = matches[m].result.final
<1>1. [MatchesNext]_allMatchesVars /\ m \in Registered' /\ matches'[m].result.status \in Claims
  BY ServerKeepsBolao DEF Claimed, Status
<1>2. m \in Registered
  BY <1>1, NewMatchUnresolved DEF Unresolved, Claims
<1>3. ResultBecomes(m, matches'[m].result)
  BY <1>1, <1>2, StepMoves, MovesOfResults
<1>4. \/ matches'[m].result = matches[m].result
      \/ Status(m) = "Proposed" /\ matches'[m].result = Finalized(matches[m].result.final)
  <2>1. CASE Status(m) = "Unresolved" /\ \E r \in Reports : matches'[m].result = Proposed(r, now)
    <3>1. matches'[m].result.status = "Proposed"
      BY <2>1 DEF Proposed
    <3>. QED
      BY <1>2, <2>1, <3>1, NoOtherProposal
  <2>2. CASE matches'[m].result \in {Unresolved, Cancelled}
    <3>1. matches'[m].result.status \in {"Unresolved", "Cancelled"}
      BY <2>2 DEF Unresolved, Cancelled
    <3>. QED
      BY <1>1, <3>1 DEF Claims
  <2>. QED
    BY <1>3, <2>1, <2>2 DEF ResultBecomes
<1>. QED
  BY <1>1, <1>2, <1>4 DEF Claimed, Claims, Status, Finalized

(* What another match's fixture and result keep when one is registered.    *)
LEMMA FixturesStay ==
    ASSUME ServerTypes, MatchesInv, Aligned, ~misnumbered', [ServerNext]_allVars,
           NEW m \in MatchIds, bolao_fixture'[m] # bolao_fixture[m]
    PROVE  SyncBolao /\ bolao_fixture[m] = NoFixture /\ m = next_match_id + 1
<1>1. SyncBolao
  <2>1. bolao_fixture' # bolao_fixture
    OBVIOUS
  <2>2. ~FeedStep
    BY <2>1, FeedMoves DEF FeedMove, FeedFrame
  <2>. QED
    BY <2>1, <2>2
    DEF ServerNext, RegisterJobStep, SyncTournament, RegisterBoth, StartJob, SyncOracle,
        SyncEnd, RepairMapping, BridgeStep, BridgeConsensus, OracleAnswers, FireTimer,
        RecoverProposedMatches, ProcessStep, Stop, Boot, Connect, RebuildKickOffs, RebuildMapping,
        AdminIntervenes, ChainStep, allVars, chainVars
<1>2. \E f : bolao_fixture' = [bolao_fixture EXCEPT ![next_match_id + 1] = f]
  BY <1>1 DEF SyncBolao
<1>3. m = next_match_id + 1
  BY <1>2 DEF ServerTypes, ChainTypes
<1>4. ~misnumbered /\ next_match_id \in Nat
  BY <1>1, NextNat DEF SyncBolao
<1>. QED
  BY <1>1, <1>3, <1>4 DEF Aligned, NextIsFree

(* An entry and what was said of it before.                                *)
LEMMA EntryStep ==
    ASSUME ServerInv, ~misnumbered, ~misnumbered', [ServerNext]_allVars,
           NEW m \in MatchIds, m \notin guessed', guessed \subseteq guessed',
           bolao_fixture'[m] = bolao_fixture[m]
    PROVE  EntryIsTrue(m)'
<1>1. EntryIsTrue(m) /\ MapsAgree /\ JobIsAligned
  BY DEF ServerInv, Aligned, Truths
<1>2. ASSUME oracle_results'[m] = oracle_results[m]
      PROVE  EntryIsTrue(m)'
  BY <1>1, <1>2 DEF EntryIsTrue
<1>3. CASE FeedStep
  <2>1. PICK n \in MatchIds, r \in Reports : FeedMove(n, r)
    BY <1>3, FeedMoves DEF ServerInv
  <2>2. PICK e \in Oracle!Entries :
           /\ oracle_results' = [oracle_results EXCEPT ![n] = e]
           /\ oracle_results[n] = NoEntry \/ Truthful(oracle_results[n], r) => Truthful(e, r)
    BY <2>1 DEF FeedMove, EntryMoves
  <2>3. CASE n # m
    BY <1>2, <2>2, <2>3 DEF ServerInv, ServerTypes, ChainTypes
  <2>4. CASE n = m
    <3>1. PICK f \in Fixtures :
             r = Played[f] /\ (mapping[m] = f \/ match_of[f] = m \/ oracle_fixture[m] = f)
      BY <2>1, <2>4 DEF FeedMove, Named
    <3>2. m # 0 /\ f # NoFixture
      BY IdsInterval, ServerAssumption
    <3>3. bolao_fixture[m] = f
      BY <1>1, <3>1, <3>2 DEF MapsAgree, Agrees
    <3>4. Truthful(e, r)
      BY <1>1, <2>2, <2>4, <3>1, <3>3 DEF EntryIsTrue
    <3>5. oracle_results'[m] = e
      BY <2>2, <2>4 DEF ServerInv, ServerTypes, ChainTypes
    <3>. QED
      BY <3>1, <3>3, <3>4, <3>5 DEF EntryIsTrue
  <2>. QED
    BY <2>3, <2>4
<1>4. CASE SyncOracle
  <2>1. oracle_results' = [oracle_results EXCEPT ![job.id] = Oracle!EmptyEntry]
        \/ UNCHANGED oracle_results
    BY <1>4 DEF SyncOracle, Oracle!RegisterMatch
  <2>2. CASE oracle_results'[m] = Oracle!EmptyEntry
    BY <2>2 DEF EntryIsTrue, Truthful, Oracle!EmptyEntry
  <2>3. oracle_results'[m] = Oracle!EmptyEntry \/ oracle_results'[m] = oracle_results[m]
    BY <2>1 DEF ServerInv, ServerTypes, ChainTypes
  <2>. QED
    BY <1>2, <2>2, <2>3
<1>5. CASE ~FeedStep /\ ~SyncOracle
  <2>1. oracle_results' = oracle_results
    BY <1>5
    DEF ServerNext, RegisterJobStep, SyncTournament, RegisterBoth, StartJob, SyncBolao,
        SyncEnd, RepairMapping, BridgeStep, BridgeConsensus, OracleAnswers, FireTimer,
        RecoverProposedMatches, ProcessStep, Stop, Boot, Connect, RebuildKickOffs, RebuildMapping,
        AdminIntervenes, ChainStep, allVars, chainVars
  <2>. QED
    BY <1>2, <2>1
<1>. QED
  BY <1>3, <1>4, <1>5

(* What the Oracle program answers is what was said of the match.          *)
LEMMA AnswerIsTrue ==
    ASSUME ServerInv, ~misnumbered, NEW slot \in QuerySlots, OracleAnswers(slot),
           NEW m \in MatchIds, m \notin guessed, Claimed(m)'
    PROVE  matches'[m].result.final = Played[bolao_fixture[m]]
<1>. DEFINE n == queries[slot].match
            r == oracle_results[n].final_result
<1>1. EntryIsTrue(m) /\ ResultIsTrue(m)
  BY DEF ServerInv, Truths
<1>2. matches \in [MatchIds -> Matches \cup {NoMatch}]
  BY DEF ServerInv, MatchesInv, MatchesTypeOK
<1>3. ASSUME matches'[m] = matches[m]
      PROVE  matches'[m].result.final = Played[bolao_fixture[m]]
  BY <1>1, <1>3 DEF ResultIsTrue, Claimed, Registered, Status
<1>4. CASE OracleReplyFailed(slot)
  BY <1>3, <1>4 DEF OracleReplyFailed
<1>5. CASE Oracle!Finalized(n) /\ OracleReply(slot, r)
  <2>1. matches' = [matches EXCEPT ![n].result = Proposed(r, now)]
    BY <1>5 DEF OracleReply
  <2>2. CASE n # m
    BY <1>2, <1>3, <2>1, <2>2
  <2>3. CASE n = m
    <3>1. n \in Registered
      BY <1>5 DEF OracleReply, ServerInv, MatchesInv, QueriesRegistered
    <3>2. matches[m] \in Matches
      BY <2>3, <3>1, MatchTyped DEF ServerInv, MatchesInv
    <3>3. matches'[m] = [matches[m] EXCEPT !.result = Proposed(r, now)]
      BY <1>2, <2>1, <2>3
    <3>4. matches'[m].result.final = r
      BY <3>2, <3>3 DEF Matches, Proposed
    <3>5. oracle_results[m] # NoEntry /\ r # NoResult /\ r = oracle_results[m].final_result
      BY <1>5, <2>3 DEF Oracle!Finalized
    <3>6. r = Played[bolao_fixture[m]]
      BY <1>1, <3>5 DEF EntryIsTrue, Truthful
    <3>. QED
      BY <3>4, <3>6
  <2>. QED
    BY <2>2, <2>3
<1>. QED
  BY <1>4, <1>5 DEF OracleAnswers

LEMMA TruthsStep ==
    ASSUME ServerInv, [ServerNext]_allVars
    PROVE  Truths'
<1>1. SUFFICES ASSUME ~misnumbered', NEW m \in MatchIds, m \notin guessed'
               PROVE  EntryIsTrue(m)' /\ ResultIsTrue(m)'
  BY DEF Truths
<1>2. ~misnumbered /\ guessed \subseteq guessed'
  <2>1. CASE FeedStep
    BY <1>1, <2>1, FeedMoves DEF FeedMove, FeedFrame, ServerInv
  <2>2. CASE SyncBolao
    <3>1. misnumbered' = misnumbered \/ misnumbered' = TRUE
      BY <2>2 DEF SyncBolao
    <3>2. guessed' = guessed
      BY <2>2 DEF SyncBolao
    <3>. QED
      BY <1>1, <3>1, <3>2
  <2>3. CASE ~FeedStep /\ ~SyncBolao
    <3>1. UNCHANGED <<guessed, misnumbered>>
      BY <2>3
      DEF ServerNext, RegisterJobStep, SyncTournament, RegisterBoth, StartJob, SyncOracle,
          SyncEnd, RepairMapping, BridgeStep, BridgeConsensus, OracleAnswers, FireTimer,
          RecoverProposedMatches, ProcessStep, Stop, Boot, Connect, RebuildKickOffs, RebuildMapping,
          AdminIntervenes, ChainStep, allVars, serverVars, historyVars
    <3>. QED
      BY <1>1, <3>1
  <2>. QED
    BY <2>1, <2>2, <2>3
<1>3. ServerTypes /\ MatchesInv /\ Aligned /\ EntryIsTrue(m) /\ ResultIsTrue(m)
  BY <1>1, <1>2 DEF ServerInv, Truths
<1>4. CASE bolao_fixture'[m] = bolao_fixture[m]
  <2>1. EntryIsTrue(m)'
    BY <1>1, <1>2, <1>4, EntryStep
  <2>2. ASSUME Claimed(m)'
        PROVE  matches'[m].result.final = Played[bolao_fixture[m]]
    <3>1. CASE \E slot \in QuerySlots : OracleAnswers(slot)
      BY <1>1, <1>2, <2>2, <3>1, AnswerIsTrue
    <3>2. CASE \A slot \in QuerySlots : ~OracleAnswers(slot)
      BY <1>3, <2>2, <3>2, ClaimsStay DEF ResultIsTrue
    <3>. QED
      BY <3>1, <3>2
  <2>. QED
    BY <1>4, <2>1, <2>2 DEF ResultIsTrue
<1>5. CASE bolao_fixture'[m] # bolao_fixture[m]
  <2>1. SyncBolao /\ bolao_fixture[m] = NoFixture /\ m = next_match_id + 1
    BY <1>1, <1>3, <1>5, FixturesStay
  <2>2. oracle_results' = oracle_results /\ \A slot \in QuerySlots : ~OracleAnswers(slot)
    BY <1>5, <2>1 DEF SyncBolao, OracleAnswers, chainVars
  <2>3. oracle_results[m] = NoEntry
    BY <1>2, <1>3, <2>1 DEF ServerInv, EntriesHaveFixtures, Aligned, MapsAgree, Agrees
  <2>4. m \notin Registered
    BY <1>3, <2>1, NextNat DEF MatchesInv, IdsAreAssigned
  <2>5. ~Claimed(m)'
    BY <1>3, <2>2, <2>4, ClaimsStay DEF Claimed
  <2>. QED
    BY <2>2, <2>3, <2>5 DEF EntryIsTrue, ResultIsTrue
<1>. QED
  BY <1>4, <1>5

LEMMA ServerInvInit == ServerInit => ServerInv
<1>. SUFFICES ASSUME ServerInit
              PROVE  ServerInv
  OBVIOUS
<1>1. MatchesInv /\ ServerTypes
  BY MatchesInitInv, ServerTypesInit DEF ServerInit
<1>2. EntriesHaveFixtures
  BY DEF ServerInit, EntriesHaveFixtures
<1>3. Aligned
  BY NoJobTyped
  DEF ServerInit, Aligned, NextIsFree, JobIsAligned, MapsAgree, Agrees, NoMapping, NoMatchOf,
      Blank
<1>4. Truths
  BY DEF ServerInit, MatchesInit, Truths, EntryIsTrue, ResultIsTrue, Claimed, Registered
<1>. QED
  BY <1>1, <1>2, <1>3, <1>4 DEF ServerInv

(* In every reachable state of the server with the two programs: everything*)
(* is well typed, everything that names a fixture for an id names the one  *)
(* registered in BolaoCore, and every submission and result is that of the *)
(* fixture.                                                                *)
THEOREM ServerInvariant == ServerSpec => []ServerInv
<1>1. ServerInv /\ [ServerNext]_allVars => ServerInv'
  <2>. SUFFICES ASSUME ServerInv, [ServerNext]_allVars
                PROVE  ServerInv'
    OBVIOUS
  <2>1. MatchesInv'
    BY ServerKeepsBolao, MatchesInvNext DEF ServerInv
  <2>2. ServerTypes' /\ EntriesHaveFixtures' /\ Aligned'
    BY ServerTypesStep, EntriesStep, AlignedStep DEF ServerInv
  <2>. QED
    BY <2>1, <2>2, TruthsStep DEF ServerInv
<1>. QED
  BY <1>1, ServerInvInit, PTL DEF ServerSpec

(* The server's memory and files, its job, its timers and both programs are*)
(* well typed in every reachable state.                                    *)
THEOREM ServerTypesHold == ServerSpec => []ServerTypeOK
<1>1. ServerInv => ServerTypeOK
  BY TypesAreOK DEF ServerInv
<1>. QED
  BY <1>1, ServerInvariant, PTL

(* A result proposed or finalized in BolaoCore is that of the teams that   *)
(* are registered there, through crashes, lost files and rebuilt mappings, *)
(* unless a list was misnumbered or the match was fed without a mapping.   *)
THEOREM ResultsAreRight == ServerSpec => []ResultsAreOfTheirFixture
<1>1. ServerInv => ResultsAreOfTheirFixture
  BY DEF ServerInv, Truths, ResultIsTrue, Claimed, Claims, ResultsAreOfTheirFixture, Registered
<1>. QED
  BY <1>1, ServerInvariant, PTL

(* Through the server BolaoCore does nothing but its own steps: what is    *)
(* proved of it holds here.                                                *)
THEOREM ServerRunsBolao == ServerSpec => MatchesSpec
<1>1. ServerInv /\ [ServerNext]_allVars => [MatchesNext]_allMatchesVars
  BY ServerKeepsBolao DEF ServerInv
<1>. QED
  BY <1>1, ServerInvariant, PTL DEF ServerSpec, ServerInit, MatchesSpec
=============================================================================
