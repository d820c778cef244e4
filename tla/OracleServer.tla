---------------------------- MODULE OracleServer ----------------------------
(***************************************************************************)
(* The oracle server with the two programs it connects.  It registers the  *)
(* fixtures of the sports API in BolaoCore and in the Oracle program under *)
(* one id, feeds their results to the Oracle program, asks BolaoCore to    *)
(* propose what the Oracle program agreed on, and finalizes the proposals  *)
(* when their challenge window is over.                                    *)
(*                                                                         *)
(* BolaoCore is the whole of BolaoMatches; the Oracle program is an        *)
(* instance of OracleProgram whose roles, feeders and threshold stay as set*)
(* up.  An action is a stretch of the server between two awaits together   *)
(* with the message it sends.  sendTx either throws (the transaction was   *)
(* not included) or returns, and it returns whether or not the program then*)
(* accepted the message: "sent, but refused" is an outcome of its own.     *)
(*                                                                         *)
(* The process may die between any two steps and comes back with what its  *)
(* two files hold, which a redeploy erases.  Timers and undelivered events *)
(* die with it.                                                            *)
(*                                                                         *)
(* Abstractions: a fixture stands for its teams, kick-off and id at the    *)
(* sports API; one registration job runs at a time; the endpoints that pass*)
(* one message on are the programs' own actions; clocks agree.             *)
(***************************************************************************)
EXTENDS BolaoMatches, Sequences

CONSTANTS
    Fixtures,
    KickOffOf,          \* fixture -> kick-off (ms)
    Played,             \* fixture -> its result on the field
    ScoreNode,          \* fixture -> what the sports API says when it is over
    NoScore,
    Cup,                \* the fixtures of the competition
    Stage,              \* those of the stage being registered, by kick-off
    FixtureNumbered,    \* a match id read as an id of the sports API
    NoFixture,
    NoEntry,
    Feeders, Gateway,   \* the Oracle program's feeders; the server is one
    OracleProgramId,
    CONSENSUS_THRESHOLD,
    FINALIZE_BUFFER_MS,
    MaxRestarts         \* bound: how often the process dies

ASSUME ServerAssumption ==
    /\ KickOffOf \in [Fixtures -> KickOffs] /\ Played \in [Fixtures -> Reports]
    /\ DOMAIN ScoreNode = Fixtures
    /\ Cup \subseteq Fixtures /\ Stage \in Seq(Cup)
    /\ \A i, j \in DOMAIN Stage : i < j => KickOffOf[Stage[i]] <= KickOffOf[Stage[j]]
    /\ FixtureNumbered \in [MatchIds -> Fixtures \cup {NoFixture}]
    /\ NoFixture \notin Fixtures
    /\ IsFiniteSet(Feeders) /\ Gateway \in Feeders
    /\ MatchIds = 1..Cardinality(MatchIds)
    /\ OracleProgramId \in Oracles
    /\ CONSENSUS_THRESHOLD \in 1..Cardinality(Feeders)
    /\ FINALIZE_BUFFER_MS \in Nat
    /\ MaxRestarts \in Nat

\* The sports API on a fixture that ended r: the goals of a shoot-out are in
\* fullTime as well, and may still be missing.
Tells(node, r) ==
    LET penalties == node.penalties
    IN  \/ /\ node.duration \in {"REGULAR", "EXTRA_TIME"}
           /\ r = [score |-> node.fullTime, penalty_winner |-> "None"]
        \/ node.duration = "PENALTY_SHOOTOUT" /\ penalties = NoScore
        \/ /\ node.duration = "PENALTY_SHOOTOUT"
           /\ penalties \in [home : Nat, away : Nat] /\ r.score.home = r.score.away
           /\ node.fullTime = [home |-> r.score.home + penalties.home,
                               away |-> r.score.away + penalties.away]
           /\ r.penalty_winner = IF penalties.home > penalties.away THEN "Home" ELSE "Away"
        \/ node.duration \notin {"REGULAR", "EXTRA_TIME", "PENALTY_SHOOTOUT"}

ASSUME ApiAssumption == \A f \in Fixtures : Tells(ScoreNode[f], Played[f])

VARIABLES
    oracle_results,     \* the Oracle program's match_results
    bolao_fixture,      \* the teams and kick-off registered in BolaoCore
    oracle_fixture,     \* ... and in the Oracle program
    up,
    bridge,             \* its one attempt per start to reach the node
    mapping,            \* matchIdToSportsId
    match_of,           \* sportsIdToMatchId, 0 if absent
    kick_offs,          \* kickOffMap
    disk,               \* match-mapping.json and kick-off-map.json
    job,                \* a registration request being worked off
    rebuilding,         \* rebuildMappingFromChain: what it waits for
    events,             \* ConsensusReached, on its way to the server
    timers,             \* finalizations scheduled with setTimeout
    restarts,
    manual,             \* history: matches whose bridge broke down
    guessed,            \* history: matches fed without a mapping
    misnumbered         \* history: a match of a list was not registered

chainVars == <<oracle_results, bolao_fixture, oracle_fixture>>
mapVars == <<mapping, match_of, kick_offs, disk>>
historyVars == <<manual, guessed, misnumbered>>
serverVars == <<up, bridge, mapVars, job, rebuilding, events, timers, restarts, historyVars>>
allVars == <<allMatchesVars, chainVars, serverVars>>

\* What the Oracle program was set up with.
Setup == [admin |-> Deployer, admins |-> {Deployer}, pending |-> Nobody,
          operators |-> {}, feeders |-> Feeders, threshold |-> CONSENSUS_THRESHOLD]

Oracle == INSTANCE OracleProgram WITH
    FirstAdmin <- Deployer, Faulty <- Feeders, Results <- Reports,
    Truth <- [m \in MatchIds |-> CHOOSE r \in Reports : TRUE],
    MAX_FEEDERS <- Cardinality(Feeders),
    DEFAULT_CONSENSUS_THRESHOLD <- CONSENSUS_THRESHOLD,
    admin <- Setup.admin, admins <- Setup.admins, pending_admin <- Setup.pending,
    operators <- Setup.operators, authorized_feeders <- Setup.feeders,
    consensus_threshold <- Setup.threshold, match_results <- oracle_results

NoJob == [phase |-> "none", todo |-> <<>>, id |-> 0, sent |-> FALSE]
NoMapping == [m \in MatchIds |-> NoFixture]
NoMatchOf == [f \in Fixtures |-> 0]
NoKickOffs == [m \in MatchIds |-> NoTime]
Blank == [mapping |-> NoMapping, kick_offs |-> NoKickOffs]

Timers == [match : MatchIds, due : Nat]

ServerTypeOK ==
    /\ MatchesTypeOK
    /\ Oracle!OracleTypeOK
    /\ {bolao_fixture, oracle_fixture, mapping, disk.mapping}
          \subseteq [MatchIds -> Fixtures \cup {NoFixture}]
    /\ match_of \in [Fixtures -> MatchIds \cup {0}]
    /\ {kick_offs, disk.kick_offs} \subseteq [MatchIds -> Nat \cup {NoTime}]
    /\ up \in BOOLEAN
    /\ bridge \in {"connecting", "on", "off"}
    /\ job.todo \in Seq(Fixtures) /\ job.id \in Nat /\ job.sent \in BOOLEAN
    /\ rebuilding \in {"no", "results", "fixtures"}
    /\ events \subseteq MatchIds
    /\ timers \subseteq Timers
    /\ restarts \in 0..MaxRestarts
    /\ manual \subseteq MatchIds /\ guessed \subseteq MatchIds /\ misnumbered \in BOOLEAN

ServerInit ==
    /\ AdminInit /\ MatchesInit
    /\ oracle_results = [m \in MatchIds |-> NoEntry]
    /\ bolao_fixture = NoMapping /\ oracle_fixture = NoMapping
    /\ up = TRUE /\ bridge = "connecting"
    /\ mapping = NoMapping /\ match_of = NoMatchOf
    /\ kick_offs = NoKickOffs /\ disk = Blank
    /\ job = NoJob
    /\ rebuilding = "no"
    /\ events = {} /\ timers = {}
    /\ restarts = 0
    /\ manual = {} /\ guessed = {} /\ misnumbered = FALSE

----------------------------------------------------------------------------
(* Registration: /setup/sync-tournament and /match/register-both *)

\* The fixtures of the stage still to come are the last, as they are sorted.
Scheduled ==
    LET past == {i \in DOMAIN Stage : KickOffOf[Stage[i]] <= now}
    IN  SubSeq(Stage, Cardinality(past) + 1, Len(Stage))

\* The ids are handed out before anything is sent, counting from what the
\* administrator read off BolaoCore; register_phase is refused if it exists.
StartJob(phase, weight, todo) ==
    /\ up /\ job = NoJob
    /\ todo # <<>> /\ next_match_id + Len(todo) \in MatchIds
    /\ job' = [phase |-> phase, todo |-> todo, id |-> next_match_id + 1, sent |-> FALSE]
    /\ RegisterPhase(Deployer, phase, weight) \/ UNCHANGED allMatchesVars
    /\ UNCHANGED <<chainVars, up, bridge, mapVars, rebuilding, events, timers, restarts,
                   historyVars>>

SyncTournament(phase, weight) ==
    StartJob(phase, weight, Scheduled)

RegisterBoth(phase, f) ==
    phases[phase] # 0 /\ StartJob(phase, phases[phase], <<f>>)

NextEntry(j) == [j EXCEPT !.todo = Tail(@), !.id = @ + 1, !.sent = FALSE]

\* BolaoCore gives the match the next id of its own counter, whatever id the
\* entry has.
SyncBolao ==
    LET f == Head(job.todo)
    IN  /\ up /\ job.todo # <<>> /\ ~job.sent
        /\ \/ /\ RegisterMatch(Deployer, job.phase, KickOffOf[f])
              /\ bolao_fixture' = [bolao_fixture EXCEPT ![next_match_id + 1] = f]
              /\ job' = [job EXCEPT !.sent = TRUE]
              /\ UNCHANGED misnumbered
           \/ /\ UNCHANGED <<allMatchesVars, bolao_fixture>>
              /\ job' \in {[job EXCEPT !.sent = TRUE], NextEntry(job)}
              /\ misnumbered' = TRUE
        /\ UNCHANGED <<oracle_results, oracle_fixture, up, bridge, mapVars, rebuilding, events,
                       timers, restarts, manual, guessed>>

AddMatchMapping(m, f) ==
    /\ mapping' = [mapping EXCEPT ![m] = f]
    /\ match_of' = [match_of EXCEPT ![f] = m]

\* The Oracle program takes the entry's id.  The mapping is kept in memory
\* until the whole list is worked off.
SyncOracle ==
    LET f == Head(job.todo)
        id == job.id
    IN  /\ up /\ job.todo # <<>> /\ job.sent
        /\ job' = NextEntry(job)
        /\ \/ /\ \/ /\ Oracle!RegisterMatch(Deployer, id)
                    /\ oracle_fixture' = [oracle_fixture EXCEPT ![id] = f]
                 \/ UNCHANGED <<oracle_results, oracle_fixture>>
              /\ AddMatchMapping(id, f)
              /\ kick_offs' = [kick_offs EXCEPT ![id] = KickOffOf[f]]
           \/ UNCHANGED <<oracle_results, oracle_fixture, mapping, match_of, kick_offs>>
        /\ UNCHANGED <<allMatchesVars, bolao_fixture, up, bridge, disk, rebuilding, events,
                       timers, restarts, historyVars>>

InMemory == [mapping |-> mapping, kick_offs |-> kick_offs]

SyncEnd ==
    /\ up /\ job # NoJob /\ job.todo = <<>>
    /\ job' = NoJob
    /\ disk' = InMemory
    /\ UNCHANGED <<allMatchesVars, chainVars, up, bridge, mapping, match_of, kick_offs,
                   rebuilding, events, timers, restarts, historyVars>>

\* The administrator looks the fixture up.
RepairMapping(m) ==
    /\ up /\ oracle_fixture[m] # NoFixture
    /\ AddMatchMapping(m, oracle_fixture[m])
    /\ disk' = [disk EXCEPT !.mapping = mapping']
    /\ UNCHANGED <<allMatchesVars, chainVars, up, bridge, kick_offs, job, rebuilding, events,
                   timers, restarts, historyVars>>

----------------------------------------------------------------------------
(* Feeding results *)

Pending(m) == oracle_results[m] # NoEntry /\ ~Oracle!Finalized(m)

\* The bridge's subscription and the timer of the scan are installed.
Bridged == up /\ bridge = "on"

\* A submission, and the event if it is the one that brings consensus: nobody
\* hears it while the server is down, or up without its bridge.
Submit(feeder, m, r) ==
    /\ Oracle!SubmitResult(feeder, m, r)
    /\ IF Oracle!Finalized(m)'
       THEN IF Bridged THEN events' = events \cup {m} /\ UNCHANGED manual
                  ELSE manual' = manual \cup {m} /\ UNCHANGED events
       ELSE UNCHANGED <<events, manual>>
    /\ UNCHANGED <<allMatchesVars, bolao_fixture, oracle_fixture, up, bridge, mapVars, job,
                   rebuilding, timers, restarts, misnumbered>>

\* The sports API adds the goals of a shoot-out to fullTime; they are taken
\* off again, and a node that does not come out as a draw is not fed.
ResolveOnFieldResult(node) ==
    LET home == node.fullTime.home - node.penalties.home
        away == node.fullTime.away - node.penalties.away
    IN  CASE node.duration \in {"REGULAR", "EXTRA_TIME"} ->
                [score |-> node.fullTime, penalty_winner |-> "None"]
          [] node.duration = "PENALTY_SHOOTOUT" /\ node.penalties # NoScore
                /\ node.penalties.home # node.penalties.away /\ home = away /\ home >= 0 ->
                [score |-> [home |-> home, away |-> away],
                 penalty_winner |-> IF node.penalties.home > node.penalties.away
                                    THEN "Home" ELSE "Away"]
          [] OTHER -> NoResult

\* What the server feeds of a fixture, if it is over and makes sense.
Feed(f, m) ==
    LET r == ResolveOnFieldResult(ScoreNode[f])
    IN  now >= KickOffOf[f] /\ r # NoResult /\ Submit(Gateway, m, r)

\* `matchIdToSportsId.get(id) ?? id`
SportsId(m) == IF mapping[m] # NoFixture THEN mapping[m] ELSE FixtureNumbered[m]

\* /oracle/feed-match
FeedMatch(m) ==
    LET f == SportsId(m)
    IN  /\ up /\ f # NoFixture
        /\ Feed(f, m)
        /\ guessed' = IF mapping[m] = NoFixture THEN guessed \cup {m} ELSE guessed

AutoFeed(m) ==
    /\ Pending(m)
    /\ kick_offs[m] # NoTime /\ kick_offs[m] <= now
    /\ FeedMatch(m)

\* /wc/sync walks the finished fixtures; sports API ids without a mapping are
\* ids of no match.
SyncFinished(f) ==
    /\ up
    /\ \E m \in MatchIds : match_of[f] = m /\ Feed(f, m)
    /\ UNCHANGED guessed

\* The other feeders read the registered teams and report what they played.
OtherFeeder(feeder, m) ==
    /\ feeder # Gateway /\ oracle_fixture[m] # NoFixture
    /\ now >= KickOffOf[oracle_fixture[m]]
    /\ Submit(feeder, m, Played[oracle_fixture[m]])
    /\ UNCHANGED guessed

\* /oracle/force-finalize fires ResultForced, which the bridge does not hear.
ForceFinalize(m) ==
    /\ up /\ oracle_fixture[m] # NoFixture
    /\ now >= KickOffOf[oracle_fixture[m]]
    /\ Oracle!ForceFinalizeResult(Deployer, m, Played[oracle_fixture[m]])
    /\ manual' = manual \cup {m}
    /\ UNCHANGED <<allMatchesVars, bolao_fixture, oracle_fixture, up, bridge, mapVars, job,
                   rebuilding, events, timers, restarts, guessed, misnumbered>>

----------------------------------------------------------------------------
(* The bridge to BolaoCore and the finalization of what it proposed *)

Due(t) == t + CHALLENGE_WINDOW_MS + FINALIZE_BUFFER_MS

\* The handler of ConsensusReached: one attempt to send propose_from_oracle,
\* and a timer as soon as it is sent.
BridgeConsensus(m) ==
    /\ Bridged /\ m \in events
    /\ events' = events \ {m}
    /\ \/ /\ \E slot \in QuerySlots : ProposeFromOracle(m, OracleProgramId, slot)
          /\ timers' = timers \cup {[match |-> m, due |-> Due(now)]}
          /\ UNCHANGED manual
       \/ /\ UNCHANGED allMatchesVars
          /\ timers' \in {timers, timers \cup {[match |-> m, due |-> Due(now)]}}
          /\ manual' = manual \cup {m}
    /\ UNCHANGED <<chainVars, up, bridge, mapVars, job, rebuilding, restarts, guessed,
                   misnumbered>>

\* The Oracle program's answer to BolaoCore, or the call's timeout.
OracleAnswers(slot) ==
    LET m == queries[slot].match
    IN  /\ queries[slot] # NoCall
        /\ \/ /\ Oracle!Finalized(m)
              /\ OracleReply(slot, oracle_results[m].final_result)
              /\ UNCHANGED manual
           \/ OracleReplyFailed(slot) /\ manual' = manual \cup {m}
        /\ UNCHANGED <<chainVars, up, bridge, mapVars, job, rebuilding, events, timers, restarts,
                       guessed, misnumbered>>

\* A timer sends finalize_result once: it is executed, refused or lost.
FireTimer(t) ==
    /\ up /\ t.due <= now
    /\ timers' = timers \ {t}
    /\ FinalizeResult(t.match) \/ UNCHANGED allMatchesVars
    /\ UNCHANGED <<chainVars, up, bridge, mapVars, job, rebuilding, events, restarts, historyVars>>

\* The client knows no Cancelled result: one cancelled match, and no state of
\* BolaoCore can be decoded any more.
StateDecodes == \A m \in Registered : Status(m) # "Cancelled"

RecoveryTimer_Bug(m) ==
    [match |-> m, due |-> Due(matches[m].result.proposed_at) - now]

\* The timer that recoverProposedMatches sets for m; one for at once is due 0.
RecoveryTimer(m) ==
    LET due == Due(matches[m].result.proposed_at)
    IN  [match |-> m, due |-> IF due <= now THEN 0 ELSE due]

Stuck_Bug ==
    {m \in Registered : Status(m) = "Proposed" /\ Due(matches[m].result.proposed_at) > now}

Stuck == {m \in Registered : Status(m) = "Proposed"}

\* Once the node is reached, and every ten minutes.
RecoverProposedMatches ==
    /\ Bridged /\ StateDecodes
    /\ timers' = timers \cup {RecoveryTimer(m) : m \in Stuck}
    /\ UNCHANGED <<allMatchesVars, chainVars, up, bridge, mapVars, job, rebuilding, events,
                   restarts, historyVars>>

----------------------------------------------------------------------------
(* Crash and boot *)

\* Memory is lost, and with a redeploy the files, too.
Stop ==
    /\ up /\ restarts < MaxRestarts
    /\ restarts' = restarts + 1
    /\ up' = FALSE /\ bridge' = "off"
    /\ mapping' = NoMapping /\ match_of' = NoMatchOf /\ kick_offs' = NoKickOffs
    /\ disk' \in {disk, Blank}
    /\ job' = NoJob /\ rebuilding' = "no"
    /\ events' = {} /\ timers' = {}
    /\ manual' = manual \cup events
    /\ UNCHANGED <<allMatchesVars, chainVars, guessed, misnumbered>>

\* A fixture mapped from several matches belongs to the last of the file.
LoadedMatchOf ==
    [f \in Fixtures |-> Max({m \in MatchIds : disk.mapping[m] = f} \cup {0})]

\* The server listens and feeds at once; the node is another matter.
Boot ==
    /\ ~up
    /\ up' = TRUE /\ bridge' = "connecting"
    /\ mapping' = disk.mapping /\ match_of' = LoadedMatchOf /\ kick_offs' = disk.kick_offs
    /\ UNCHANGED <<allMatchesVars, chainVars, disk, job, rebuilding, events, timers,
                   restarts, historyVars>>

\* getApi() at boot.  When it resolves, the bridge and the scan start, and the
\* mapping is rebuilt if it is empty; when it rejects, that is logged, and the
\* process goes on without them, although its endpoints connect again.
Connect ==
    /\ up /\ bridge = "connecting"
    /\ \/ /\ bridge' = "on"
          /\ rebuilding' = IF mapping = NoMapping THEN "results" ELSE "no"
       \/ bridge' = "off" /\ UNCHANGED rebuilding
    /\ UNCHANGED <<allMatchesVars, chainVars, up, mapVars, job, events, timers, restarts,
                   historyVars>>

\* rebuildMappingFromChain with the Oracle program's matches in hand, which
\* hold the kick-offs, and before it asks the sports API.
RebuildKickOffs ==
    /\ up /\ rebuilding = "results"
    /\ \/ /\ kick_offs' = [m \in MatchIds |-> IF oracle_fixture[m] = NoFixture THEN kick_offs[m]
                                               ELSE KickOffOf[oracle_fixture[m]]]
          /\ disk' = [disk EXCEPT !.kick_offs = kick_offs']
          /\ rebuilding' = "fixtures"
       \/ rebuilding' = "no" /\ UNCHANGED <<kick_offs, disk>>
    /\ UNCHANGED <<allMatchesVars, chainVars, up, bridge, mapping, match_of, job, events, timers,
                   restarts, historyVars>>

Resolves_Bug(m, f) ==
    oracle_fixture[m] # NoFixture /\ KickOffOf[f] = KickOffOf[oracle_fixture[m]]

\* The same teams and kick-off, if the sports API spells the teams that way.
Resolves(m, f) == f = oracle_fixture[m]

\* Its end, with the fixtures of the cup: found is what could be resolved.
RebuildMapping ==
    /\ up /\ rebuilding = "fixtures"
    /\ rebuilding' = "no"
    /\ \E found \in [MatchIds -> Cup \cup {NoFixture}] :
          LET matchesOf(f) == {m \in MatchIds : found[m] = f}
          IN  /\ \A m \in MatchIds : found[m] # NoFixture => Resolves(m, found[m])
              /\ mapping' = [m \in MatchIds |-> IF found[m] # NoFixture THEN found[m]
                                                 ELSE mapping[m]]
              /\ match_of' = [f \in Fixtures |-> IF matchesOf(f) # {} THEN Max(matchesOf(f))
                                                  ELSE match_of[f]]
              /\ disk' = IF mapping' = NoMapping THEN disk ELSE [disk EXCEPT !.mapping = mapping']
    /\ UNCHANGED <<allMatchesVars, chainVars, up, bridge, kick_offs, job, events, timers, restarts,
                   historyVars>>

----------------------------------------------------------------------------
RegisterJobStep ==
    \/ \E phase \in PhaseNames :
          \/ \E weight \in Weights : SyncTournament(phase, weight)
          \/ \E f \in Cup : RegisterBoth(phase, f)
    \/ SyncBolao \/ SyncOracle \/ SyncEnd
    \/ \E m \in MatchIds : RepairMapping(m)

FeedStep ==
    \/ \E m \in MatchIds :
          \/ AutoFeed(m) \/ FeedMatch(m) \/ ForceFinalize(m)
          \/ \E feeder \in Feeders : OtherFeeder(feeder, m)
    \/ \E f \in Cup : SyncFinished(f)

BridgeStep ==
    \/ \E m \in MatchIds : BridgeConsensus(m)
    \/ \E slot \in QuerySlots : OracleAnswers(slot)
    \/ \E t \in timers : FireTimer(t)
    \/ RecoverProposedMatches

ProcessStep == Stop \/ Boot \/ Connect \/ RebuildKickOffs \/ RebuildMapping

\* What the administrators do with BolaoCore meanwhile: authorize the Oracle
\* program, withdraw a proposal (a match is theirs from then on: the Oracle
\* program's result is final), cancel, or retry what the bridge gave up.
AdminIntervenes ==
    /\ \/ SetOracleAuthorized(Deployer, OracleProgramId, TRUE) /\ UNCHANGED <<matchesVars, manual>>
       \/ \E m \in MatchIds :
          \/ CancelProposedResult(Deployer, m) /\ manual' = manual \cup {m}
          \/ CancelMatch(Deployer, m) /\ UNCHANGED manual
          \/ FinalizeResult(m) /\ UNCHANGED manual
          \/ /\ m \in manual
             /\ \E slot \in QuerySlots : ProposeFromOracle(m, OracleProgramId, slot)
             /\ UNCHANGED manual
    /\ UNCHANGED <<chainVars, up, bridge, mapVars, job, rebuilding, events, timers, restarts, guessed,
                   misnumbered>>

ChainStep == Tick /\ UNCHANGED <<matchesVars, chainVars, serverVars>>

ServerNext ==
    \/ RegisterJobStep \/ FeedStep \/ BridgeStep \/ ProcessStep \/ AdminIntervenes
    \/ ChainStep

ServerSpec == ServerInit /\ [][ServerNext]_allVars

\* A timer goes off and BolaoCore executes its finalize_result.
FinalizationLands(m) ==
    \E t \in timers : t.match = m /\ FireTimer(t) /\ matches' # matches

(***************************************************************************)
(* The schedule: blocks keep coming; the host starts a dead process again, *)
(* and its attempt to reach the node succeeds or fails; the event loop runs*)
(* its callbacks, those of the bridge and the scan if they were installed; *)
(* Gear answers or times out every awaited call; and a message sent again  *)
(* and again is executed at last, though any one may be lost.  That the    *)
(* node is ever reached is not assumed: a process that failed to stays up, *)
(* and nothing restarts it.                                                *)
(***************************************************************************)
ServerFairness ==
    /\ WF_allVars(ChainStep)
    /\ WF_allVars(Boot) /\ WF_allVars(Connect)
    /\ \A m \in MatchIds : WF_allVars(BridgeConsensus(m))
    /\ \A slot \in QuerySlots : WF_allVars(OracleAnswers(slot))
    /\ WF_allVars(RecoverProposedMatches)
    /\ \A m \in MatchIds : SF_allVars(FinalizationLands(m))

ServerFairSpec == ServerSpec /\ ServerFairness

----------------------------------------------------------------------------
(* Properties *)

(* Unless a registration of a list went wrong (ids are handed out before   *)
(* anything is registered) or a match was fed without a mapping, a result  *)
(* proposed or finalized in BolaoCore is that of the teams registered      *)
(* there, through crashes in the middle of a list, lost files, rebuilt,    *)
(* repaired or overwritten mappings, and matches fed from several sides.   *)
ResultsAreOfTheirFixture ==
    ~misnumbered =>
        \A m \in Registered \ guessed :
            Status(m) \in {"Proposed", "Finalized"} =>
                matches[m].result.final = Played[bolao_fixture[m]]

\* Up and feeding, but the node was out of reach when the process started.
Deaf == up /\ bridge = "off"

(* A proposal that finalize_result would accept does not stay proposed for *)
(* ever, whenever the server dies and whichever timers are lost, early or  *)
(* refused: the scan finds it.  It needs to decode BolaoCore's state, and  *)
(* a process that reached the node when it started.                        *)
ProposalsAreFinalized ==
    \A m \in MatchIds :
        Resolvable(m) ~> (~Resolvable(m) \/ ~StateDecodes \/ Deaf)

(* What the Oracle program agreed on is settled in BolaoCore, unless its   *)
(* one event found no bridge or failed there and the match is left to an   *)
(* administrator, the state of BolaoCore does not decode, or the process   *)
(* did not reach the node when it started.                                 *)
EveryConsensusSettles ==
    \A m \in MatchIds :
        Oracle!Finalized(m) ~>
            \/ m \in Registered /\ Status(m) \in {"Finalized", "Cancelled"}
            \/ m \in manual \/ ~StateDecodes \/ Deaf
=============================================================================
