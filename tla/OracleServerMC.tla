--------------------------- MODULE OracleServerMC ---------------------------
(* The server over one short stage of the cup. *)
EXTENDS OracleServer, TLC

Result(home, away, pen) ==
    [score |-> [home |-> home, away |-> away], penalty_winner |-> pen]

\* "friendly" is the match whose number at the sports API is the id of the
\* match here.  The opener is decided 4-3 on penalties after 1-1.
TheFixtures == {"opener", "second", "friendly"}
AtOnce == [f \in TheFixtures |-> 1000000]
OnTheField == [f \in TheFixtures |->
    IF f = "opener" THEN Result(1, 1, "Home") ELSE Result(0, 1, "None")]
AtTheApi == [f \in TheFixtures |->
    IF f = "opener" THEN [duration |-> "PENALTY_SHOOTOUT", fullTime |-> [home |-> 5, away |-> 4],
                          penalties |-> [home |-> 4, away |-> 3]]
    ELSE [duration |-> "REGULAR", fullTime |-> [home |-> 0, away |-> 1],
          penalties |-> NoScore]]

\* What can be fed at all: the results, and the opener's as the API has it.
TheReports == {OnTheField[f] : f \in TheFixtures} \cup {Result(5, 4, "Home")}
TheStage == <<"opener">>
Numbered == [m \in MatchIds |-> "friendly"]
=============================================================================
