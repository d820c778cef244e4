-------------------------- MODULE ResultLifecycle --------------------------
(***************************************************************************)
(* What BolaoCore promises about the results of its matches, whoever calls *)
(* it and however its awaited calls end: a result is announced, stands     *)
(* unchanged until it is withdrawn or has been open to challenge for WINDOW*)
(* milliseconds, and only then counts; what counts, or was called off,     *)
(* never changes again.  BolaoMatches implements this.                     *)
(***************************************************************************)
EXTENDS Integers

CONSTANTS
    Ids,        \* matches
    Scores,     \* results that may be announced
    NoScore,
    WINDOW      \* how long a result stands open to challenge (ms)

VARIABLES
    clock,
    board       \* what is known of every match

Absent == [status |-> "Absent", score |-> NoScore, since |-> 0]
Open == [status |-> "Open", score |-> NoScore, since |-> 0]
CalledOff == [status |-> "CalledOff", score |-> NoScore, since |-> 0]
Announced(s, t) == [status |-> "Announced", score |-> s, since |-> t]
Counted(s) == [status |-> "Counted", score |-> s, since |-> 0]

Init == board = [m \in Ids |-> Absent]

Becomes(m, new) == board' = [board EXCEPT ![m] = new] /\ UNCHANGED clock

Register(m) == board[m] = Absent /\ Becomes(m, Open)

Announce(m) ==
    /\ board[m] = Open
    /\ \E s \in Scores : Becomes(m, Announced(s, clock))

Withdraw(m) ==
    /\ board[m].status = "Announced"
    /\ clock < board[m].since + WINDOW
    /\ Becomes(m, Open)

Count(m) ==
    /\ board[m].status = "Announced"
    /\ clock >= board[m].since + WINDOW
    /\ Becomes(m, Counted(board[m].score))

CallOff(m) ==
    /\ board[m].status \in {"Open", "Announced"}
    /\ Becomes(m, CalledOff)

TimePasses == clock' > clock /\ UNCHANGED board

Next ==
    \/ TimePasses
    \/ \E m \in Ids : \/ Register(m) \/ Announce(m) \/ Withdraw(m)
                      \/ Count(m) \/ CallOff(m)

Spec == Init /\ [][Next]_<<clock, board>>
=============================================================================
