--------------------------- MODULE FinalPrizeLoop ---------------------------
(***************************************************************************)
(* The loop of finalize_final_prize_pool, as written: an index i into the  *)
(* sorted leaderboard, the current position, and the allocations made so   *)
(* far.  BolaoRules!Allocations is what it computes; the rules run compares*)
(* the two on every small leaderboard.                                     *)
(***************************************************************************)
EXTENDS BolaoRules, Sequences

\* collect_leaderboard sorts by points, descending; the order of tied wallets
\* is whatever the hash map's iteration gave, so every sorted order counts.
SortedBoards(points) ==
    LET n == Cardinality(DOMAIN points)
    IN  {b \in [1 .. n -> DOMAIN points] :
            /\ \A i, j \in 1 .. n : i # j => b[i] # b[j]
            /\ \A i \in 1 .. n - 1 : points[b[i]] >= points[b[i + 1]]}

\* The inner loop: one past the last index of the group that starts at i.
GroupEnd(board, points, i) ==
    CHOOSE j \in i + 1 .. Len(board) + 1 :
        /\ \A k \in i .. j - 1 : points[board[k]] = points[board[i]]
        /\ j <= Len(board) => points[board[j]] # points[board[i]]

LoopBody_Bug(board, points, pool, st) ==
    LET j == GroupEnd(board, points, st.i)
        size == j - st.i
        perWallet == Bps(pool, Top5ShareSum(st.position, st.position)) \div size
    IN  [i |-> j, position |-> st.position + size,
         alloc |-> [w \in DOMAIN st.alloc |->
                       IF \E k \in st.i .. j - 1 : board[k] = w
                       THEN perWallet ELSE st.alloc[w]],
         total |-> st.total + perWallet * size]

\* One iteration of the outer loop.
LoopBody(board, points, pool, st) ==
    LET j == GroupEnd(board, points, st.i)
        size == j - st.i
        endPos == st.position + size - 1
        affectedEnd == IF endPos < 5 THEN endPos ELSE 5
        groupAmount == Bps(pool, Top5ShareSum(st.position, affectedEnd))
        perWallet == groupAmount \div size
    IN  [i |-> j, position |-> st.position + size,
         alloc |-> [w \in DOMAIN st.alloc |->
                       IF \E k \in st.i .. j - 1 : board[k] = w
                       THEN perWallet ELSE st.alloc[w]],
         total |-> st.total + perWallet * size]

\* while i < leaderboard.len() && current_position <= 5
FinalPrizeLoop(board, points, pool) ==
    LET start == [i |-> 1, position |-> 1, total |-> 0,
                  alloc |-> [w \in DOMAIN points |-> 0]]
        run[n \in 0 .. Len(board)] ==
            IF n = 0 THEN start
            ELSE LET st == run[n - 1]
                 IN  IF st.i <= Len(board) /\ st.position <= 5
                     THEN LoopBody(board, points, pool, st)
                     ELSE st
    IN  run[Len(board)]
=============================================================================
