---------------------------- MODULE MCMatchTable ----------------------------
EXTENDS MatchTable

MCRadixes == Letters \X Letters

Pieces ==
  { [i \in 1 .. 14 |-> 0],                              \* a run
    [i \in 1 .. 3 |-> 1],
    [i \in 1 .. 19 |-> i % 2],                          \* two letters in turn
    [i \in 1 .. 20 |-> IF i % 5 \in {0, 2} THEN 1 ELSE 0],
    <<0, 1, 1, 0, 1, 0, 0, 1, 1, 1, 0>> }

Short == [1 .. 8 -> Letters]
Long  == {p \o q \o r : p, q, r \in Pieces}

Params(dict, reset, depth, maxLen, struct, limit, best, threads) ==
  [dict |-> dict, overlap |-> dict \div 3, reset |-> reset, depth |-> depth, maxLen |-> maxLen,
   struct |-> struct, limit |-> limit, size |-> 18, best |-> best, threads |-> threads]

Case(text, params, async) == [text |-> text, async |-> async] @@ params

(* Two threads, or a cancel, or both.                                      *)
Shared == {[i \in 1 .. 20 |-> IF i % 5 \in {0, 2} THEN 1 ELSE 0], [i \in 1 .. 18 |-> IF i < 12 THEN 0 ELSE 1]}

Whole(plans) == {p \in plans : \A i \in DOMAIN p.blocks : ~RepeatCrosses(p.blocks[i])}

MCPlans == Whole(
  {PlanOf(Case(t, Params(14, 0, 6, 7, FALSE, 5, TRUE, 1), FALSE)) : t \in Short}
    \cup
  {PlanOf(Case(t, p, FALSE)) : t \in Long,
     p \in {Params(70, 0, 6, 7, FALSE, 5, TRUE, 1),
            Params(32, 0, 8, 9, FALSE, 18, FALSE, 1),
            Params(40, 0, 12, 15, TRUE, 12, TRUE, 1),
            Params(24, 2, 7, 7, FALSE, 18, FALSE, 1)}}
    \cup
  {PlanOf(Case(t, Params(16, 0, 6, 7, FALSE, 18, TRUE, threads), async)) :
     t \in Shared, threads \in {1, 2}, async \in BOOLEAN})

(* A run of two letters in turn from the overlap into new data.            *)
Crossing == [i \in 1 .. 52 |-> IF i <= 38 THEN (i + 1) % 2 ELSE 0]

MCCrossing == {PlanOf(Case(Crossing, Params(32, 0, 8, 9, struct, 18, FALSE, 1), FALSE)) : struct \in BOOLEAN}
=============================================================================
