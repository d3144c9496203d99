---------------------------- MODULE AssignPairs -----------------------------
(***************************************************************************)
(* The search of matching_core._assign_pairs(): lines are taken one at a   *)
(* time, and each looks for the chain of displacements that gains most.    *)
(* One step takes one line off the search queue and tries all its rows, or *)
(* flips the chain that was found.  weight[l][r] = 0 stands for "no pair"; *)
(* every real pair weighs more.                                            *)
(***************************************************************************)
EXTENDS Assignment, SequencesExt

CONSTANTS
  MaxWeight,   \* bound on a pair's weight
  Ceilings     \* the work bounds tried; 64 + 8 * (lines with a pair) in the code

VARIABLES
  weight, ceiling,    \* the input and the work bound, fixed for a run
  waiting,            \* left_order still to come
  matchLeft, matchRight,
  source,             \* the line searching, NoLine between searches
  queue, gain,        \* queue; best_gain, over the lines reached so far
  fromLeft, fromRight,
  end,                \* end_kind, end_key, end_gain: the best chain end so far
  budget,             \* dequeue_budget
  cut                 \* some search stopped on its budget (history variable)

vars == <<weight, ceiling, waiting, matchLeft, matchRight, source, queue, gain,
          fromLeft, fromRight, end, budget, cut>>

NoLine == 0
NoEnd == [kind |-> "none", key |-> 0, gain |-> 0]

Adjacent(l) == {r \in Rows : weight[l][r] > 0}
Heaviest1(l) == Max({weight[l][r] : r \in Adjacent(l)})

\* left_order: heaviest best pair first, then by key.
Before(l, k) ==
  \/ Heaviest1(l) > Heaviest1(k)
  \/ Heaviest1(l) = Heaviest1(k) /\ l < k

Init ==
  /\ weight \in [Lines -> [Rows -> 0..MaxWeight]]
  /\ ceiling \in Ceilings
  /\ waiting = {l \in Lines : Adjacent(l) # {}}
  /\ matchLeft = [l \in Lines |-> NoRow]
  /\ matchRight = [r \in Rows |-> NoLine]
  /\ source = NoLine
  /\ queue = <<>>
  /\ gain = <<>>
  /\ fromLeft = [r \in Rows |-> NoLine]
  /\ fromRight = [l \in Lines |-> NoRow]
  /\ end = NoEnd
  /\ budget = 0
  /\ cut = FALSE

\* The next line of left_order starts its search.
Begin(l) ==
  /\ source = NoLine
  /\ l \in waiting /\ \A k \in waiting \ {l} : Before(l, k)
  /\ waiting' = waiting \ {l}
  /\ source' = l
  /\ queue' = <<l>>
  /\ gain' = (l :> 0)
  /\ fromLeft' = [r \in Rows |-> NoLine]
  /\ fromRight' = [k \in Lines |-> NoRow]
  /\ end' = NoEnd
  /\ budget' = ceiling
  /\ UNCHANGED <<weight, ceiling, matchLeft, matchRight, cut>>

Holder(r) == matchRight[r]
Gain(l, r) == gain[l] + weight[l][r]

\* Mutant: what the row was worth to its holder is forgotten.
GainDisplacing_Free(l, r) == Gain(l, r)

\* What line l, first in the queue, reaches through one of its rows: a free row
\* ends a chain, a held one displaces its holder if that gains more than the
\* best chain that reached the holder before.
GainDisplacing(l, r) == Gain(l, r) - weight[Holder(r)][r]

Displaces(l, r) ==
  /\ Holder(r) \notin {NoLine, l}
  /\ Holder(r) \in DOMAIN gain => GainDisplacing(l, r) > gain[Holder(r)]

EndAt(l, r) ==
  IF Holder(r) = NoLine
  THEN [kind |-> "row", key |-> r, gain |-> Gain(l, r)]
  ELSE [kind |-> "line", key |-> Holder(r), gain |-> GainDisplacing(l, r)]

\* Mutant: only a free row ends a chain, a line that is displaced must find one.
BetterEnd_FreeOnly(l, rows) ==
  FoldLeft(LAMBDA best, r : IF Holder(r) = NoLine /\ EndAt(l, r).gain > best.gain
                            THEN EndAt(l, r) ELSE best,
           end, SetToSortSeq(rows, <))

\* The rows are tried in order and only a larger gain replaces the end.
BetterEnd(l, rows) ==
  FoldLeft(LAMBDA best, r : IF EndAt(l, r).gain > best.gain THEN EndAt(l, r) ELSE best,
           end, SetToSortSeq(rows, <))

\* One turn of the search loop: the line at the head tries all its rows.
Dequeue ==
  /\ source # NoLine /\ queue # <<>> /\ budget > 0
  /\ LET l == Head(queue)
         pushed == {r \in Adjacent(l) : Displaces(l, r)}
         free == {r \in Adjacent(l) : Holder(r) = NoLine}
         holders == SelectSeq([i \in 1..Cardinality(pushed) |->
                                 Holder(SetToSortSeq(pushed, <)[i])],
                              LAMBDA h : h \notin Range(Tail(queue)))
     IN  /\ gain' = [k \in {Holder(r) : r \in pushed} |-> GainDisplacing(l, matchLeft[k])]
                    @@ gain
         /\ fromRight' = [k \in Lines |->
                            IF \E r \in pushed : Holder(r) = k
                            THEN matchLeft[k] ELSE fromRight[k]]
         /\ end' = BetterEnd(l, pushed \union free)
         /\ fromLeft' = [r \in Rows |->
                           IF r \in pushed \/ (r \in free /\ end' = EndAt(l, r) /\ end' # end)
                           THEN l ELSE fromLeft[r]]
         /\ queue' = Tail(queue) \o holders
  /\ budget' = budget - 1
  /\ UNCHANGED <<weight, ceiling, waiting, matchLeft, matchRight, source, cut>>

\* The chain of rows from the end back to the source; NoRow once it is over.
Chain ==
  LET at[n \in 0..Cardinality(Rows)] ==
        IF n = 0
        THEN IF end.kind = "row" THEN end.key ELSE fromRight[end.key]
        ELSE IF at[n - 1] = NoRow THEN NoRow ELSE fromRight[fromLeft[at[n - 1]]]
  IN  at
Cyclic == Chain[Cardinality(Rows)] # NoRow
OnChain == Range(Chain) \ {NoRow}

\* The search is over: flip the chain, unless nothing gains or it is a cycle.
Flip ==
  /\ end.gain > 0 /\ ~Cyclic
  /\ matchLeft' = [l \in Lines |->
       IF \E r \in OnChain : fromLeft[r] = l
       THEN CHOOSE r \in OnChain : fromLeft[r] = l
       ELSE IF end.kind = "line" /\ end.key = l THEN NoRow ELSE matchLeft[l]]
  /\ matchRight' = [r \in Rows |-> IF r \in OnChain THEN fromLeft[r] ELSE matchRight[r]]

Leave ==
  /\ end.gain > 0 => Cyclic
  /\ UNCHANGED <<matchLeft, matchRight>>

Finish ==
  /\ source # NoLine /\ (queue = <<>> \/ budget = 0)
  /\ Flip \/ Leave
  /\ source' = NoLine
  /\ queue' = <<>>
  /\ gain' = <<>>
  /\ fromLeft' = [r \in Rows |-> NoLine]
  /\ fromRight' = [l \in Lines |-> NoRow]
  /\ end' = NoEnd
  /\ budget' = 0
  /\ cut' = (cut \/ queue # <<>>)
  /\ UNCHANGED <<weight, ceiling, waiting>>

Next == (\E l \in Lines : Begin(l)) \/ Dequeue \/ Finish

Spec == Init /\ [][Next]_vars
-----------------------------------------------------------------------------
\* A run that no budget cut short returns an assignment of the largest total
\* weight, which is what the docstring promises ("the assignment maximizing
\* summed weight") and what PlantMatch assumes of every call.
HeaviestWhenUncut ==
  source = NoLine /\ waiting = {} /\ ~cut =>
    matchLeft \in Heaviest([l \in Lines |-> Adjacent(l)], weight)

\* Flipping a chain gains what the search said it would, so stopping early
\* costs quality and never what was already agreed.
FlipGains ==
  source # NoLine /\ source' = NoLine /\ end.gain > 0 =>
    Total(weight, matchLeft') >= Total(weight, matchLeft) + end.gain
FlipGainsItsEnd == [][FlipGains]_vars
=============================================================================
