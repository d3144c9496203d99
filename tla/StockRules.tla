----------------------------- MODULE StockRules -----------------------------
(***************************************************************************)
(* The pure arithmetic behind RM stock entry (apps/services/stock_rules.py)*)
(* as the ledger uses it: a total over numbered rows, and the day-by-day   *)
(* replay of a lot's dated movements.                                      *)
(*                                                                         *)
(* Total is a recursive function rather than a fold so that StockSums can  *)
(* prove what adding, changing or dropping one row does to it.             *)
(***************************************************************************)
EXTENDS Integers, Sequences, FiniteSets

\* The sum of f[1], ..., f[n]: the SQL/Python sum over rows numbered 1..n.
Total(f, n) ==
  LET run[k \in 0..n] == IF k = 0 THEN 0 ELSE run[k-1] + f[k]
  IN  run[n]

-----------------------------------------------------------------------------
(***************************************************************************)
(* min_running_balance(), step for step: movements are a sequence of       *)
(* <<day, signed quantity>> pairs in any order.                            *)
(***************************************************************************)

\* by_day[day]: same-day movements net off.
NetOn(events, day) ==
  Total([k \in DOMAIN events |-> IF events[k][1] = day THEN events[k][2] ELSE 0],
        Len(events))

EventDays(events) == {events[k][1] : k \in DOMAIN events}

\* sorted(): a finite set of numbers in ascending order.
Ascending(S) ==
  CHOOSE s \in [1..Cardinality(S) -> S] :
    \A i, j \in 1..Cardinality(S) : i < j => s[i] < s[j]

Lower(a, b) == IF a <= b THEN a ELSE b

\* The balance carried into and through from_date.
CarriedTo(events, from) ==
  Total([k \in DOMAIN events |-> IF events[k][1] <= from THEN events[k][2] ELSE 0],
        Len(events))

\* The loop over the sorted days: running balance and lowest so far after k
\* of them, from a given start. `seen` is FALSE until a first low is known.
Replay(events, days, start) ==
  LET sorted == Ascending(days)
      step[k \in 0..Cardinality(days)] ==
        IF k = 0 THEN start
        ELSE LET running == step[k-1].running + NetOn(events, sorted[k])
             IN  [running |-> running, seen |-> TRUE,
                  lowest  |-> IF step[k-1].seen
                              THEN Lower(step[k-1].lowest, running) ELSE running]
  IN  step[Cardinality(days)]

\* Mutant: the day itself is counted a second time.
MinRunningBalanceFrom_DayTwice(events, from) ==
  LET carried == CarriedTo(events, from)
  IN  Replay(events, {d \in EventDays(events) : d >= from},
             [running |-> carried, seen |-> TRUE, lowest |-> carried]).lowest

\* min_running_balance(events) and min_running_balance(events, from_date).
MinRunningBalance(events) ==
  Replay(events, EventDays(events),
         [running |-> 0, seen |-> FALSE, lowest |-> 0]).lowest

MinRunningBalanceFrom(events, from) ==
  LET carried == CarriedTo(events, from)
  IN  Replay(events, {d \in EventDays(events) : d > from},
             [running |-> carried, seen |-> TRUE, lowest |-> carried]).lowest

=============================================================================
