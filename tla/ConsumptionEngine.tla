------------------------- MODULE ConsumptionEngine -------------------------
(***************************************************************************)
(* consumption_engine.py: what one lot consumed between two readings of    *)
(* its stock sheet.  A reading is a record of the day and the sheet's four *)
(* figures; received and issued are period-to-date.  Quantities count      *)
(* thousandths, the sheets' own precision.  Readings of one lot are of     *)
(* different days (the snapshot table's key), so the "not an interval"     *)
(* outcome cannot arise.                                                   *)
(***************************************************************************)
EXTENDS Integers, Sequences, FiniteSetsExt

CONSTANTS
  MaxBrokenRun,   \* _MAX_BROKEN_RUN
  MaxDatedGap     \* max_dated_gap_days

Balance(p, q) == (p.closing - q.closing) + (q.received - p.received)
Issued(p, q) == q.issued - p.issued

\* A lot that has not moved in the window empties in one step.
IsCloseout(p, q, moved) ==
  /\ ~moved
  /\ q.closing = 0 /\ p.closing > 0
  /\ q.received = p.received
  /\ 10 * Issued(p, q) >= 9 * p.closing

\* classify_interval, its classification; the first that fits.
Classification(p, q, moved) ==
  IF Issued(p, q) < 0 THEN "period_roll"
  ELSE IF IsCloseout(p, q, moved) THEN "closeout"
  ELSE IF Balance(p, q) # Issued(p, q)
       THEN IF p.opening # q.opening THEN "restatement" ELSE "books_disagree"
  ELSE IF q.day - p.day <= MaxDatedGap THEN "counted" ELSE "spread"

Excluded == {"period_roll", "closeout"}
Logged == Excluded \cup {"restatement", "books_disagree"}

Interval(p, q, moved) ==
  LET kind == Classification(p, q, moved)
  IN  [start |-> p.day, end |-> q.day, kind |-> kind,
       quantity |-> IF kind # "period_roll" THEN Issued(p, q)
                    ELSE IF Balance(p, q) > 0 THEN Balance(p, q) ELSE 0]

Consumes(interval) == interval.kind \notin Excluded /\ interval.quantity > 0

\* Mutant: a dip is taken as it is read.
Following_Kept(readings, a) == a + 1

\* _without_broken_reads: of the readings after the kept one a, the next it
\* keeps.  A run of at most MaxBrokenRun readings whose issues dip below a's is
\* left out when the reading after it is back up.
Following(readings, a) ==
  LET back == {j \in a + 1 .. a + 1 + MaxBrokenRun :
                 j <= Len(readings) /\ readings[j].issued >= readings[a].issued}
  IN  IF back = {} THEN a + 1 ELSE Min(back)

\* The loops of _without_broken_reads and intervals_for_lot over the readings
\* from the first-th on: after each, the last one kept and whether the lot has
\* moved.
Walk(readings, first) ==
  LET at[i \in first .. Len(readings)] ==
        IF i = first THEN [last |-> first, moved |-> FALSE]
        ELSE LET before == at[i - 1]
             IN  IF i # Following(readings, before.last) THEN before
                 ELSE [last  |-> i,
                       moved |-> before.moved
                                 \/ Consumes(Interval(readings[before.last], readings[i], before.moved))]
  IN  at

\* intervals_for_lot: one for every two readings kept in a row.
Intervals(readings, first) ==
  LET at == Walk(readings, first)
  IN  {Interval(readings[at[k - 1].last], readings[k], at[k - 1].moved) :
         k \in {j \in first + 1 .. Len(readings) : at[j].last = j}}

Counted(intervals) == {i \in intervals : i.kind \notin Excluded}
DaysOf(interval) == interval.start + 1 .. interval.end

\* (quantity / days).quantize(0.001), which rounds half to even.
Share(quantity, days) ==
  LET whole == quantity \div days
      rest  == quantity % days
  IN  IF 2 * rest > days \/ (2 * rest = days /\ whole % 2 = 1) THEN whole + 1 ELSE whole

\* allocate_daily: the last day takes what the equal shares leave.
Allocated(interval, day) ==
  LET days  == interval.end - interval.start
      share == Share(interval.quantity, days)
  IN  IF day \notin DaysOf(interval) \/ interval.quantity <= 0 THEN 0
      ELSE IF day < interval.end THEN share
      ELSE interval.quantity - share * (days - 1)
=============================================================================
