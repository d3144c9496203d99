------------------------- MODULE ConsumptionLedger -------------------------
(***************************************************************************)
(* The consumption ledger of one material at one plant: the stock sheet    *)
(* people keep, the daily snapshot the stock sync takes of each of its     *)
(* lots, and rebuild_plant_consumption(), which derives the ledger from    *)
(* the snapshots of a trailing window and replaces that window's rows.     *)
(* A rebuild is one step: its reads and its transaction follow the stock   *)
(* sync in one pipeline, and SyncPipeline is about what overlaps it.       *)
(***************************************************************************)
EXTENDS ConsumptionEngine, StockRules, SequencesExt

CONSTANTS
  LotCount,      \* lots of the one material, numbered
  Lookback,      \* _DEFAULT_LOOKBACK_DAYS
  Anchor,        \* _ANCHOR_LOOKBACK_DAYS
  Amounts,       \* bound: quantities issued, received and restated by: whole
                 \* units, as a few thousandths over several days may round
                 \* to more than they are
  OpeningStock,  \* bound: what each lot starts with
  LastDay,       \* bound: days 1..LastDay
  MaxOutage,     \* bound: days from one snapshot, or one rebuild, to the next
  MaxOddDays     \* bound: deliveries, restatements, new periods, broken reads
                 \* and failed steps

ASSUME LedgerAssumption ==
  /\ {MaxBrokenRun, MaxDatedGap, Lookback, Anchor, LastDay, MaxOutage} \subseteq Nat \ {0}
  /\ {LotCount, OpeningStock, MaxOddDays} \subseteq Nat
  /\ Amounts \subseteq Nat \ {0} /\ \A q \in Amounts : q % 1000 = 0

\* The outages the windows bridge, a run of broken reads across them included:
\* Lookback those of the rows an earlier rebuild may have written before the
\* last of their readings came in, Anchor those before the first row written.
\* Over more days than the third a whole unit may be spread to more than it is.
ASSUME WindowAssumption ==
  /\ Lookback >= (MaxBrokenRun + 2) * MaxOutage - 1
  /\ Anchor >= (MaxBrokenRun + 1) * MaxOutage
  /\ (MaxBrokenRun + 1) * MaxOutage <= 45

VARIABLES
  today,
  sheet,      \* lot -> the four figures, and what was truly used (history)
  snapshots,  \* lot -> the days' readings, oldest first
  daily,      \* MaterialConsumptionDaily: day -> quantity, 0 for no row
  coverage,   \* ConsumptionCoverage: the days with a row
  events,     \* ConsumptionEvent
  built,      \* the day of the last rebuild (0: none)
  behind,     \* a snapshot was taken since
  lows,       \* lots a rebuild has read from a low reading on (history)
  odd         \* oddities so far

vars == <<today, sheet, snapshots, daily, coverage, events, built, behind, lows, odd>>

Days == 1 .. LastDay
Lots == 1 .. LotCount
Figures == [opening |-> OpeningStock, received |-> 0, issued |-> 0, closing |-> OpeningStock, used |-> 0]

Init ==
  /\ today = 1
  /\ sheet = [l \in Lots |-> Figures]
  /\ snapshots = [l \in Lots |-> <<>>]
  /\ daily = [d \in Days |-> 0]
  /\ coverage = {}
  /\ events = {}
  /\ built = 0
  /\ behind = FALSE
  /\ lows = {}
  /\ odd = 0

Odd == odd < MaxOddDays /\ odd' = odd + 1

ReadToday(l) == snapshots[l] # <<>> /\ Last(snapshots[l]).day = today

\* The sheet is edited before the day's sync: what comes after it is the next
\* day's to every reader.
Synced == \E l \in Lots : ReadToday(l)
-----------------------------------------------------------------------------
(* The sheet. *)

Issue(l, q) ==
  /\ ~Synced
  /\ q <= sheet[l].closing
  /\ sheet' = [sheet EXCEPT ![l].issued = @ + q, ![l].closing = @ - q, ![l].used = @ + q]
  /\ UNCHANGED <<today, snapshots, daily, coverage, events, built, behind, lows, odd>>

Receive(l, q) ==
  /\ ~Synced /\ Odd
  /\ sheet' = [sheet EXCEPT ![l].received = @ + q, ![l].closing = @ + q]
  /\ UNCHANGED <<today, snapshots, daily, coverage, events, built, behind, lows>>

\* The opening figure is corrected, and the balance with it.
Restate(l, q) ==
  /\ ~Synced /\ Odd
  /\ sheet[l].opening - q >= 0 /\ sheet[l].closing - q >= 0
  /\ sheet' = [sheet EXCEPT ![l].opening = @ - q, ![l].closing = @ - q]
  /\ UNCHANGED <<today, snapshots, daily, coverage, events, built, behind, lows>>

NewPeriod ==
  /\ ~Synced /\ Odd
  /\ sheet' = [l \in Lots |-> [sheet[l] EXCEPT !.opening = sheet[l].closing, !.received = 0, !.issued = 0]]
  /\ UNCHANGED <<today, snapshots, daily, coverage, events, built, behind, lows>>
-----------------------------------------------------------------------------
(* The stock sync. *)

Reading(l, broken) ==
  [day |-> today, opening |-> sheet[l].opening, received |-> sheet[l].received,
   issued |-> IF l \in broken THEN 0 ELSE sheet[l].issued,
   closing |-> sheet[l].closing, used |-> sheet[l].used, sound |-> l \notin broken]

\* The readings of the days before.
Earlier(l) == IF ReadToday(l) THEN Front(snapshots[l]) ELSE snapshots[l]

\* Bound: a lot is first read soundly, and no run of broken reads is longer
\* than MaxBrokenRun.
MayBreak(l) ==
  /\ Earlier(l) # <<>>
  /\ \E i \in 1 .. Len(Earlier(l)) :
       i > Len(Earlier(l)) - MaxBrokenRun /\ Earlier(l)[i].sound

\* sync_stock: today's snapshot of every lot, over one taken earlier today. A
\* blank or error cell is read as 0.
Sync(broken) ==
  /\ \A l \in broken : MayBreak(l)
  /\ IF broken = {} THEN UNCHANGED odd ELSE Odd
  /\ snapshots' = [l \in Lots |-> Append(Earlier(l), Reading(l, broken))]
  /\ behind' = (behind \/ snapshots' # snapshots)
  /\ UNCHANGED <<today, sheet, daily, coverage, events, built, lows>>
-----------------------------------------------------------------------------
(* rebuild_plant_consumption. *)

\* Mutant: the first day of the range has nothing to differ from.
ReadFrom_Since(since) == since

ReadFrom(since) == since - Anchor

\* _snapshot_points: the first reading it brings, one past the last for none.
Opens(readings, since) ==
  Min({i \in 1 .. Len(readings) : readings[i].day >= ReadFrom(since)} \cup {Len(readings) + 1})

\* That reading is a dip, or follows one: those it dips below are cut off.
OpensLow(readings, first) ==
  \E k \in 1 .. MaxBrokenRun :
    first - k >= 1 /\ readings[first - k].issued > readings[first].issued

\* What _add puts on the day for a lot: one of its intervals at most is over it.
Added(counted, day) ==
  LET over == {i \in counted : day \in DaysOf(i) /\ Allocated(i, day) > 0}
  IN  IF over = {} THEN 0 ELSE Allocated(CHOOSE i \in over : TRUE, day)

DailyOf(counted, day) == Total([l \in Lots |-> Added(counted[l], day)], LotCount)

CoveredDays(counted) == UNION {UNION {DaysOf(i) : i \in counted[l]} : l \in Lots}

\* Mutant: an event is logged only when it carries a quantity.
LoggedBy_Positive(intervals) ==
  UNION {{[lot |-> l, of |-> i] :
            i \in {j \in intervals[l] : j.kind \in Logged /\ j.quantity > 0}} : l \in Lots}

\* daily_from_points' events, with the lot as lot_ref names it.
LoggedBy(intervals) ==
  UNION {{[lot |-> l, of |-> i] : i \in {j \in intervals[l] : j.kind \in Logged}} : l \in Lots}

\* The rows from since on are deleted and written again.
Rewritten(old, new, since) == {d \in old : d < since} \cup {d \in new : d >= since}

RebuildFrom(since) ==
  \E first \in {[l \in Lots |-> Opens(snapshots[l], since)]} :
  \E intervals \in {[l \in Lots |-> Intervals(snapshots[l], first[l])]} :
  \E counted \in {[l \in Lots |-> Counted(intervals[l])]} :
    /\ daily' = [d \in Days |-> IF d < since THEN daily[d] ELSE DailyOf(counted, d)]
    /\ coverage' = Rewritten(coverage, CoveredDays(counted), since)
    /\ events' = {e \in events : e.of.end < since}
                 \cup {e \in LoggedBy(intervals) : e.of.end >= since}
    /\ built' = today
    /\ behind' = FALSE
    /\ lows' = lows \cup {l \in Lots : OpensLow(snapshots[l], first[l])}
    /\ UNCHANGED <<today, sheet, snapshots, odd>>

Rebuild == Synced /\ behind /\ RebuildFrom(today - Lookback)

NextDay ==
  /\ today < LastDay
  /\ \A l \in Lots : snapshots[l] # <<>> => today - Last(snapshots[l]).day < MaxOutage
  /\ snapshots # [l \in Lots |-> <<>>] => today - built < MaxOutage
  /\ IF Synced /\ ~behind THEN UNCHANGED odd ELSE Odd
  /\ today' = today + 1
  /\ UNCHANGED <<sheet, snapshots, daily, coverage, events, built, behind, lows>>

Next ==
  \/ \E l \in Lots, q \in Amounts : Issue(l, q) \/ Receive(l, q) \/ Restate(l, q)
  \/ NewPeriod
  \/ \E broken \in SUBSET Lots : Sync(broken)
  \/ Rebuild
  \/ NextDay

Spec == Init /\ [][Next]_vars
-----------------------------------------------------------------------------
(* Properties.                                                             *)

\* What the ledger says was used, and what was: the lots of the material from
\* their first reading to their last.
Recorded == Total(daily, LastDay)
Started == \A l \in Lots : snapshots[l] # <<>>
UsedBetween == Total([l \in Lots |-> Last(snapshots[l]).used - Head(snapshots[l]).used], LotCount)

\* The ledger never says more was used than left the sheet: through broken
\* cells, new periods, restated openings, deliveries, days without a sync, and
\* however many rebuilds have replaced a part of it (intervals_for_lot: a
\* broken read booked "the lot's whole period-to-date issues").
NeverOverstated == Started => Recorded <= UsedBetween

\* It says exactly what was used while the sheets are sound - the issue book
\* was not restarted, no lot ran empty, the last cell could be read - so no
\* day is lost or doubled where one rebuild's window ends and the rows of an
\* earlier one begin (rebuild_plant_consumption's comment at line 295).
Sound(l) ==
  /\ Last(snapshots[l]).sound
  /\ \A r \in ToSet(snapshots[l]) : r.closing > 0 /\ (r.sound => r.issued = r.used)

ExactWhenSound ==
  Started /\ ~behind /\ (\A l \in Lots : Sound(l)) => Recorded = UsedBetween

\* Every day between two readings of a lot was watched or lies in an event
\* that says why its consumption is not counted, also when the quantity is
\* zero: "without the event it leaves no trace anywhere" (daily_from_points).
\* Not of a lot whose window once opened on a dip: there the reading after the
\* dip is taken for a movement, and a close-out within the window that had an
\* event is judged again as consumption, of which only the rows inside the
\* range are written.
NoSilentDays ==
  ~behind /\ Started =>
    \A l \in Lots \ lows : \A d \in Head(snapshots[l]).day + 1 .. Last(snapshots[l]).day :
      d \in coverage \/ \E e \in events : e.lot = l /\ d \in DaysOf(e.of)
=============================================================================
