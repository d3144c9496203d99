----------------------------- MODULE SyncProofs -----------------------------
(***************************************************************************)
(* SyncPipeline, for any number of rows, workers, saves, faults and any    *)
(* time limits: a match never replaces the outcome of one that read more,  *)
(* a consumption ledger called computed rests on its own run's stock, a    *)
(* plant's pipelines run one at a time until a run outlives its key, and a *)
(* re-match is reported stopped only when none runs.                       *)
(***************************************************************************)
EXTENDS SyncPipeline, TLAPS, FiniteSetTheorems

\* A row as far as the two theorems need it typed.
Places == {"free", "queued", "running", "lost"}
Row == [kind : Kinds, at : Places, step : Nat, ran : Int, failed : BOOLEAN,
        fresh : BOOLEAN, saw : Nat]

RowOK(r) ==
  /\ r \in Row
  /\ r.step \in 1..Len(Steps(r.kind))

\* The run in the match holds the lock alone, and what it read is neither
\* behind what is stored nor ahead of what is saved.
MatchInv ==
  /\ matching \subseteq Running
  /\ \A s, t \in matching : s = t
  /\ \A t \in matching : Step(t) = "match" /\ matched <= task[t].saw /\ task[t].saw <= edits

\* A run past its sheets either wrote stock snapshots or knows that it failed to.
RowFresh(r) == r.kind # "rematch" /\ r.kind # "imports" /\ r.step > 2 => r.failed \/ r.fresh
FreshInv == (\A t \in Tasks : RowFresh(task[t])) /\ consumption # "stale"

TypeInv ==
  /\ DOMAIN task = Tasks /\ task = [t \in Tasks |-> task[t]]
  /\ \A t \in Tasks : RowOK(task[t])
  /\ edits \in Nat /\ matched \in Nat /\ matched <= edits

Inv == TypeInv /\ MatchInv /\ FreshInv

LEMMA StepsOf ==
  /\ Steps("plant") = PlantSteps /\ Steps("daily") = PlantSteps
  /\ Steps("imports") = ImportSteps /\ Steps("rematch") = <<"match">>
  /\ Len(PlantSteps) = 4 /\ Len(ImportSteps) = 2 /\ Len(<<"match">>) = 1
  /\ PlantSteps[1] = "imports_csv" /\ PlantSteps[2] = "sheets"
  /\ PlantSteps[3] = "match" /\ PlantSteps[4] = "consumption"
  /\ ImportSteps[1] = "imports_csv" /\ ImportSteps[2] = "match"
BY DEF Steps, PlantSteps, ImportSteps

LEMMA StepsLen == \A k \in Kinds : Len(Steps(k)) \in Nat \ {0}
BY StepsOf DEF Kinds

\* A row at its first step, as it is free and as it is queued.
LEMMA FreeRow == RowOK(Free) /\ RowFresh(Free) /\ Free.at = "free"
<1>1. Free \in Row
  BY DEF Row, Free, Kinds, Places
<1>2. Free.kind = "rematch" /\ Free.step = 1 /\ Free.at = "free"
  BY DEF Free
<1> QED BY <1>1, <1>2, StepsLen DEF RowOK, RowFresh, Kinds

LEMMA QueuedRow ==
  ASSUME NEW k \in Kinds
  PROVE  RowOK(Queued(k)) /\ RowFresh(Queued(k)) /\ Queued(k).at = "queued"
<1>1. Free \in Row /\ Free.step = 1
  BY FreeRow DEF RowOK, Free
<1>2. Queued(k) \in Row /\ Queued(k).kind = k /\ Queued(k).at = "queued" /\ Queued(k).step = 1
  BY <1>1 DEF Queued, Row, Places
<1> QED BY <1>2, StepsLen DEF RowOK, RowFresh

\* A row keeps what matters here when only its timing, its place or what it
\* read changes.
LEMMA SameStep ==
  ASSUME NEW r, RowOK(r), RowFresh(r), NEW s \in Row,
         s.kind = r.kind, s.step = r.step, s.failed = r.failed, s.fresh = r.fresh
  PROVE  RowOK(s) /\ RowFresh(s)
BY DEF RowOK, RowFresh

\* The end of a step: the row moves on, or is done with.
LEMMA AdvanceRow ==
  ASSUME Inv, NEW t \in Running, NEW ok \in BOOLEAN, Advance(t, ok)
  PROVE  /\ DOMAIN task' = Tasks /\ task' = [u \in Tasks |-> task'[u]]
         /\ RowOK(task'[t]) /\ RowFresh(task'[t])
         /\ \A u \in Tasks \ {t} : task'[u] = task[u]
<1> DEFINE last == task[t].step = Len(Steps(task[t].kind))
           next == task[t].step + 1
           failed == task[t].failed \/ (Step(t) = "sheets" /\ ~ok)
           fresh == task[t].fresh \/ (Step(t) = "sheets" /\ ok)
           row == [task[t] EXCEPT !.step = next, !.saw = 0,
                                  !.failed = failed, !.fresh = fresh]
<1>1. t \in Tasks /\ RowOK(task[t]) /\ RowFresh(task[t])
  BY DEF Inv, TypeInv, FreshInv, Running
<1>2. task' = [task EXCEPT ![t] = IF last THEN Free ELSE row]
  BY DEF Advance, LastStep
<1>3. next \in Nat /\ failed \in BOOLEAN /\ fresh \in BOOLEAN
  BY <1>1 DEF RowOK, Row
<1>4. /\ row \in Row /\ row.kind = task[t].kind /\ row.step = next
      /\ row.failed = failed /\ row.fresh = fresh
  <2> HIDE DEF next, failed, fresh
  <2> QED BY <1>1, <1>3 DEF RowOK, Row
<1>5. CASE last
  BY <1>1, <1>2, <1>5, FreeRow DEF Inv, TypeInv
<1>6. CASE ~last
  <2>1. RowOK(row)
    <3>1. task[t].step \in 1..Len(Steps(task[t].kind)) /\ task[t].kind \in Kinds
      BY <1>1 DEF RowOK, Row
    <3> QED BY <3>1, <1>4, <1>6, StepsLen DEF RowOK
  <2>2. RowFresh(row)
    <3>1. CASE row.kind \in {"rematch", "imports"} \/ task[t].step > 2
      BY <1>1, <1>4, <3>1 DEF RowFresh
    <3>2. CASE row.kind \notin {"rematch", "imports"} /\ task[t].step = 2
      <4>1. Step(t) = "sheets"
        BY <1>1, <1>4, <3>2, StepsOf DEF Step, RowOK, Row, Kinds
      <4> QED BY <1>4, <4>1 DEF RowFresh
    <3>3. CASE task[t].step = 1
      BY <1>4, <3>3 DEF RowFresh
    <3>4. task[t].step \in Nat \ {0}
      BY <1>1, StepsLen DEF RowOK, Row
    <3> QED BY <3>1, <3>2, <3>3, <3>4
  <2> HIDE DEF row
  <2> QED BY <1>1, <1>2, <1>6, <2>1, <2>2 DEF Inv, TypeInv
<1> QED BY <1>5, <1>6

THEOREM InitInv == Init => Inv
<1> SUFFICES ASSUME Init PROVE Inv
  OBVIOUS
<1>1. /\ task = [t \in Tasks |-> Free] /\ edits = 0 /\ matched = 0 /\ matching = {}
      /\ consumption = "failed"
  BY DEF Init
<1> QED BY <1>1, FreeRow DEF Inv, TypeInv, MatchInv, FreshInv, Running

\* Rows that change without touching a step that is under way, and nothing
\* the match reads or writes.
LEMMA QuietStep ==
  ASSUME Inv, NEW rows,
         DOMAIN rows = Tasks, rows = [t \in Tasks |-> rows[t]],
         \A t \in Tasks : RowOK(rows[t]) /\ RowFresh(rows[t]),
         \A t \in matching : /\ rows[t].at = "running" /\ rows[t].saw = task[t].saw
                            /\ rows[t].kind = task[t].kind /\ rows[t].step = task[t].step,
         task' = rows,
         matching' = matching, matched' = matched, consumption' = consumption,
         edits' \in Nat, edits' >= edits
  PROVE  Inv'
<1>1. TypeInv'
  BY DEF Inv, TypeInv
<1>2. FreshInv'
  BY DEF Inv, FreshInv
<1>3. MatchInv'
  <2>1. \A t \in matching : t \in Tasks /\ Step(t)' = Step(t) /\ task[t].saw \in Nat
    BY DEF Inv, MatchInv, TypeInv, Running, Step, RowOK, Row
  <2>2. matching \subseteq Running'
    BY <2>1 DEF Running
  <2> QED BY <2>1, <2>2 DEF Inv, MatchInv, TypeInv
<1> QED BY <1>1, <1>2, <1>3 DEF Inv

LEMMA Typed ==
  ASSUME Inv
  PROVE  /\ \A t \in Tasks : RowOK(task[t]) /\ RowFresh(task[t]) /\ task[t] \in Row
         /\ \A t \in matching : t \in Tasks /\ task[t].at = "running"
         /\ edits \in Nat /\ matched \in Nat
BY DEF Inv, TypeInv, FreshInv, MatchInv, RowOK, Running

\* A row set aside and queued: none of the runs in the match is touched.
LEMMA Enqueued ==
  ASSUME Inv, NEW t \in Tasks, task[t].at # "running", NEW kind \in Kinds,
         task' = [task EXCEPT ![t] = Queued(kind)],
         matching' = matching, matched' = matched, consumption' = consumption,
         edits' \in Nat, edits' >= edits
  PROVE  Inv'
<1> DEFINE rows == [task EXCEPT ![t] = Queued(kind)]
<1>1. DOMAIN rows = Tasks /\ rows = [u \in Tasks |-> rows[u]]
  BY DEF Inv, TypeInv
<1>2. \A u \in Tasks : RowOK(rows[u]) /\ RowFresh(rows[u])
  BY Typed, QueuedRow DEF Inv, TypeInv
<1>3. \A u \in matching : rows[u] = task[u] /\ rows[u].at = "running"
  BY Typed DEF Inv, TypeInv
<1> HIDE DEF rows
<1> QED BY <1>1, <1>2, <1>3, QuietStep DEF rows

\* The same rows, or one of them with its timing changed.
LEMMA Unmoved ==
  ASSUME Inv, UNCHANGED <<task, matching, matched, consumption>>, edits' \in Nat, edits' >= edits
  PROVE  Inv'
BY QuietStep, Typed DEF Inv, TypeInv

LEMMA PickUpInv ==
  ASSUME Inv, NEW t \in Tasks, PickUp(t)
  PROVE  Inv'
<1> DEFINE row == [task[t] EXCEPT !.at = "running", !.ran = 0]
           rows == Started(t)
<1>1. task[t] \in Row /\ RowOK(task[t]) /\ RowFresh(task[t])
  BY Typed
<1>2. /\ row \in Row /\ row.kind = task[t].kind /\ row.step = task[t].step
      /\ row.failed = task[t].failed /\ row.fresh = task[t].fresh
  <2>1. row \in Row
    <3>1. "running" \in Places /\ 0 \in Int
      BY DEF Places
    <3> QED BY <1>1, <3>1 DEF Row
  <2> QED BY <1>1, <2>1 DEF Row
<1>3. RowOK(row) /\ RowFresh(row)
  <2> HIDE DEF row
  <2> QED BY <1>1, <1>2, SameStep
<1>4. rows = [task EXCEPT ![t] = row]
  BY <1>1 DEF Started, Inv, TypeInv
<1>5. DOMAIN rows = Tasks /\ rows = [u \in Tasks |-> rows[u]]
  BY <1>4 DEF Inv, TypeInv
<1>6. \A u \in Tasks : RowOK(rows[u]) /\ RowFresh(rows[u])
  <2> HIDE DEF row, rows
  <2> QED BY <1>3, <1>4, Typed DEF Inv, TypeInv
<1>7. \A u \in matching : rows[u] = task[u] /\ rows[u].at = "running"
  <2>1. task[t].at = "queued"
    BY DEF PickUp
  <2> HIDE DEF row, rows
  <2> QED BY <1>4, <2>1, Typed DEF Inv, TypeInv
<1>8. UNCHANGED <<matching, matched, consumption, edits>>
  BY DEF PickUp
<1>9. CASE task' = rows
  <2> HIDE DEF row, rows
  <2> QED BY <1>5, <1>6, <1>7, <1>8, <1>9, Typed, QuietStep
<1>10. CASE task' = [task EXCEPT ![t] = Free]
  <2> DEFINE freed == [task EXCEPT ![t] = Free]
  <2>1. DOMAIN freed = Tasks /\ freed = [u \in Tasks |-> freed[u]]
    BY DEF Inv, TypeInv
  <2>2. \A u \in Tasks : RowOK(freed[u]) /\ RowFresh(freed[u])
    BY Typed, FreeRow DEF Inv, TypeInv
  <2>3. \A u \in matching : freed[u] = task[u] /\ freed[u].at = "running"
    BY Typed DEF PickUp, Inv, TypeInv
  <2> HIDE DEF freed
  <2> QED BY <2>1, <2>2, <2>3, <1>8, <1>10, Typed, QuietStep DEF freed
<1> QED BY <1>9, <1>10 DEF PickUp

LEMMA EndStepInv ==
  ASSUME Inv, NEW t \in Tasks, EndStep(t)
  PROVE  Inv'
<1>1. PICK ok \in BOOLEAN : Advance(t, ok) /\ (Step(t) = "consumption" =>
                             consumption' \in {"failed"} \cup (IF Gated(t) THEN {} ELSE
                               {IF task[t].fresh THEN "fresh" ELSE "stale"}))
                          /\ (Step(t) # "consumption" => consumption' = consumption)
  BY DEF EndStep, Outcomes
<1>2. t \in Running /\ Step(t) # "match" /\ UNCHANGED <<matching, matched, edits>>
  BY DEF EndStep
<1>3. t \notin matching
  BY <1>2 DEF Inv, MatchInv
<1>4. /\ DOMAIN task' = Tasks /\ task' = [u \in Tasks |-> task'[u]]
      /\ RowOK(task'[t]) /\ RowFresh(task'[t])
      /\ \A u \in Tasks \ {t} : task'[u] = task[u]
  BY <1>1, <1>2, AdvanceRow
<1>5. TypeInv'
  BY <1>2, <1>4 DEF Inv, TypeInv
<1>6. consumption' # "stale"
  <2>1. CASE Step(t) # "consumption"
    BY <1>1, <2>1 DEF Inv, FreshInv
  <2>2. CASE Step(t) = "consumption"
    <3>1. task[t].failed \/ task[t].fresh
      <4>1. RowOK(task[t]) /\ RowFresh(task[t]) /\ task[t] \in Row
        BY Typed
      <4>2. task[t].step \in 1..Len(Steps(task[t].kind)) /\ task[t].kind \in Kinds
        BY <4>1 DEF RowOK, Row
      <4>3. task[t].kind # "imports"
        BY <2>2, <4>2, StepsOf DEF Step
      <4>4. task[t].kind # "rematch"
        BY <2>2, <4>2, StepsOf DEF Step, Steps
      <4>5. task[t].step > 2
        BY <2>2, <4>2, <4>3, <4>4, StepsOf DEF Step, Kinds
      <4> QED BY <4>1, <4>3, <4>4, <4>5 DEF RowFresh
    <3> QED BY <1>1, <2>2, <3>1 DEF Gated
  <2> QED BY <2>1, <2>2
<1>7. FreshInv'
  BY <1>4, <1>6, Typed DEF FreshInv
<1>8. MatchInv'
  BY <1>2, <1>3, <1>4, Typed DEF Inv, MatchInv, Running, Step
<1> QED BY <1>5, <1>7, <1>8 DEF Inv

LEMMA MatchReadInv ==
  ASSUME Inv, NEW t \in Tasks, MatchRead(t)
  PROVE  Inv'
<1> DEFINE row == [task[t] EXCEPT !.saw = edits]
<1>1. task[t] \in Row /\ RowOK(task[t]) /\ RowFresh(task[t]) /\ edits \in Nat /\ matched \in Nat
  BY Typed
<1>2. /\ row \in Row /\ row.kind = task[t].kind /\ row.step = task[t].step /\ row.at = task[t].at
      /\ row.failed = task[t].failed /\ row.fresh = task[t].fresh /\ row.saw = edits
  BY <1>1 DEF Row
<1>3. RowOK(row) /\ RowFresh(row)
  <2> HIDE DEF row
  <2> QED BY <1>1, <1>2, SameStep
<1>4. /\ task' = [task EXCEPT ![t] = row] /\ matching = {} /\ matching' = {t}
      /\ task[t].at = "running" /\ Step(t) = "match"
      /\ UNCHANGED <<matched, edits, consumption>>
  <2>1. task' = [task EXCEPT ![t] = row]
    BY DEF MatchRead, Inv, TypeInv
  <2> QED BY <2>1 DEF MatchRead, MayMatch, Running
<1> HIDE DEF row
<1>5. DOMAIN task' = Tasks /\ task' = [u \in Tasks |-> task'[u]] /\ task'[t] = row
      /\ \A u \in Tasks \ {t} : task'[u] = task[u]
  BY <1>4 DEF Inv, TypeInv
<1>6. TypeInv'
  BY <1>3, <1>4, <1>5, Typed DEF Inv, TypeInv
<1>7. FreshInv'
  BY <1>3, <1>4, <1>5, Typed DEF Inv, FreshInv
<1>8. MatchInv'
  <2>1. Step(t)' = "match" /\ t \in Running'
    BY <1>2, <1>4, <1>5 DEF Step, Running
  <2>2. matched <= edits
    BY DEF Inv, TypeInv
  <2> QED BY <1>1, <1>2, <1>4, <1>5, <2>1, <2>2 DEF MatchInv
<1> QED BY <1>6, <1>7, <1>8 DEF Inv

\* The end of the match: nobody is left inside.
LEMMA MatchEndInv ==
  ASSUME Inv, NEW t \in Tasks, MatchEnd(t)
  PROVE  Inv' /\ matched' >= matched
<1>1. PICK ok \in BOOLEAN : Advance(t, ok) /\ matched' = IF ok THEN task[t].saw ELSE matched
  BY DEF MatchEnd, Outcomes
<1>2. /\ t \in matching /\ t \in Running /\ matching' = matching \ {t}
      /\ UNCHANGED <<edits, consumption>>
  BY DEF MatchEnd, Inv, MatchInv
<1>3. matching' = {}
  BY <1>2 DEF Inv, MatchInv
<1>4. matched <= task[t].saw /\ task[t].saw <= edits /\ task[t].saw \in Nat /\ matched \in Nat
  BY <1>2, Typed DEF Inv, MatchInv, Row
<1>5. matched' \in Nat /\ matched' <= edits' /\ matched' >= matched
  BY <1>1, <1>2, <1>4 DEF Inv, TypeInv
<1>6. /\ DOMAIN task' = Tasks /\ task' = [u \in Tasks |-> task'[u]]
      /\ RowOK(task'[t]) /\ RowFresh(task'[t])
      /\ \A u \in Tasks \ {t} : task'[u] = task[u]
  BY <1>1, <1>2, AdvanceRow
<1>7. TypeInv'
  BY <1>2, <1>5, <1>6, Typed DEF Inv, TypeInv
<1>8. FreshInv'
  BY <1>2, <1>6, Typed DEF Inv, FreshInv
<1>9. MatchInv'
  BY <1>3 DEF MatchInv
<1> QED BY <1>5, <1>7, <1>8, <1>9 DEF Inv

LEMMA DieInv ==
  ASSUME Inv, NEW t \in Tasks, Die(t)
  PROVE  Inv'
<1> DEFINE row == [task[t] EXCEPT !.at = "lost"]
<1>1. task[t] \in Row /\ RowOK(task[t]) /\ RowFresh(task[t])
  BY Typed
<1>2. /\ row \in Row /\ row.kind = task[t].kind /\ row.step = task[t].step
      /\ row.failed = task[t].failed /\ row.fresh = task[t].fresh
  BY <1>1 DEF Row, Places
<1>3. RowOK(row) /\ RowFresh(row)
  <2> HIDE DEF row
  <2> QED BY <1>1, <1>2, SameStep
<1>4. /\ task' = [task EXCEPT ![t] = row] /\ matching' = matching \ {t}
      /\ UNCHANGED <<matched, edits, consumption>>
  BY DEF Die, Inv, TypeInv
<1> HIDE DEF row
<1>5. DOMAIN task' = Tasks /\ task' = [u \in Tasks |-> task'[u]] /\ task'[t] = row
      /\ \A u \in Tasks \ {t} : task'[u] = task[u]
  BY <1>4 DEF Inv, TypeInv
<1>6. TypeInv'
  BY <1>3, <1>4, <1>5, Typed DEF Inv, TypeInv
<1>7. FreshInv'
  BY <1>3, <1>4, <1>5, Typed DEF Inv, FreshInv
<1>8. MatchInv'
  BY <1>4, <1>5, Typed DEF Inv, MatchInv, Step, Running
<1> QED BY <1>6, <1>7, <1>8 DEF Inv

LEMMA TickInv ==
  ASSUME Inv, SyncAssumption, Tick
  PROVE  Inv'
<1> DEFINE older(r) == [r EXCEPT !.ran = Capped(@, Retry)]
           rows == [u \in Tasks |-> IF task[u].at \in {"running", "lost"}
                                    THEN [task[u] EXCEPT !.ran = Capped(@, Retry)] ELSE task[u]]
<1>1. ASSUME NEW u \in Tasks
      PROVE  /\ RowOK(rows[u]) /\ RowFresh(rows[u]) /\ rows[u].at = task[u].at
             /\ rows[u].saw = task[u].saw /\ rows[u].kind = task[u].kind
             /\ rows[u].step = task[u].step
  <2> DEFINE n == Capped(task[u].ran, Retry)
             row == [task[u] EXCEPT !.ran = n]
  <2>1. task[u] \in Row /\ RowOK(task[u]) /\ RowFresh(task[u])
    BY Typed
  <2>2. n \in Int
    BY <2>1, SyncAssumption DEF Capped, Row, SyncAssumption
  <2>3. /\ row \in Row /\ row.kind = task[u].kind /\ row.step = task[u].step
        /\ row.failed = task[u].failed /\ row.fresh = task[u].fresh
        /\ row.at = task[u].at /\ row.saw = task[u].saw
    <3> HIDE DEF n
    <3> QED BY <2>1, <2>2 DEF Row
  <2>4. rows[u] = row \/ rows[u] = task[u]
    OBVIOUS
  <2> HIDE DEF row
  <2>5. RowOK(row) /\ RowFresh(row)
    BY <2>1, <2>3, SameStep
  <2> QED BY <2>1, <2>3, <2>4, <2>5
<1>2. task' = rows /\ UNCHANGED <<edits, matching, matched, consumption>>
  BY DEF Tick
<1>3. DOMAIN rows = Tasks /\ rows = [u \in Tasks |-> rows[u]]
  OBVIOUS
<1> HIDE DEF rows
<1> QED BY <1>1, <1>2, <1>3, Typed, QuietStep

LEMMA TriggerInv ==
  ASSUME Inv, NEW t \in Tasks, NEW kind \in {"plant", "imports"}, Trigger(t, kind)
  PROVE  Inv'
<1>1. /\ task[t].at # "running" /\ task' = [task EXCEPT ![t] = Queued(kind)]
      /\ UNCHANGED <<edits, matching, matched, consumption>>
  BY DEF Trigger, Enqueue
<1>2. kind \in Kinds
  BY DEF Kinds
<1>3. edits' \in Nat /\ edits' >= edits
  BY <1>1, Typed
<1> QED BY <1>1, <1>2, <1>3, Enqueued

LEMMA StepInv == Inv /\ SyncAssumption /\ [Next]_vars => Inv' /\ matched' >= matched
<1> SUFFICES ASSUME Inv, SyncAssumption, [Next]_vars PROVE Inv' /\ matched' >= matched
  OBVIOUS
<1>0. matched' = matched => matched' >= matched
  BY Typed
<1>1. CASE UNCHANGED vars
  <2>1. UNCHANGED <<task, matching, matched, consumption, edits>>
    BY <1>1 DEF vars
  <2> QED BY <1>0, <2>1, Typed, Unmoved
<1>2. ASSUME NEW t \in Tasks, NEW kind \in {"plant", "imports"}, Trigger(t, kind)
      PROVE  Inv' /\ matched' >= matched
  <2>1. matched' = matched
    BY <1>2 DEF Trigger
  <2> QED BY <1>0, <1>2, <2>1, TriggerInv
<1>3. ASSUME NEW t \in Tasks, Schedule(t) PROVE Inv' /\ matched' >= matched
  <2>1. /\ task' = [task EXCEPT ![t] = Queued("daily")] /\ task[t].at # "running"
        /\ UNCHANGED <<matching, matched, consumption, edits>>
    BY <1>3 DEF Schedule, Enqueue
  <2>2. "daily" \in Kinds
    BY DEF Kinds
  <2>3. matching' = matching /\ matched' = matched /\ consumption' = consumption
        /\ edits' \in Nat /\ edits' >= edits
    BY <2>1, Typed
  <2>4. Inv'
    BY <2>1, <2>2, <2>3, Enqueued
  <2> QED BY <1>0, <2>3, <2>4
<1>4. CASE Save
  <2>1. UNCHANGED <<task, matching, matched, consumption>> /\ edits' = edits + 1
    BY <1>4 DEF Save
  <2> QED BY <1>0, <2>1, Typed, Unmoved
<1>5. ASSUME NEW t \in Tasks, RequestRematch(t) PROVE Inv' /\ matched' >= matched
  <2>1. UNCHANGED <<matching, matched, consumption, edits>>
    BY <1>5 DEF RequestRematch
  <2>2. CASE UNCHANGED task
    BY <1>0, <2>1, <2>2, Typed, Unmoved
  <2>3. CASE Enqueue(t, "rematch")
    <3>1. task' = [task EXCEPT ![t] = Queued("rematch")] /\ task[t].at # "running"
      BY <2>3 DEF Enqueue
    <3>2. "rematch" \in Kinds
      BY DEF Kinds
    <3>3. matching' = matching /\ matched' = matched /\ consumption' = consumption
          /\ edits' \in Nat /\ edits' >= edits
      BY <2>1, Typed
    <3>4. Inv'
      BY <3>1, <3>2, <3>3, Enqueued
    <3> QED BY <1>0, <3>3, <3>4
  <2> QED BY <1>5, <2>2, <2>3 DEF RequestRematch
<1>6. ASSUME NEW t \in Tasks, PickUp(t) PROVE Inv' /\ matched' >= matched
  <2>1. matched' = matched
    BY <1>6 DEF PickUp
  <2> QED BY <1>0, <1>6, <2>1, PickUpInv
<1>7. ASSUME NEW t \in Tasks, EndStep(t) PROVE Inv' /\ matched' >= matched
  <2>1. matched' = matched
    BY <1>7 DEF EndStep
  <2> QED BY <1>0, <1>7, <2>1, EndStepInv
<1>8. ASSUME NEW t \in Tasks, MatchRead(t) PROVE Inv' /\ matched' >= matched
  <2>1. matched' = matched
    BY <1>8 DEF MatchRead
  <2> QED BY <1>0, <1>8, <2>1, MatchReadInv
<1>9. ASSUME NEW t \in Tasks, MatchEnd(t) PROVE Inv' /\ matched' >= matched
  BY <1>9, MatchEndInv
<1>10. ASSUME NEW t \in Tasks, Die(t) PROVE Inv' /\ matched' >= matched
  <2>1. matched' = matched
    BY <1>10 DEF Die
  <2> QED BY <1>0, <1>10, <2>1, DieInv
<1>11. ASSUME NEW t \in Tasks, Redeliver(t) PROVE Inv' /\ matched' >= matched
  <2>1. /\ task' = [task EXCEPT ![t] = Queued(task[t].kind)] /\ task[t].at # "running"
        /\ UNCHANGED <<matching, matched, consumption, edits>>
    BY <1>11 DEF Redeliver
  <2>2. task[t].kind \in Kinds
    BY Typed DEF Row
  <2>3. matching' = matching /\ matched' = matched /\ consumption' = consumption
        /\ edits' \in Nat /\ edits' >= edits
    BY <2>1, Typed
  <2>4. Inv'
    BY <2>1, <2>2, <2>3, Enqueued
  <2> QED BY <1>0, <2>3, <2>4
<1>12. CASE Tick
  <2>1. matched' = matched
    BY <1>12 DEF Tick
  <2> QED BY <1>0, <1>12, <2>1, TickInv
<1> QED BY <1>1, <1>2, <1>3, <1>4, <1>5, <1>6, <1>7, <1>8, <1>9, <1>10, <1>11, <1>12 DEF Next

\* A match of the plant never puts back what an older reading found
\* (run_full_match's advisory lock covers the reading and the writing).
THEOREM MatchesInOrder == Spec => MatchNeverRegresses
<1>1. Spec => []Inv
  BY InitInv, StepInv, SyncAssumption, PTL DEF Spec
<1>2. Inv /\ SyncAssumption /\ [Next]_vars => [matched' >= matched]_vars
  BY StepInv
<1> QED BY <1>1, <1>2, SyncAssumption, PTL DEF Spec, MatchNeverRegresses

\* A computed consumption ledger follows a stock sync of its own run
\* (_STEP_PREREQUISITES, across failures, lost workers and redelivery).
THEOREM ConsumptionIsFresh == Spec => []FreshConsumption
<1>1. Spec => []Inv
  BY InitInv, StepInv, SyncAssumption, PTL DEF Spec
<1>2. Inv => FreshConsumption
  BY DEF Inv, FreshInv, FreshConsumption
<1> QED BY <1>1, <1>2, PTL

-----------------------------------------------------------------------------
(* The keys and the clocks. Both invariants are about one row at a time: a *)
(* step changes one row, or only the clocks.                               *)

LockKeys == {"plant", "imports"}

\* Until some run outlives its key or is delivered twice, a key that a row
\* took is still there, and no second row took it.
KeyInv ==
  /\ lock \in [LockKeys -> Nat]
  /\ overran \in BOOLEAN
  /\ ~overran => \A k \in LockKeys, s \in Tasks :
                   HoldsKey(s, k) => lock[k] > 0 /\ \A t \in Tasks : HoldsKey(t, k) => s = t

\* A live run is no older than the timeout, and the result key called
\* "running" no older than any re-match that runs.
AgeInv ==
  /\ result \in [state : {"idle", "running", "done", "failed"}, ran : Nat]
  /\ \A t \in Running : task[t].ran \in 0..TaskTimeout
  /\ \A t \in Running :
       task[t].kind = "rematch" /\ result.state = "running" => result.ran <= task[t].ran

LEMMA KeyInit == Init => KeyInv
<1> SUFFICES ASSUME Init PROVE KeyInv
  OBVIOUS
<1>1. \A t \in Tasks : task[t] = Free
  BY DEF Init
<1>2. \A t \in Tasks, k \in LockKeys : ~HoldsKey(t, k)
  BY <1>1, FreeRow DEF HoldsKey
<1>3. lock \in [LockKeys -> Nat] /\ overran = FALSE
  BY DEF Init, LockKeys
<1> QED BY <1>2, <1>3 DEF KeyInv

LEMMA AgeInit == Init => AgeInv
<1> SUFFICES ASSUME Init PROVE AgeInv
  OBVIOUS
<1>1. \A t \in Tasks : task[t] = Free
  BY DEF Init
<1>2. Running = {}
  BY <1>1, FreeRow DEF Running
<1> QED BY <1>2 DEF Init, AgeInv

\* One row changes. It takes only a key that is free, and a key is given back
\* only by the row that held it.
LEMMA KeyStep ==
  ASSUME KeyInv, NEW t \in Tasks, \A u \in Tasks \ {t} : task'[u] = task[u],
         lock' \in [LockKeys -> Nat], overran' = overran,
         \A k \in LockKeys : HoldsKey(t, k)' => \/ lock'[k] > 0 /\ (HoldsKey(t, k) \/ lock[k] = 0)
                                                \/ lock'[k] = lock[k] /\ HoldsKey(t, k),
         \A k \in LockKeys : lock'[k] = lock[k] \/ lock'[k] > 0 \/ HoldsKey(t, k)
  PROVE  KeyInv'
<1>1. \A u \in Tasks \ {t}, k \in LockKeys : HoldsKey(u, k)' <=> HoldsKey(u, k)
  BY DEF HoldsKey
<1>2. SUFFICES ASSUME ~overran, NEW k \in LockKeys, NEW s \in Tasks, HoldsKey(s, k)'
               PROVE  lock'[k] > 0 /\ \A u \in Tasks : HoldsKey(u, k)' => s = u
  BY DEF KeyInv
<1>3. \A u \in Tasks : HoldsKey(u, k) => lock[k] > 0 /\ \A v \in Tasks : HoldsKey(v, k) => u = v
  BY <1>2 DEF KeyInv
<1>4. lock[k] \in Nat /\ lock'[k] \in Nat
  BY DEF KeyInv
<1>5. \A u \in Tasks : HoldsKey(u, k)' => lock'[k] > 0
  BY <1>1, <1>3, <1>4
<1>6. ASSUME NEW u \in Tasks \ {t}, HoldsKey(u, k)'
      PROVE  ~HoldsKey(t, k)'
  BY <1>1, <1>3, <1>4, <1>6
<1>7. ASSUME NEW u \in Tasks, HoldsKey(u, k)'
      PROVE  s = u
  BY <1>1, <1>2, <1>3, <1>6, <1>7
<1> QED BY <1>2, <1>5, <1>7

LEMMA KeyLost ==
  ASSUME KeyInv, lock' = lock, overran' = TRUE
  PROVE  KeyInv'
BY DEF KeyInv

\* One row changes, and the result key only to "running" from now on.
LEMMA AgeStep ==
  ASSUME AgeInv, NEW t \in Tasks, \A u \in Tasks \ {t} : task'[u] = task[u],
         result' \in [state : {"idle", "running", "done", "failed"}, ran : Nat],
         result' = result \/ result'.state # "running" \/ result'.ran = 0,
         t \in Running' => /\ task'[t].ran \in 0..TaskTimeout
                           /\ task'[t].kind = "rematch" /\ result'.state = "running"
                                => result'.ran <= task'[t].ran
  PROVE  AgeInv'
<1>1. ASSUME NEW u \in Running' \ {t}
      PROVE  /\ u \in Running /\ task'[u] = task[u]
             /\ task'[u].ran \in 0..TaskTimeout
             /\ task'[u].kind = "rematch" /\ result'.state = "running" => result'.ran <= task'[u].ran
  <2>1. u \in Running /\ task'[u] = task[u]
    BY DEF Running
  <2> QED BY <2>1 DEF AgeInv
<1> QED BY <1>1 DEF AgeInv

\* A row set aside is free, and queued it runs nothing.
LEMMA EnqueuedRow ==
  ASSUME Inv, NEW t \in Tasks, NEW kind \in Kinds, task' = [task EXCEPT ![t] = Queued(kind)]
  PROVE  /\ \A u \in Tasks \ {t} : task'[u] = task[u]
         /\ task'[t].at = "queued" /\ task'[t].kind = kind /\ t \notin Running'
<1>1. task'[t] = Queued(kind) /\ \A u \in Tasks \ {t} : task'[u] = task[u]
  BY DEF Inv, TypeInv
<1>2. Queued(kind).at = "queued" /\ Queued(kind).kind = kind
  <2>1. Free \in Row
    BY FreeRow DEF RowOK
  <2> QED BY <2>1, QueuedRow DEF Queued, Row
<1> QED BY <1>1, <1>2 DEF Running

LEMMA TriggerKeys ==
  ASSUME Inv, KeyInv, AgeInv, SyncAssumption, NEW t \in Tasks, NEW kind \in {"plant", "imports"},
         Trigger(t, kind)
  PROVE  KeyInv' /\ AgeInv'
<1>1. kind \in Kinds /\ KeyOf(kind) \in LockKeys /\ LockTTL \in Nat \ {0}
  BY DEF Kinds, KeyOf, LockKeys, SyncAssumption
<1>2. /\ lock[KeyOf(kind)] = 0 /\ lock' = [lock EXCEPT ![KeyOf(kind)] = LockTTL]
      /\ task' = [task EXCEPT ![t] = Queued(kind)]
      /\ UNCHANGED <<overran, result>>
  BY DEF Trigger, CanTake, Taken, Enqueue
<1>3. /\ \A u \in Tasks \ {t} : task'[u] = task[u]
      /\ task'[t].at = "queued" /\ task'[t].kind = kind /\ t \notin Running'
  BY <1>1, <1>2, EnqueuedRow
<1>4. /\ lock' \in [LockKeys -> Nat] /\ lock'[KeyOf(kind)] > 0
      /\ \A k \in LockKeys \ {KeyOf(kind)} : lock'[k] = lock[k]
  BY <1>1, <1>2 DEF KeyInv
<1>5. \A k \in LockKeys : HoldsKey(t, k)' => k = KeyOf(kind)
  BY <1>3 DEF HoldsKey
<1>6. KeyInv'
  <2>1. \A k \in LockKeys : HoldsKey(t, k)' => lock'[k] > 0 /\ lock[k] = 0
    BY <1>2, <1>4, <1>5
  <2>2. \A k \in LockKeys : lock'[k] = lock[k] \/ lock'[k] > 0
    BY <1>4
  <2>3. \A k \in LockKeys :
          HoldsKey(t, k)' => \/ lock'[k] > 0 /\ (HoldsKey(t, k) \/ lock[k] = 0)
                             \/ lock'[k] = lock[k] /\ HoldsKey(t, k)
    BY <2>1
  <2> QED BY <1>2, <1>3, <1>4, <2>2, <2>3, KeyStep
<1>7. AgeInv'
  BY <1>2, <1>3, AgeStep DEF AgeInv
<1> QED BY <1>6, <1>7

\* A row of a kind that takes no key when it is queued.
LEMMA QueuedKeys ==
  ASSUME Inv, KeyInv, AgeInv, NEW t \in Tasks, NEW kind \in {"daily", "rematch"},
         task' = [task EXCEPT ![t] = Queued(kind)], UNCHANGED <<lock, overran, result>>
  PROVE  KeyInv' /\ AgeInv'
<1>1. kind \in Kinds
  BY DEF Kinds
<1>2. /\ \A u \in Tasks \ {t} : task'[u] = task[u]
      /\ task'[t].at = "queued" /\ task'[t].kind = kind /\ t \notin Running'
  BY <1>1, EnqueuedRow
<1>3. \A k \in LockKeys : ~HoldsKey(t, k)'
  BY <1>2 DEF HoldsKey
<1>4. lock' \in [LockKeys -> Nat] /\ lock' = lock
  BY DEF KeyInv
<1>5. KeyInv'
  BY <1>2, <1>3, <1>4, KeyStep
<1>6. AgeInv'
  BY <1>2, AgeStep DEF AgeInv
<1> QED BY <1>5, <1>6

LEMMA PickUpKeys ==
  ASSUME Inv, KeyInv, AgeInv, SyncAssumption, NEW t \in Tasks, PickUp(t)
  PROVE  KeyInv' /\ AgeInv'
<1>1. task[t] \in Row /\ task[t].kind \in Kinds /\ task[t].at = "queued"
  BY Typed DEF Row, PickUp
<1>2. LockTTL \in Nat \ {0} /\ TaskTimeout \in Nat \ {0} /\ "plant" \in LockKeys
  BY DEF SyncAssumption, LockKeys
<1>3. /\ result' \in [state : {"idle", "running", "done", "failed"}, ran : Nat]
      /\ result' = result \/ result'.ran = 0
      /\ task[t].kind = "rematch" => result'.ran = 0
      /\ overran' = overran
  BY DEF PickUp, AgeInv
<1>4. CASE task' = Started(t)
  <2>1. /\ \A u \in Tasks \ {t} : task'[u] = task[u]
        /\ task'[t].at = "running" /\ task'[t].ran = 0 /\ task'[t].kind = task[t].kind
    BY <1>1, <1>4 DEF Started, Inv, TypeInv, Row
  <2>2. AgeInv'
    BY <1>2, <1>3, <2>1, AgeStep
  <2>3. CASE task[t].kind = "daily" /\ CanTake("plant") /\ Taken("plant")
    <3>1. /\ lock["plant"] = 0 /\ lock'["plant"] > 0 /\ lock' \in [LockKeys -> Nat]
          /\ \A k \in LockKeys \ {"plant"} : lock'[k] = lock[k]
      BY <1>2, <2>3 DEF CanTake, Taken, KeyInv
    <3>2. \A k \in LockKeys : HoldsKey(t, k)' => k = "plant"
      BY <2>1, <2>3 DEF HoldsKey, KeyOf
    <3>3. \A k \in LockKeys : HoldsKey(t, k)' => lock'[k] > 0 /\ lock[k] = 0
      BY <3>1, <3>2
    <3>4. \A k \in LockKeys : lock'[k] = lock[k] \/ lock'[k] > 0
      BY <3>1
    <3>5. \A k \in LockKeys :
            HoldsKey(t, k)' => \/ lock'[k] > 0 /\ (HoldsKey(t, k) \/ lock[k] = 0)
                               \/ lock'[k] = lock[k] /\ HoldsKey(t, k)
      BY <3>3
    <3>6. KeyInv'
      BY <1>3, <2>1, <3>1, <3>4, <3>5, KeyStep
    <3> QED BY <2>2, <3>6
  <2>4. CASE task[t].kind # "daily" /\ lock' = lock
    <3>1. \A k \in LockKeys : HoldsKey(t, k)' => HoldsKey(t, k)
      BY <1>1, <2>1, <2>4 DEF HoldsKey
    <3>2. lock' \in [LockKeys -> Nat] /\ lock' = lock
      BY <2>4 DEF KeyInv
    <3>3. KeyInv'
      BY <1>3, <2>1, <3>1, <3>2, KeyStep
    <3> QED BY <2>2, <3>3
  <2>5. CASE task[t].kind = "daily" /\ task' = [task EXCEPT ![t] = Free]
    <3>1. task'[t] = Free /\ Free.at = "free"
      BY <2>5, FreeRow DEF Inv, TypeInv
    <3> QED BY <2>1, <3>1
  <2> QED BY <1>4, <2>3, <2>4, <2>5 DEF PickUp
<1>5. CASE task' = [task EXCEPT ![t] = Free] /\ lock' = lock
  <2>1. /\ \A u \in Tasks \ {t} : task'[u] = task[u]
        /\ task'[t].at = "free"
    BY <1>5, FreeRow DEF Inv, TypeInv
  <2>2. t \notin Running' /\ \A k \in LockKeys : ~HoldsKey(t, k)'
    BY <2>1 DEF HoldsKey, Running
  <2>3. lock' \in [LockKeys -> Nat] /\ lock' = lock
    BY <1>5 DEF KeyInv
  <2>4. KeyInv'
    BY <1>3, <2>1, <2>2, <2>3, KeyStep
  <2>5. AgeInv'
    BY <1>3, <2>1, <2>2, AgeStep
  <2> QED BY <2>4, <2>5
<1> QED BY <1>4, <1>5 DEF PickUp

\* The end of a step: the row moves on and keeps its key, or is done with and
\* gives it back - its own, as long as nothing has overrun.
LEMMA AdvanceKeys ==
  ASSUME Inv, KeyInv, AgeInv, NEW t \in Running, NEW ok \in BOOLEAN, Advance(t, ok),
         overran' = overran,
         result' \in [state : {"idle", "running", "done", "failed"}, ran : Nat],
         result' = result \/ result'.state # "running"
  PROVE  KeyInv' /\ AgeInv'
<1> DEFINE row == [task[t] EXCEPT !.step = @ + 1, !.saw = 0,
                              !.failed = @ \/ (Step(t) = "sheets" /\ ~ok),
                              !.fresh = @ \/ (Step(t) = "sheets" /\ ok)]
           key == KeyOf(task[t].kind)
<1>1. task[t] \in Row /\ task[t].kind \in Kinds /\ task[t].at = "running" /\ t \in Tasks
  BY Typed DEF Row, Running
<1>2. row.at = "running" /\ row.kind = task[t].kind /\ row.ran = task[t].ran
  BY <1>1 DEF Row
<1>3. task[t].ran \in 0..TaskTimeout
      /\ (task[t].kind = "rematch" /\ result.state = "running" => result.ran <= task[t].ran)
  BY DEF AgeInv
<1>4. key \in LockKeys
  BY DEF KeyOf, LockKeys
<1>5. task' = [task EXCEPT ![t] = IF LastStep(t) THEN Free ELSE row]
  BY DEF Advance
<1>6. lock' = IF LastStep(t) /\ task[t].kind # "rematch" THEN [lock EXCEPT ![key] = 0] ELSE lock
  BY DEF Advance
<1>7. lock' \in [LockKeys -> Nat]
  BY <1>4, <1>6 DEF KeyInv
<1> HIDE DEF row, key
<1>8. CASE LastStep(t)
  <2>1. (\A u \in Tasks \ {t} : task'[u] = task[u]) /\ task'[t].at = "free"
    BY <1>1, <1>5, <1>8, FreeRow DEF Inv, TypeInv
  <2>2. t \notin Running' /\ \A k \in LockKeys : ~HoldsKey(t, k)'
    BY <2>1 DEF HoldsKey, Running
  <2>3. \A k \in LockKeys : lock'[k] = lock[k] \/ HoldsKey(t, k)
    <3>1. CASE task[t].kind = "rematch"
      BY <1>6, <3>1
    <3>2. CASE task[t].kind # "rematch"
      <4>1. HoldsKey(t, key)
        BY <1>1, <3>2 DEF HoldsKey, key
      <4>2. \A k \in LockKeys \ {key} : lock'[k] = lock[k]
        BY <1>6, <1>8, <3>2 DEF KeyInv
      <4> QED BY <4>1, <4>2
    <3> QED BY <3>1, <3>2
  <2>4. KeyInv'
    BY <1>1, <1>7, <2>1, <2>2, <2>3, KeyStep
  <2>5. AgeInv'
    BY <1>1, <2>1, <2>2, AgeStep
  <2> QED BY <2>4, <2>5
<1>9. CASE ~LastStep(t)
  <2>1. (\A u \in Tasks \ {t} : task'[u] = task[u]) /\ task'[t] = row
    BY <1>1, <1>5, <1>9 DEF Inv, TypeInv
  <2>2. lock' = lock
    BY <1>6, <1>9
  <2>3. \A k \in LockKeys : HoldsKey(t, k)' => HoldsKey(t, k)
    BY <1>1, <1>2, <2>1 DEF HoldsKey
  <2>4. KeyInv'
    BY <1>1, <1>7, <2>1, <2>2, <2>3, KeyStep
  <2>5. AgeInv'
    BY <1>1, <1>2, <1>3, <2>1, AgeStep
  <2> QED BY <2>4, <2>5
<1> QED BY <1>8, <1>9

\* A run set back to what it had read, or lost: its key and its age stay.
LEMMA SameKeys ==
  ASSUME Inv, KeyInv, AgeInv, NEW t \in Running, \A u \in Tasks \ {t} : task'[u] = task[u],
         task'[t].at \in {"running", "lost"}, task'[t].kind = task[t].kind,
         task'[t].ran = task[t].ran, UNCHANGED <<lock, overran, result>>
  PROVE  KeyInv' /\ AgeInv'
<1>1. t \in Tasks /\ task[t].at = "running" /\ lock' \in [LockKeys -> Nat] /\ lock' = lock
  BY DEF Running, KeyInv
<1>2. \A k \in LockKeys : HoldsKey(t, k)' => HoldsKey(t, k)
  BY <1>1 DEF HoldsKey
<1>3. task[t].ran \in 0..TaskTimeout
      /\ (task[t].kind = "rematch" /\ result.state = "running" => result.ran <= task[t].ran)
  BY DEF AgeInv
<1>4. KeyInv'
  BY <1>1, <1>2, KeyStep
<1>5. AgeInv'
  BY <1>1, <1>3, AgeStep DEF AgeInv
<1> QED BY <1>4, <1>5

LEMMA TickKeys ==
  ASSUME Inv, KeyInv, AgeInv, SyncAssumption, Tick
  PROVE  KeyInv' /\ AgeInv'
<1>1. \A t \in Tasks : /\ task'[t].at = task[t].at /\ task'[t].kind = task[t].kind
                       /\ t \in Running => task'[t].ran = Capped(task[t].ran, Retry)
  BY Typed DEF Tick, Row, Running
<1>2. \A t \in Tasks, k \in LockKeys : HoldsKey(t, k)' <=> HoldsKey(t, k)
  BY <1>1 DEF HoldsKey
<1>3. /\ lock' \in [LockKeys -> Nat] /\ overran' \in BOOLEAN
      /\ \A k \in LockKeys : lock[k] \in Nat /\ (lock[k] > 1 => lock'[k] > 0)
  BY DEF Tick, KeyInv, Minus1
<1>4. ~overran' => ~overran /\ \A k \in LockKeys, t \in Tasks : HoldsKey(t, k) => lock[k] # 1
  BY DEF Tick, KeyInv
<1>5. KeyInv'
  <2>1. SUFFICES ASSUME ~overran', NEW k \in LockKeys, NEW s \in Tasks, HoldsKey(s, k)'
                 PROVE  lock'[k] > 0 /\ \A t \in Tasks : HoldsKey(t, k)' => s = t
    BY <1>3 DEF KeyInv
  <2>2. lock[k] > 0 /\ \A t \in Tasks : HoldsKey(t, k) => s = t
    BY <1>2, <1>4, <2>1 DEF KeyInv
  <2>3. lock[k] > 1
    BY <1>2, <1>3, <1>4, <2>1, <2>2
  <2> QED BY <1>2, <1>3, <2>2, <2>3
<1>6. TaskTimeout \in Nat /\ Retry \in Nat /\ RunningTTL \in Nat /\ TaskTimeout < Retry
  BY DEF SyncAssumption
<1>7. /\ result' \in [state : {"idle", "running", "done", "failed"}, ran : Nat]
      /\ result'.state = result.state
      /\ result.state = "running" => result'.ran <= result.ran + 1
  BY <1>6 DEF Tick, AgeInv, Capped
<1>8. Running' = Running
  BY <1>1 DEF Running
<1>9. ASSUME NEW t \in Running
      PROVE  /\ task'[t].ran \in 0..TaskTimeout
             /\ task'[t].kind = "rematch" /\ result'.state = "running" => result'.ran <= task'[t].ran
  <2>1. task[t].ran \in 0..TaskTimeout /\ task[t].ran < TaskTimeout /\ t \in Tasks
    BY DEF AgeInv, Tick, Running
  <2>2. task'[t].ran = task[t].ran + 1
    BY <1>1, <1>6, <2>1 DEF Capped
  <2>3. task[t].kind = "rematch" /\ result.state = "running" => result.ran <= task[t].ran
    BY DEF AgeInv
  <2>4. result.ran \in Nat
    BY DEF AgeInv
  <2> QED BY <1>1, <1>6, <1>7, <2>1, <2>2, <2>3, <2>4
<1>10. AgeInv'
  BY <1>7, <1>8, <1>9 DEF AgeInv
<1> QED BY <1>5, <1>10

LEMMA KeysStep == Inv /\ KeyInv /\ AgeInv /\ SyncAssumption /\ [Next]_vars => KeyInv' /\ AgeInv'
<1> SUFFICES ASSUME Inv, KeyInv, AgeInv, SyncAssumption, [Next]_vars PROVE KeyInv' /\ AgeInv'
  OBVIOUS
<1>0. UNCHANGED <<task, lock, overran, result>> => KeyInv' /\ AgeInv'
  BY DEF KeyInv, AgeInv, HoldsKey, Running
<1>1. CASE UNCHANGED vars
  BY <1>0, <1>1 DEF vars
<1>2. ASSUME NEW t \in Tasks, NEW kind \in {"plant", "imports"}, Trigger(t, kind)
      PROVE  KeyInv' /\ AgeInv'
  BY <1>2, TriggerKeys
<1>3. ASSUME NEW t \in Tasks, Schedule(t) PROVE KeyInv' /\ AgeInv'
  <2>1. task' = [task EXCEPT ![t] = Queued("daily")] /\ UNCHANGED <<lock, overran, result>>
    BY <1>3 DEF Schedule, Enqueue
  <2> QED BY <2>1, QueuedKeys
<1>4. CASE Save
  BY <1>0, <1>4 DEF Save
<1>5. ASSUME NEW t \in Tasks, RequestRematch(t) PROVE KeyInv' /\ AgeInv'
  <2>1. UNCHANGED <<lock, overran, result>>
    BY <1>5 DEF RequestRematch
  <2>2. CASE UNCHANGED task
    BY <1>0, <2>1, <2>2
  <2>3. CASE Enqueue(t, "rematch")
    <3>1. task' = [task EXCEPT ![t] = Queued("rematch")]
      BY <2>3 DEF Enqueue
    <3> QED BY <2>1, <3>1, QueuedKeys
  <2> QED BY <1>5, <2>2, <2>3 DEF RequestRematch
<1>6. ASSUME NEW t \in Tasks, PickUp(t) PROVE KeyInv' /\ AgeInv'
  BY <1>6, PickUpKeys
<1>7. ASSUME NEW t \in Tasks, EndStep(t) PROVE KeyInv' /\ AgeInv'
  <2>1. /\ t \in Running /\ overran' = overran /\ result' = result
        /\ \E ok \in BOOLEAN : Advance(t, ok)
    BY <1>7 DEF EndStep, Outcomes
  <2>2. result' \in [state : {"idle", "running", "done", "failed"}, ran : Nat]
    BY <2>1 DEF AgeInv
  <2> QED BY <2>1, <2>2, AdvanceKeys
<1>8. ASSUME NEW t \in Tasks, MatchRead(t) PROVE KeyInv' /\ AgeInv'
  <2>1. t \in Running /\ task[t] \in Row /\ task[t].at = "running"
    BY <1>8, Typed DEF MatchRead, Running
  <2>2. /\ \A u \in Tasks \ {t} : task'[u] = task[u]
        /\ task'[t].at = "running" /\ task'[t].kind = task[t].kind /\ task'[t].ran = task[t].ran
    BY <1>8, <2>1 DEF MatchRead, Inv, TypeInv, Row
  <2>3. UNCHANGED <<lock, overran, result>>
    BY <1>8 DEF MatchRead
  <2> QED BY <2>1, <2>2, <2>3, SameKeys
<1>9. ASSUME NEW t \in Tasks, MatchEnd(t) PROVE KeyInv' /\ AgeInv'
  <2>1. /\ t \in Running /\ overran' = overran
        /\ \E ok \in BOOLEAN : Advance(t, ok)
    BY <1>9 DEF MatchEnd, Outcomes, Inv, MatchInv
  <2>2. /\ result' \in [state : {"idle", "running", "done", "failed"}, ran : Nat]
        /\ result' = result \/ result'.state # "running"
    BY <1>9 DEF MatchEnd, AgeInv
  <2> QED BY <2>1, <2>2, AdvanceKeys
<1>10. ASSUME NEW t \in Tasks, Die(t) PROVE KeyInv' /\ AgeInv'
  <2>1. t \in Running /\ task[t] \in Row
    BY <1>10, Typed DEF Die
  <2>2. /\ \A u \in Tasks \ {t} : task'[u] = task[u]
        /\ task'[t].at = "lost" /\ task'[t].kind = task[t].kind /\ task'[t].ran = task[t].ran
    BY <1>10, <2>1 DEF Die, Inv, TypeInv, Row
  <2>3. UNCHANGED <<lock, overran, result>>
    BY <1>10 DEF Die
  <2> QED BY <2>1, <2>2, <2>3, SameKeys
<1>11. ASSUME NEW t \in Tasks, Redeliver(t) PROVE KeyInv' /\ AgeInv'
  <2>1. /\ task' = [task EXCEPT ![t] = Queued(task[t].kind)] /\ task[t].kind \in Kinds
        /\ lock' = lock /\ result' = result /\ overran' = TRUE
    BY <1>11, Typed DEF Redeliver, Row
  <2>2. (\A u \in Tasks \ {t} : task'[u] = task[u]) /\ t \notin Running'
    BY <2>1, EnqueuedRow
  <2>3. AgeInv'
    BY <2>1, <2>2, AgeStep DEF AgeInv
  <2> QED BY <2>1, <2>3, KeyLost
<1>12. CASE Tick
  BY <1>12, TickKeys
<1> QED BY <1>1, <1>2, <1>3, <1>4, <1>5, <1>6, <1>7, <1>8, <1>9, <1>10, <1>11, <1>12 DEF Next

\* The plant's in-progress key keeps its pipelines apart, the scheduled run
\* included, until a run outlives its key or is delivered a second time
\* (trigger_plant_sync, run_hourly_sync, and the `finally` that deletes a key).
THEOREM PipelinesApart == Spec => []OnePipelineAtATime
<1>1. Spec => [](Inv /\ KeyInv /\ AgeInv)
  BY InitInv, KeyInit, AgeInit, StepInv, KeysStep, SyncAssumption, PTL DEF Spec
<1>2. ASSUME Inv, KeyInv PROVE OnePipelineAtATime
  <2>1. SUFFICES ASSUME ~overran PROVE Cardinality(Pipelines) <= 1
    BY DEF OnePipelineAtATime
  <2>2. \A t \in Pipelines : t \in Tasks /\ HoldsKey(t, "plant")
    BY DEF Pipelines, Running, HoldsKey, KeyOf
  <2>3. \A s, t \in Pipelines : s = t
    BY <1>2, <2>1, <2>2 DEF KeyInv, LockKeys
  <2>4. CASE Pipelines = {}
    BY <2>4, FS_EmptySet
  <2>5. CASE Pipelines # {}
    <3>1. PICK t : Pipelines = {t}
      BY <2>3, <2>5
    <3>2. Cardinality({t}) = 1
      BY FS_Singleton
    <3> QED BY <3>1, <3>2
  <2> QED BY <2>4, <2>5
<1> QED BY <1>1, <1>2, PTL

\* The status page calls a re-match stopped only when no re-match is running
\* (rematch.status against _RUNNING_TTL_SECONDS), whichever of several runs
\* wrote the result last.
THEOREM StoppedMeansDead == Spec => []OnlyDeadRunsReportedStopped
<1>1. Spec => [](Inv /\ KeyInv /\ AgeInv)
  BY InitInv, KeyInit, AgeInit, StepInv, KeysStep, SyncAssumption, PTL DEF Spec
<1>2. AgeInv => OnlyDeadRunsReportedStopped
  BY SyncAssumption DEF AgeInv, SyncAssumption, OnlyDeadRunsReportedStopped, ReportedStopped
<1> QED BY <1>1, <1>2, PTL

=============================================================================
