---------------------------- MODULE SyncPipeline ----------------------------
(***************************************************************************)
(* One plant's background work: the sync pipeline behind "Refresh Data",   *)
(* the imports pipeline, the hourly scheduled run, and the re-match that a *)
(* pin or a correction queues. All of it runs on the qcluster, whose tasks *)
(* are database rows taken by a few workers; what keeps two runs apart are *)
(* cache keys that expire by themselves and one database advisory lock.    *)
(*                                                                         *)
(* Time is counted in ticks, from zero for each thing that is timed, up to *)
(* the moment it stops mattering, so that there is no clock to bound.      *)
(***************************************************************************)
EXTENDS Integers, Sequences, FiniteSets

CONSTANTS
  Tasks,          \* bound: identities of the task rows alive at one time
  Workers,        \* Q_CLUSTER["workers"]
  LockTTL,        \* sync_trigger._LOCK_TIMEOUT_SECONDS
  TaskTimeout,    \* Q_CLUSTER["timeout"]: the worker is killed
  Retry,          \* Q_CLUSTER["retry"]: a task not acknowledged is delivered again
  PendingTTL,     \* rematch._PENDING_TTL_SECONDS
  RunningTTL,     \* rematch._RUNNING_TTL_SECONDS
  Failing,        \* bound: the steps that may fail in this instance
  MaxSaves,       \* bound: edits that ask for a re-match
  MaxFaults       \* bound: workers that die before their task is done

ASSUME SyncAssumption ==
  /\ Workers \in Nat \ {0}
  /\ {LockTTL, TaskTimeout, Retry, PendingTTL, RunningTTL} \subseteq Nat \ {0}
  /\ {MaxSaves, MaxFaults} \subseteq Nat
  /\ TaskTimeout < Retry
  /\ TaskTimeout <= RunningTTL     \* _RUNNING_TTL_SECONDS: "no live run lasts longer"

VARIABLES
  task,         \* the task rows, and how far each run has come
  queue,        \* the rows waiting for a worker, oldest first
  lock,         \* ticks left on the plant's two in-progress keys, 0 when free
  edits,        \* saves that feed matching, committed so far
  unasked,      \* the latest of them has not yet called request_rematch (bound: one)
  pending,      \* ticks left on the re-match pending key
  result,       \* the re-match result key
  matching,     \* the run inside run_full_match, holding the advisory lock
  matched,      \* the edits the match tables reflect
  consumption,  \* the latest consumption SyncRun: none or failed, or a success
                \* computed after ("fresh") or without ("stale") a stock sync
                \* of the same run
  faults,       \* workers lost so far
  overran       \* some run has outlived its key, or been delivered twice

vars == <<task, queue, lock, edits, unasked, pending, result, matching,
          matched, consumption, faults, overran>>

-----------------------------------------------------------------------------
(* The commands of each kind of task. The domestic PO, MIR and stock syncs  *)
(* are one step, "sheets": nothing here depends on them one by one, except  *)
(* that consumption follows the last of them.                               *)

PlantSteps  == <<"imports_csv", "sheets", "match", "consumption">>
ImportSteps == <<"imports_csv", "match">>

Steps(kind) == CASE kind \in {"plant", "daily"} -> PlantSteps
                 [] kind = "imports" -> ImportSteps
                 [] kind = "rematch" -> <<"match">>

Kinds == {"plant", "imports", "daily", "rematch"}

\* The in-progress key a kind of run clears when it ends.
KeyOf(kind) == IF kind = "imports" THEN "imports" ELSE "plant"

Free == [kind |-> "rematch", at |-> "free", step |-> 1, ran |-> 0, failed |-> FALSE,
         fresh |-> FALSE, saw |-> 0]

Queued(kind) == [Free EXCEPT !.kind = kind, !.at = "queued"]

Running == {t \in Tasks : task[t].at = "running"}
Step(t) == Steps(task[t].kind)[task[t].step]

\* Runs of the plant's own pipeline: what the plant key is for.
Pipelines == {t \in Running : task[t].kind \in {"plant", "daily"}}

-----------------------------------------------------------------------------
(* Starting work. *)

Enqueue(t, kind) ==
  /\ task[t].at = "free"
  /\ task' = [task EXCEPT ![t] = Queued(kind)]
  /\ queue' = Append(queue, t)

\* Mutant: cache.get and then cache.set, as two triggers racing see them.
CanTake_Stale(key) == TRUE

\* cache.add: only when the key is not there.
CanTake(key) == lock[key] = 0

Taken(key) == lock' = [lock EXCEPT ![key] = LockTTL]

\* trigger_plant_sync, trigger_plant_imports_sync. A refused trigger changes
\* nothing.
Trigger(t, kind) ==
  /\ CanTake(KeyOf(kind))
  /\ Taken(KeyOf(kind))
  /\ Enqueue(t, kind)
  /\ UNCHANGED <<edits, unasked, pending, result, matching, matched, consumption, faults, overran>>

\* The scheduler queues the hourly run.
Schedule(t) ==
  /\ \A u \in Tasks : task[u].at # "free" => task[u].kind # "daily"
  /\ Enqueue(t, "daily")
  /\ UNCHANGED <<lock, edits, unasked, pending, result, matching, matched,
                 consumption, faults, overran>>

\* A pin or a correction commits, and only then asks for a re-match.
Save ==
  /\ edits < MaxSaves /\ ~unasked
  /\ edits' = edits + 1
  /\ unasked' = TRUE
  /\ UNCHANGED <<task, queue, lock, pending, result, matching, matched,
                 consumption, faults, overran>>

RequestRematch(t) ==
  /\ unasked
  /\ unasked' = FALSE
  /\ \/ /\ pending = 0
        /\ pending' = PendingTTL
        /\ Enqueue(t, "rematch")
     \/ /\ pending > 0
        /\ UNCHANGED <<pending, task, queue>>
  /\ UNCHANGED <<lock, edits, result, matching, matched, consumption, faults, overran>>

-----------------------------------------------------------------------------
(* What a worker does. *)

\* Mutant: the pending key is cleared by run_rematch at its end, not first.
ClearsPending_AtEnd(t, start) == task[t].kind = "rematch" /\ ~start

\* run_rematch deletes the pending key before it reads anything.
ClearsPending(t, start) == task[t].kind = "rematch" /\ start

Started(t) == [task EXCEPT ![t].at = "running", ![t].ran = 0]

\* A worker takes the oldest row.
PickUp(t) ==
  /\ Cardinality(Running) < Workers
  /\ queue # <<>> /\ Head(queue) = t /\ task[t].at = "queued"
  /\ queue' = Tail(queue)
  /\ IF task[t].kind = "daily"
     THEN \/ /\ CanTake("plant")
             /\ Taken("plant")
             /\ task' = Started(t)
          \/ /\ ~CanTake("plant")               \* this plant is skipped
             /\ task' = [task EXCEPT ![t] = Free]
             /\ UNCHANGED lock
     ELSE task' = Started(t) /\ UNCHANGED lock
  /\ pending' = IF ClearsPending(t, TRUE) THEN 0 ELSE pending
  /\ result' = IF task[t].kind = "rematch" THEN [state |-> "running", ran |-> 0] ELSE result
  /\ UNCHANGED <<edits, unasked, matching, matched, consumption, faults, overran>>

\* Mutant: the consumption step runs whatever became of the stock step.
Gated_Never(t) == FALSE

\* _STEP_PREREQUISITES: skipped, with a FAILED row saying so.
Gated(t) == Step(t) = "consumption" /\ task[t].failed

LastStep(t) == task[t].step = Len(Steps(task[t].kind))

\* The run after step t ends: its next step, or the end of the task - the
\* in-progress key deleted whoever holds it by now, and the row acknowledged.
Advance(t, ok) ==
  LET last == LastStep(t)
      row  == [task[t] EXCEPT !.step = @ + 1, !.saw = 0,
                              !.failed = @ \/ (Step(t) = "sheets" /\ ~ok),
                              !.fresh = @ \/ (Step(t) = "sheets" /\ ok)]
  IN /\ task' = [task EXCEPT ![t] = IF last THEN Free ELSE row]
     /\ lock' = IF last /\ task[t].kind # "rematch"
                THEN [lock EXCEPT ![KeyOf(task[t].kind)] = 0] ELSE lock

Outcomes(s) == IF s \in Failing THEN BOOLEAN ELSE {TRUE}

\* A command other than the match ends; it writes its SyncRun row only now,
\* with the time it started at.
EndStep(t) ==
  /\ t \in Running /\ Step(t) # "match"
  /\ \E ok \in Outcomes(Step(t)) :
       /\ Advance(t, ok)
       /\ consumption' =
            IF Step(t) = "consumption"
            THEN IF Gated(t) \/ ~ok THEN "failed" ELSE IF task[t].fresh THEN "fresh" ELSE "stale"
            ELSE consumption
  /\ UNCHANGED <<queue, edits, unasked, pending, result, matching, matched, faults, overran>>

\* Mutant: run_full_match without pg_advisory_xact_lock.
MayMatch_Always == TRUE

MayMatch == matching = {}

\* run_full_match: the lock, then what it reads.
MatchRead(t) ==
  /\ t \in Running \ matching /\ Step(t) = "match"
  /\ MayMatch
  /\ matching' = matching \cup {t}
  /\ task' = [task EXCEPT ![t].saw = edits]
  /\ UNCHANGED <<queue, lock, edits, unasked, pending, result, matched,
                 consumption, faults, overran>>

\* ... and its commit, or its rollback. A pipeline's match writes a SyncRun,
\* a re-match its result.
MatchEnd(t) ==
  /\ t \in matching
  /\ matching' = matching \ {t}
  /\ \E ok \in Outcomes("match") :
       /\ Advance(t, ok)
       /\ matched' = IF ok THEN task[t].saw ELSE matched
       /\ result' = IF task[t].kind = "rematch"
                    THEN [state |-> IF ok THEN "done" ELSE "failed", ran |-> 0] ELSE result
  /\ pending' = IF ClearsPending(t, FALSE) THEN 0 ELSE pending
  /\ UNCHANGED <<queue, edits, unasked, consumption, faults, overran>>

-----------------------------------------------------------------------------
(* Time and lost workers. *)

\* A worker dies - killed at its timeout, redeployed, out of memory. No
\* `finally` runs; the database rolls its transaction back.
Die(t) ==
  /\ t \in Running
  /\ faults < MaxFaults
  /\ faults' = faults + 1
  /\ task' = [task EXCEPT ![t].at = "lost"]
  /\ matching' = matching \ {t}
  /\ UNCHANGED <<queue, lock, edits, unasked, pending, result, matched,
                 consumption, overran>>

\* The broker delivers a row nobody acknowledged, from its beginning; a
\* pipeline task then runs without having taken its key.
Redeliver(t) ==
  /\ task[t].at = "lost" /\ task[t].ran = Retry
  /\ task' = [task EXCEPT ![t] = Queued(task[t].kind)]
  /\ queue' = Append(queue, t)
  /\ overran' = TRUE
  /\ UNCHANGED <<lock, edits, unasked, pending, result, matching, matched,
                 consumption, faults>>

\* A row whose run took key k. (An hourly row takes it when it starts.)
HoldsKey(t, k) ==
  /\ task[t].at \in (IF task[t].kind = "daily" THEN {} ELSE {"queued"}) \cup {"running", "lost"}
  /\ task[t].kind # "rematch" /\ KeyOf(task[t].kind) = k

Minus1(n) == IF n > 0 THEN n - 1 ELSE 0
Capped(n, top) == IF n < top THEN n + 1 ELSE top

\* No live run is older than TaskTimeout: it would have been killed.
Tick ==
  /\ \A t \in Running : task[t].ran < TaskTimeout
  /\ task' = [t \in Tasks |->
                IF task[t].at \in {"running", "lost"}
                THEN [task[t] EXCEPT !.ran = Capped(@, Retry)] ELSE task[t]]
  /\ lock' = [k \in DOMAIN lock |-> Minus1(lock[k])]
  /\ overran' = (overran \/ \E k \in DOMAIN lock :
                               /\ lock[k] = 1
                               /\ \E t \in Tasks : HoldsKey(t, k))
  /\ pending' = Minus1(pending)
  /\ result' = IF result.state = "running"
               THEN [result EXCEPT !.ran = Capped(@, RunningTTL + 1)] ELSE result
  /\ UNCHANGED <<queue, edits, unasked, matching, matched, consumption, faults>>

-----------------------------------------------------------------------------
(* What the dashboard is told. *)

\* Mutant: the limit is the task's own timeout.
ReportedStopped_AtTimeout == result.state = "running" /\ result.ran >= TaskTimeout

\* rematch.status: a run still "running" past the limit died with its worker.
ReportedStopped == result.state = "running" /\ result.ran > RunningTTL

-----------------------------------------------------------------------------
Init ==
  /\ task = [t \in Tasks |-> Free]
  /\ queue = <<>>
  /\ lock = [k \in {"plant", "imports"} |-> 0]
  /\ edits = 0 /\ unasked = FALSE
  /\ pending = 0
  /\ result = [state |-> "idle", ran |-> 0]
  /\ matching = {}
  /\ matched = 0
  /\ consumption = "failed"
  /\ faults = 0
  /\ overran = FALSE

Next ==
  \/ \E t \in Tasks, kind \in {"plant", "imports"} : Trigger(t, kind)
  \/ \E t \in Tasks : \/ Schedule(t)
                      \/ RequestRematch(t)
                      \/ PickUp(t)
                      \/ EndStep(t)
                      \/ MatchRead(t)
                      \/ MatchEnd(t)
                      \/ Die(t)
                      \/ Redeliver(t)
  \/ Save
  \/ Tick

Spec == Init /\ [][Next]_vars

\* The workers, the scheduler's clock and the requests keep going. A row bound
\* reached or another run's advisory lock only delays (strong fairness: the
\* rows are not bounded in the code, and PostgreSQL serves waiters in turn).
FairSpec ==
  /\ Spec
  /\ WF_vars(Tick)
  /\ SF_vars(\E t \in Tasks : RequestRematch(t))
  /\ \A t \in Tasks : /\ WF_vars(PickUp(t)) /\ WF_vars(EndStep(t)) /\ SF_vars(MatchRead(t))
                      /\ WF_vars(MatchEnd(t)) /\ WF_vars(Redeliver(t))

-----------------------------------------------------------------------------
(* Properties. *)

\* The in-progress key keeps a plant's pipelines apart - the button's, the
\* hourly one - until the first time a run outlives its key or is delivered a
\* second time. After that the `finally` of one run deletes another's key,
\* and nothing is promised.
OnePipelineAtATime == overran \/ Cardinality(Pipelines) <= 1

\* A consumption ledger reported as computed was computed after a stock sync
\* of the same run had written its snapshots, however the runs overlap.
FreshConsumption == consumption # "stale"

\* A match never replaces the outcome of one that read newer edits: a re-match
\* and the pipeline's match of the same plant take turns, reading included.
MatchNeverRegresses == [][matched' >= matched]_vars

\* rematch.status calls a run stopped only when no re-match of the plant is
\* running, although it knows no more than when the last one started.
OnlyDeadRunsReportedStopped ==
  ReportedStopped => \A t \in Running : task[t].kind # "rematch"

\* Every saved edit is in the match tables in the end, or the re-match is
\* reported failed: no save is folded into a run that has already read. (The
\* saves are bounded, so "again and again up to date" is "in the end".)
EverySaveMatched == []<>(matched = edits \/ result.state = "failed")
=============================================================================
