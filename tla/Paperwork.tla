------------------------------ MODULE Paperwork ------------------------------
(***************************************************************************)
(* The paperwork of one PO number at one plant: the revisions of its file, *)
(* the readings the extraction worker makes of them, and the order itself, *)
(* which a manager's approval and the projection of the PO sheet both      *)
(* write.                                                                  *)
(*                                                                         *)
(* Requests are READ COMMITTED transactions: a row another one has locked  *)
(* is waited for, a row it has only read is not, and what a transaction    *)
(* wrote shows when it commits.  A request that is refused changes         *)
(* nothing and is left out.                                                *)
(***************************************************************************)
EXTENDS Integers, Sequences, FiniteSets

CONSTANTS
  Reqs,          \* web requests open at the same time
  Workers,       \* Q_CLUSTER["workers"]
  MaxRevisions,  \* bound: revisions filed
  MaxReadings,   \* bound: readings asked for
  MaxSheets,     \* bound: changes of the order's row in the PO sheet
  MaxWithdrawals,\* bound: withdrawals
  MaxFaults      \* bound: workers killed, tasks delivered once more

ASSUME PaperworkAssumption ==
  {MaxRevisions, MaxReadings, MaxSheets, MaxWithdrawals, MaxFaults} \subseteq Nat

VARIABLES
  docs,        \* the Document rows of the PO number, in the order they were made
  request,     \* what each open request has locked and read
  reading,     \* the PoExtraction rows
  worker,      \* the reading each worker is on, and how far
  sheet,       \* the row hash of the order in the sheet's mirror, 0 when not listed
  order,       \* the PurchaseOrder row and where its header and lines come from
  projection,  \* the projection's transaction and the row it read
  withdrawn,   \* withdrawals started so far
  faults,      \* faults so far
  raced        \* a withdrawal of a current file has overlapped another filing

vars == <<docs, request, reading, worker, sheet, order, projection, withdrawn, faults, raced>>

filing   == <<docs, withdrawn, raced>>
orders   == <<sheet, order, projection>>

Statuses == {"QUEUED", "RUNNING", "READY", "FAILED", "APPROVED", "REJECTED"}

Idle == [op |-> "none", at |-> "none", file |-> 0, rev |-> 0, doc |-> 0,
         rows |-> {}, current |-> FALSE, reading |-> 0, there |-> FALSE]

Off == [on |-> 0, at |-> "none"]

NoOrder == [there |-> FALSE, source |-> "CSV", hash |-> 0, by |-> "none", of |-> 0]

NotProjecting == [on |-> FALSE, saw |-> NoOrder]

Doing(op) == {r \in Reqs : request[r].op = op}
Current   == {d \in DOMAIN docs : docs[d].status = "CURRENT"}
OnRecord  == {d \in DOMAIN docs : docs[d].status # "WITHDRAWN"}
Greatest(S) == CHOOSE n \in S : \A m \in S : m <= n

-----------------------------------------------------------------------------
(* The row locks, as the open transactions hold them. *)

\* An upload locks the plant's row; an approval locks it with the reading's,
\* through select_related.
PlantFree == Doing("upload") \cup Doing("approve") = {}

\* A withdrawal holds the row it withdraws, an approval the file of its reading.
RowFree(d) ==
  /\ \A r \in Doing("withdraw") : request[r].doc # d
  /\ \A r \in Doing("approve") : reading[request[r].reading].doc # d

ReadingFree(e) == \A r \in Doing("approve") : request[r].reading # e

OrderFree == \A r \in Doing("approve") : ~request[r].there

-----------------------------------------------------------------------------
(* Uploading a revision. *)

NextRevision == IF docs = <<>> THEN 1 ELSE Greatest({docs[d].rev : d \in DOMAIN docs}) + 1

\* A file is known by its SHA-256: one filed before, or a new one.
Known   == {docs[d].file : d \in DOMAIN docs}
NewFile == Len(docs) + 1

\* upload_po up to the R2 upload: the plant is locked, the same file refused.
StartUpload(r, f) ==
  /\ request[r] = Idle /\ Len(docs) + Cardinality(Doing("upload")) < MaxRevisions
  /\ PlantFree
  /\ \A d \in OnRecord : docs[d].file # f
  /\ request' = [request EXCEPT ![r] = [Idle EXCEPT !.op = "upload", !.at = "store",
                                                    !.file = f, !.rev = NextRevision]]
  /\ raced' = (raced \/ \E q \in Doing("withdraw") : request[q].current)
  /\ UNCHANGED <<docs, reading, worker, withdrawn, faults, orders>>

\* R2 refuses the file: the transaction is rolled back.
StoreFails(r) ==
  /\ request[r].op = "upload" /\ request[r].at = "store"
  /\ request' = [request EXCEPT ![r] = Idle]
  /\ UNCHANGED <<filing, reading, worker, faults, orders>>

\* The UPDATE of the current rows finds those its snapshot shows.
Supersede(r) ==
  /\ request[r].op = "upload" /\ request[r].at = "store"
  /\ request' = [request EXCEPT ![r].at = "supersede", ![r].rows = Current]
  /\ UNCHANGED <<filing, reading, worker, faults, orders>>

\* ... waits for them, leaves out those no longer current, and the new
\* revision is inserted and committed with it.
Superseded(rows) ==
  [d \in DOMAIN docs |-> IF d \in rows \cap Current
                         THEN [docs[d] EXCEPT !.status = "SUPERSEDED"] ELSE docs[d]]

FinishUpload(r) ==
  /\ request[r].op = "upload" /\ request[r].at = "supersede"
  /\ \A d \in request[r].rows : RowFree(d)
  /\ docs' = Append(Superseded(request[r].rows),
                    [rev |-> request[r].rev, file |-> request[r].file, status |-> "CURRENT"])
  /\ request' = [request EXCEPT ![r] = Idle]
  /\ UNCHANGED <<reading, worker, withdrawn, faults, raced, orders>>

-----------------------------------------------------------------------------
(* Withdrawing a file. *)

\* withdraw: the row is locked and its status read.
StartWithdraw(r, d) ==
  /\ request[r] = Idle /\ withdrawn < MaxWithdrawals
  /\ RowFree(d)
  /\ docs[d].status # "WITHDRAWN"
  /\ request' = [request EXCEPT ![r] = [Idle EXCEPT !.op = "withdraw", !.at = "look", !.doc = d,
                                                    !.current = docs[d].status = "CURRENT"]]
  /\ withdrawn' = withdrawn + 1
  /\ raced' = \/ raced
              \/ d \in Current /\ Doing("upload") \cup Doing("withdraw") # {}
              \/ \E q \in Doing("withdraw") : request[q].current
  /\ UNCHANGED <<docs, reading, worker, faults, orders>>

\* Mutant: the files in the order they were made.
PreviousOf_Oldest(r) ==
  LET old == {d \in DOMAIN docs : docs[d].status = "SUPERSEDED"}
  IN IF request[r].current /\ old # {}
     THEN {CHOOSE d \in old : \A c \in old : docs[d].rev <= docs[c].rev} ELSE {}

\* The newest superseded file, read without a lock, when the current one goes.
PreviousOf(r) ==
  LET old == {d \in DOMAIN docs : docs[d].status = "SUPERSEDED"}
  IN IF request[r].current /\ old # {}
     THEN {CHOOSE d \in old : \A c \in old : docs[c].rev <= docs[d].rev} ELSE {}

FindPrevious(r) ==
  /\ request[r].op = "withdraw" /\ request[r].at = "look"
  /\ request' = [request EXCEPT ![r].at = "restore", ![r].rows = PreviousOf(r)]
  /\ UNCHANGED <<filing, reading, worker, faults, orders>>

\* The previous file is saved as current, whatever it is by then.
FinishWithdraw(r) ==
  /\ request[r].op = "withdraw" /\ request[r].at = "restore"
  /\ \A d \in request[r].rows : RowFree(d)
  /\ docs' = [d \in DOMAIN docs |->
                IF d = request[r].doc THEN [docs[d] EXCEPT !.status = "WITHDRAWN"]
                ELSE IF d \in request[r].rows THEN [docs[d] EXCEPT !.status = "CURRENT"]
                ELSE docs[d]]
  /\ request' = [request EXCEPT ![r] = Idle]
  /\ UNCHANGED <<reading, worker, withdrawn, faults, raced, orders>>

-----------------------------------------------------------------------------
(* Reading a file in the background. *)

\* request: a new row and a task for it.
RequestReading(d) ==
  /\ Len(reading) < MaxReadings
  /\ docs[d].status # "WITHDRAWN"
  /\ reading' = Append(reading, [doc |-> d, status |-> "QUEUED", tasks |-> 1,
                                 twice |-> FALSE, killed |-> FALSE])
  /\ UNCHANGED <<filing, request, worker, faults, orders>>

\* A worker takes the task.  run returns at once unless the row is QUEUED.
TakeTask(w, e) ==
  /\ worker[w] = Off /\ reading[e].tasks > 0
  /\ worker' = [worker EXCEPT ![w] = IF reading[e].status = "QUEUED"
                                     THEN [on |-> e, at |-> "found"] ELSE Off]
  /\ reading' = [reading EXCEPT ![e].tasks = @ - 1,
                                ![e].twice = @ \/ /\ reading[e].status = "QUEUED"
                                                  /\ \E v \in Workers : worker[v].on = e]
  /\ UNCHANGED <<filing, request, faults, orders>>

\* The status alone is saved.
Claim(w) ==
  /\ worker[w].at = "found" /\ ReadingFree(worker[w].on)
  /\ worker' = [worker EXCEPT ![w].at = "reading"]
  /\ reading' = [reading EXCEPT ![worker[w].on].status = "RUNNING"]
  /\ UNCHANGED <<filing, request, faults, orders>>

\* Mutant: only the reasons the reader knows are recorded.
Outcomes_Known == {"READY", "RUNNING"}

\* A draft, or the reason there is none; any exception is recorded.
Outcomes == {"READY", "FAILED"}

\* The whole row is saved, from the copy the worker made when it started.
EndReading(w) ==
  /\ worker[w].at = "reading" /\ ReadingFree(worker[w].on)
  /\ \E outcome \in Outcomes :
       reading' = [reading EXCEPT ![worker[w].on].status = outcome]
  /\ worker' = [worker EXCEPT ![w] = Off]
  /\ UNCHANGED <<filing, request, faults, orders>>

\* The worker is killed (a reading of three attempts of 600 s outlives its
\* 900 s) or dies; the task, not acknowledged, is delivered again.
KillWorker(w) ==
  /\ worker[w] # Off /\ faults < MaxFaults
  /\ reading' = [reading EXCEPT ![worker[w].on].tasks = @ + 1, ![worker[w].on].killed = TRUE]
  /\ worker' = [worker EXCEPT ![w] = Off]
  /\ faults' = faults + 1
  /\ UNCHANGED <<filing, request, orders>>

\* A task that waited for a worker longer than "retry" is delivered twice.
DeliverTwice(e) ==
  /\ reading[e].tasks = 1 /\ faults < MaxFaults
  /\ reading' = [reading EXCEPT ![e].tasks = 2]
  /\ faults' = faults + 1
  /\ UNCHANGED <<filing, request, worker, orders>>

-----------------------------------------------------------------------------
(* Deciding a reading. *)

\* Mutant: any reading not decided yet.
Rejectable_Any == {"QUEUED", "RUNNING", "READY", "FAILED"}

Rejectable == {"READY", "FAILED"}

Reject(e) ==
  /\ ReadingFree(e)
  /\ reading[e].status \in Rejectable
  /\ reading' = [reading EXCEPT ![e].status = "REJECTED"]
  /\ UNCHANGED <<filing, request, worker, faults, orders>>

\* approve, when problems() finds none: the reading, the plant and the file
\* are locked by one statement, then the order's row if there is one.
StartApprove(r, e) ==
  /\ request[r] = Idle
  /\ ReadingFree(e) /\ PlantFree /\ RowFree(reading[e].doc)
  /\ reading[e].status = "READY"
  /\ request' = [request EXCEPT ![r] = [Idle EXCEPT !.op = "approve", !.reading = e,
                                                    !.there = order.there]]
  /\ UNCHANGED <<filing, reading, worker, faults, orders>>

\* The order is made or taken over, and its lines written.  The sheet's hash
\* stays as it was.  An order the projection made meanwhile refuses the
\* insert, and the approval is rolled back.
FinishApprove(r) ==
  LET e == request[r].reading IN
  /\ request[r].op = "approve"
  /\ IF request[r].there = order.there
     THEN /\ order' = [order EXCEPT !.there = TRUE, !.source = "APP", !.by = "reading", !.of = e]
          /\ reading' = [reading EXCEPT ![e].status = "APPROVED"]
     ELSE UNCHANGED <<order, reading>>
  /\ request' = [request EXCEPT ![r] = Idle]
  /\ UNCHANGED <<filing, worker, sheet, projection, faults>>

-----------------------------------------------------------------------------
(* Projecting the PO sheet onto the order. *)

\* The sync before the projection has brought a changed row.
ChangeSheet ==
  /\ sheet < MaxSheets /\ ~projection.on
  /\ sheet' = sheet + 1
  /\ UNCHANGED <<filing, request, reading, worker, order, projection, faults>>

\* Mutant: the hash alone decides.
Held_Never(row) == FALSE

\* An order the app owns is left alone.
Held(row) == row.there /\ row.source = "APP"

\* project_plant_orders reads the plant's orders, without a lock.
StartProjection ==
  /\ ~projection.on /\ sheet > 0
  /\ ~Held(order)
  /\ ~(order.there /\ order.hash = sheet)
  /\ projection' = [on |-> TRUE, saw |-> order]
  /\ UNCHANGED <<filing, request, reading, worker, sheet, order, faults>>

\* ... and saves the whole row it read, with the sheet's header and lines.
\* An order made meanwhile refuses the insert: everything is rolled back.
EndProjection ==
  /\ projection.on /\ OrderFree
  /\ order' = IF order.there /\ ~projection.saw.there THEN order
              ELSE [projection.saw EXCEPT !.there = TRUE, !.hash = sheet,
                                          !.by = "sheet", !.of = sheet]
  /\ projection' = NotProjecting
  /\ UNCHANGED <<filing, request, reading, worker, sheet, faults>>

-----------------------------------------------------------------------------
Init ==
  /\ docs = <<>> /\ reading = <<>>
  /\ request = [r \in Reqs |-> Idle]
  /\ worker = [w \in Workers |-> Off]
  /\ sheet = 0 /\ order = NoOrder /\ projection = NotProjecting
  /\ withdrawn = 0 /\ faults = 0 /\ raced = FALSE

Filing(r) ==
  \/ \E f \in Known \cup {NewFile} : StartUpload(r, f)
  \/ StoreFails(r) \/ Supersede(r) \/ FinishUpload(r)
  \/ \E d \in DOMAIN docs : StartWithdraw(r, d)
  \/ FindPrevious(r) \/ FinishWithdraw(r)

Deciding(r) == (\E e \in DOMAIN reading : StartApprove(r, e)) \/ FinishApprove(r)

Working(w) ==
  \/ \E e \in DOMAIN reading : TakeTask(w, e)
  \/ Claim(w) \/ EndReading(w)

Next ==
  \/ \E r \in Reqs : Filing(r) \/ Deciding(r)
  \/ \E d \in DOMAIN docs : RequestReading(d)
  \/ \E w \in Workers : Working(w) \/ KillWorker(w)
  \/ \E e \in DOMAIN reading : DeliverTwice(e) \/ Reject(e)
  \/ ChangeSheet \/ StartProjection \/ EndProjection

Spec == Init /\ [][Next]_vars

\* The workers work and an approval goes on to its commit. Nobody has to ask
\* for anything, decide anything or change the sheet.
FairSpec ==
  /\ Spec
  /\ \A r \in Reqs : WF_vars(FinishApprove(r))
  /\ \A w \in Workers : WF_vars(Working(w))
-----------------------------------------------------------------------------
(* Properties. *)

\* Revisions of one PO number are numbered apart, however uploads overlap: the
\* unique constraint on them never refuses a file already sent to R2.
RevisionsDistinct == \A c, d \in DOMAIN docs : c # d => docs[c].rev # docs[d].rev

\* The current file is the newest one not withdrawn, and there is one whenever
\* any is left: across every sequence of uploads and withdrawals, overlapping
\* uploads included, unless the withdrawal of a current file overlapped
\* another upload or withdrawal.
NewestIsCurrent ==
  raced \/ Current = {d \in OnRecord : \A c \in OnRecord : docs[c].rev <= docs[d].rev}

\* An order the app owns holds what an approved reading said, never the sheet
\* and never a reading turned down (a reading two workers had at once aside).
AppOrderWasApproved ==
  order.source = "APP" =>
    /\ order.by = "reading"
    /\ reading[order.of].status = "APPROVED" \/ reading[order.of].twice

\* A decision on a reading stands: no worker finishing late, and no task
\* delivered again, changes an approved or rejected reading, unless two workers
\* had found it queued before either claimed it.
DecisionKept ==
  [][\A e \in DOMAIN reading :
       reading[e].status \in {"APPROVED", "REJECTED"} =>
         reading'[e].status = reading[e].status \/ reading[e].twice]_vars

Asked(e) == e \in DOMAIN reading
Ended(e) == reading[e].status \notin {"QUEUED", "RUNNING"}

\* Every reading asked for comes to its end, to be reviewed, or with the reason
\* it could not be made, unless the worker it was on was killed.
EveryReadingEnds ==
  \A e \in 1..MaxReadings :
    Asked(e) ~> Asked(e) /\ (Ended(e) \/ reading[e].killed)

\* procurement_sync.py:19: "An order the app owns ... is never written here".
AppOrderHeld == [][Held(order) /\ EndProjection => order' = order]_vars
=============================================================================
