------------------------------ MODULE StockTxn ------------------------------
(***************************************************************************)
(* The RM stock ledger as the database runs it: each request is a          *)
(* transaction that row-locks (SELECT ... FOR UPDATE), reads what is       *)
(* committed at that moment (READ COMMITTED), decides, and writes at its   *)
(* commit, while other requests do the same between any two of its steps.  *)
(* A commit does not look again: that what it decided still holds then is  *)
(* what the locks are for, and what refining StockLedger shows.            *)
(*                                                                         *)
(* Lots are their ids, so that "in id order" is meant literally.           *)
(***************************************************************************)
EXTENDS StockLedger, Functions

CONSTANTS
  Reqs,     \* requests that may be in flight at the same time
  Allowed   \* bound: the operations this instance is asked for

ASSUME TxnAssumption == Lots \subseteq Nat /\ IsFiniteSet(Lots)

VARIABLES
  txn,      \* each request's transaction
  lastSeq,  \* StockSequence.last_seq, per kind
  number    \* StockVoucher.seq, per row

txnVars == <<txn, lastSeq, number>>
allVars == <<vars, txnVars>>

Inserting == {"ISSUE", "RETURN", "ADJUST"}

LotRow(l)     == <<"lot", l>>
VoucherRow(i) == <<"voucher", i>>
DocRow(m)     == <<"doc", m>>
LineRow(l)    == <<"mir_line", l>>
SeqRow(kind)  == <<"sequence", kind>>
Rows == {LotRow(l) : l \in Lots} \cup {VoucherRow(i) : i \in VoucherIds}
          \cup {DocRow(m) : m \in Docs} \cup {LineRow(l) : l \in Lots}
          \cup {SeqRow(kind) : kind \in Kinds}

\* What a request was asked to do. `lines` is the order of its lots in the
\* payload; fields an operation does not use hold their default.
NoOp == [name |-> "NONE", by |-> Nobody, day |-> 1, now |-> 1, of |-> 0,
         move |-> [l \in Lots |-> 0], lines |-> <<>>, doc |-> CHOOSE m \in Docs : TRUE,
         lot |-> CHOOSE l \in Lots : TRUE, total |-> 0]

Idle == [stage |-> "idle", op |-> NoOp, need |-> <<>>, held |-> {}, ok |-> TRUE, seq |-> 0]

InIdOrder(lots) == Ascending(lots)
LotRows(lots)   == [k \in 1..Len(lots) |-> LotRow(lots[k])]
Named(move)     == {l \in Lots : move[l] # 0}

-----------------------------------------------------------------------------
(* The rows each operation locks, in its order. *)

\* Mutant: the row is read without select_for_update.
HeadRows_Unlocked(op) == <<>>

\* First: the row whose status decides whether the operation applies.
HeadRows(op) ==
  CASE op.name \in {"ISSUE", "ADJUST"} -> <<>>
    [] op.name \in {"RETURN", "APPROVE", "REJECT", "CANCEL"} -> <<VoucherRow(op.of)>>
    [] op.name \in {"CANCEL_MIR", "CANCEL_OPENING"} -> <<DocRow(op.doc)>>
    [] op.name = "REJECTION" -> <<DocRow(DocOf[op.lot]), LineRow(op.lot)>>

\* Mutants: no lot is locked; or cancel_voucher locks them in descending order.
LotsToLock_None(op) == <<>>

LotsToLock_CancelDescending(op) ==
  CASE op.name \in {"ISSUE", "ADJUST"} -> InIdOrder(Named(op.move))
    [] op.name = "RETURN" -> op.lines
    [] op.name = "CANCEL" ->
         LET up == InIdOrder({l \in Lots : voucher[op.of].move[l] > 0})
         IN  [k \in DOMAIN up |-> up[Len(up) + 1 - k]]
    [] OTHER -> <<>>

\* Then the lots. A return names issue lines, not lots, so _lock_lots has
\* nothing to lock up front and each line's lot is locked as it is reached.
LotsToLock(op) ==
  CASE op.name \in {"ISSUE", "ADJUST"} -> InIdOrder(Named(op.move))
    [] op.name = "RETURN" -> op.lines
    [] op.name = "APPROVE" -> InIdOrder(Named(voucher[op.of].move))
    [] op.name = "REJECT" -> <<>>
    [] op.name = "CANCEL" ->
         IF voucher[op.of].status = "POSTED" /\ voucher[op.of].kind # "ISSUE"
         THEN InIdOrder({l \in Lots : voucher[op.of].move[l] > 0}) ELSE <<>>
    [] op.name \in {"CANCEL_MIR", "CANCEL_OPENING"} -> InIdOrder(LotsOf(op.doc))
    [] op.name = "REJECTION" -> <<op.lot>>

\* Mutant: numbered without locking the sequence's row.
SeqRows_Unlocked(op) == <<>>

\* Last, for a new voucher, the sequence it is numbered from.
SeqRows(op) == IF op.name \in Inserting THEN <<SeqRow(op.name)>> ELSE <<>>

-----------------------------------------------------------------------------
(* What each operation checks, on the committed rows. *)

HeadOk(op) ==
  CASE op.name \in {"ISSUE", "ADJUST"} -> TRUE
    [] op.name = "RETURN" -> IssueStands(op.of, op.day)
    [] op.name = "APPROVE" -> MayApprove(op.by, op.of)
    [] op.name = "REJECT" -> IsPendingAdjust(op.of) /\ op.by \in Admins
    [] op.name = "CANCEL" -> IsLive(op.of)
    [] op.name = "CANCEL_MIR" -> op.doc \in Mirs /\ doc[op.doc].status = "POSTED"
    [] op.name = "CANCEL_OPENING" -> op.doc \in Openings /\ doc[op.doc].status = "POSTED"
    [] op.name = "REJECTION" ->
         /\ RejectionInRange(op.lot, op.total)
         /\ today <= doc[DocOf[op.lot]].day + RejectDays

LotsOk(op) ==
  CASE op.name = "ISSUE" -> IssueOk(op.move, op.day)
    [] op.name = "ADJUST" -> AdjustOk(op.move, op.day)
    [] op.name = "APPROVE" -> AdjustOk(voucher[op.of].move, voucher[op.of].day)
    [] op.name = "CANCEL" -> voucher[op.of].status = "POSTED" => Undoable(op.of)
    [] op.name \in {"CANCEL_MIR", "CANCEL_OPENING"} ->
         \A l \in LotsOf(op.doc) : CoveredWith(l, 0)
    [] op.name = "REJECTION" -> CoveredAfterRejection(op.lot, op.total)
    [] OTHER -> TRUE

\* The row a request inserts or the change it makes, without a second look.
NewRow(op) ==
  CASE op.name = "ISSUE"  -> Entered("ISSUE", "POSTED", op.day, Nobody, 0, FALSE, op.move)
    [] op.name = "RETURN" -> Entered("RETURN", "POSTED", op.day, Nobody, op.of, FALSE, op.move)
    [] op.name = "ADJUST" -> AdjustRow(op.by, op.day, op.move)

Write(op) ==
  CASE op.name \in Inserting -> Insert(NewRow(op))
    [] op.name = "APPROVE" -> Decide(op.of, "POSTED")
    [] op.name = "REJECT" -> Decide(op.of, "REJECTED")
    [] op.name = "CANCEL" -> SetVoucherCancelled(op.of)
    [] op.name \in {"CANCEL_MIR", "CANCEL_OPENING"} -> SetCancelled(op.doc)
    [] op.name = "REJECTION" -> SetRejected(op.lot, op.total)

\* Whether the database's check constraints take the write.
Accepted(op) ==
  CASE op.name \in Inserting -> Storable(NewRow(op))
    [] op.name = "CANCEL" -> Storable([voucher[op.of] EXCEPT !.status = "CANCELLED"])
    [] OTHER -> TRUE

-----------------------------------------------------------------------------
(* The steps of a transaction. *)

InFlight == {r \in Reqs : txn[r].stage # "idle"}

\* Bound: no request starts that could not be given a row.
RowsLeft == posted + Cardinality({r \in InFlight : txn[r].op.name \in Inserting}) < MaxVouchers

Start(r, op) ==
  /\ txn[r].stage = "idle"
  /\ op.name \in Inserting => RowsLeft
  /\ txn' = [txn EXCEPT ![r] = [Idle EXCEPT !.stage = "head", !.op = op,
                                            !.need = HeadRows(op)]]
  /\ UNCHANGED <<vars, lastSeq, number>>

HeldByOther(r, row) == \E s \in Reqs \ {r} : row \in txn[s].held

\* The lock is granted, and what its statement returns is read: a return
\* line's check, a sequence's last number.
Acquire(r) ==
  LET t   == txn[r]
      row == Head(t.need)
      l   == row[2]
  IN  /\ t.need # <<>>
      /\ ~HeldByOther(r, row)
      /\ txn' = [txn EXCEPT ![r].need = Tail(t.need),
                            ![r].held = t.held \cup {row},
                            ![r].ok = t.ok /\ (t.stage = "lots" /\ t.op.name = "RETURN"
                                               => CanComeBack(t.op.of, l, t.op.move[l])),
                            ![r].seq = IF t.stage = "write" THEN lastSeq[t.op.name] ELSE t.seq]
      /\ UNCHANGED <<vars, lastSeq, number>>

\* Mutant: a failed request keeps its row locks.
Rollback_KeepsLocks(r) ==
  /\ txn' = [txn EXCEPT ![r].stage = "idle", ![r].need = <<>>]
  /\ UNCHANGED <<vars, lastSeq, number>>

\* A validation error or a deadlock: the transaction is rolled back.
Rollback(r) ==
  /\ txn' = [txn EXCEPT ![r] = Idle]
  /\ UNCHANGED <<vars, lastSeq, number>>

Advance(r, stage, need) ==
  /\ txn' = [txn EXCEPT ![r].stage = stage, ![r].need = need]
  /\ UNCHANGED <<vars, lastSeq, number>>

CheckHead(r) ==
  LET t == txn[r] IN
  /\ t.stage = "head" /\ t.need = <<>>
  /\ IF HeadOk(t.op) THEN Advance(r, "lots", LotRows(LotsToLock(t.op)))
     ELSE Rollback(r)

CheckLots(r) ==
  LET t == txn[r] IN
  /\ t.stage = "lots" /\ t.need = <<>>
  /\ IF t.ok /\ LotsOk(t.op) THEN Advance(r, "write", SeqRows(t.op))
     ELSE Rollback(r)

Commit(r) ==
  LET t == txn[r] IN
  /\ t.stage = "write" /\ t.need = <<>>
  /\ IF Accepted(t.op)
     THEN /\ Write(t.op)
          /\ txn' = [txn EXCEPT ![r] = Idle]
          /\ IF t.op.name \in Inserting
             THEN /\ lastSeq' = [lastSeq EXCEPT ![t.op.name] = t.seq + 1]
                  /\ number' = [number EXCEPT ![posted + 1] = t.seq + 1]
             ELSE UNCHANGED <<lastSeq, number>>
     ELSE Rollback(r)

Waits(r, s) == /\ r # s
               /\ txn[r].need # <<>>
               /\ Head(txn[r].need) \in txn[s].held

\* A request waits for one other at most, so a set in which each waits for
\* one of it and is waited for by one of it is made of cycles.
Circle(C) ==
  \A r \in C : (\E s \in C : Waits(r, s)) /\ (\E s \in C : Waits(s, r))
Deadlocked(r) == \E C \in SUBSET Reqs : r \in C /\ Circle(C)

\* PostgreSQL ends a deadlock by failing one of the transactions in it.
DeadlockAbort(r) == Deadlocked(r) /\ Rollback(r)

-----------------------------------------------------------------------------
(* The requests people make: well-formed payloads, right or wrong. *)

DatesAsked == {d \in Days : d <= today /\ d >= today - BackDays}

Orders(lots) == {s \in [1..Cardinality(lots) -> lots] : Range(s) = lots}

Asking == [NoOp EXCEPT !.now = today]

IssuesAsked ==
  {[Asking EXCEPT !.name = "ISSUE", !.day = d, !.move = mv] :
     d \in DatesAsked, mv \in Lines(-MaxQty..0)}

ReturnsAsked ==
  UNION {{[Asking EXCEPT !.name = "RETURN", !.day = d, !.of = i, !.move = mv, !.lines = order] :
            d \in DatesAsked, i \in 1..posted, order \in Orders(Named(mv))}
         : mv \in Lines(0..MaxQty)}

DifferencesAsked ==
  {[Asking EXCEPT !.name = "ADJUST", !.by = u, !.day = d, !.move = mv] :
     u \in Users, d \in DatesAsked, mv \in Lines(-MaxQty..MaxQty)}

DecisionsAsked ==
  {[Asking EXCEPT !.name = name, !.by = u, !.of = i] :
     name \in {"APPROVE", "REJECT"}, u \in Admins, i \in 1..posted}

CancelsAsked ==
  {[Asking EXCEPT !.name = "CANCEL", !.of = i] : i \in 1..posted}
    \cup {[Asking EXCEPT !.name = "CANCEL_MIR", !.doc = m] : m \in Mirs}
    \cup {[Asking EXCEPT !.name = "CANCEL_OPENING", !.doc = m] : m \in Openings}

RejectionsAsked ==
  {[Asking EXCEPT !.name = "REJECTION", !.lot = l, !.total = q] :
     l \in {k \in Lots : DocOf[k] \in Mirs}, q \in 1..MaxQty+1}

Asked == IssuesAsked \cup ReturnsAsked \cup DifferencesAsked \cup DecisionsAsked
           \cup CancelsAsked \cup RejectionsAsked

\* Bound: a request passes at most Straddle midnights after its date check.
TxnTick ==
  /\ \A r \in InFlight : today - txn[r].op.now < Straddle
  /\ Tick
  /\ UNCHANGED txnVars

\* post_mir inserts its lots; nobody can have locked them before.
TxnReceiveMir ==
  /\ \E m \in Docs, day \in Days : \E rows \in [LotsOf(m) -> LotRecord] : ReceiveMir(m, day, rows)
  /\ UNCHANGED txnVars

TxnInit ==
  /\ Init
  /\ txn = [r \in Reqs |-> Idle]
  /\ lastSeq = [kind \in Kinds |-> 0]
  /\ number = [i \in VoucherIds |-> 0]

Run(r) == Acquire(r) \/ CheckHead(r) \/ CheckLots(r) \/ Commit(r) \/ DeadlockAbort(r)

Requests ==
  \/ TxnReceiveMir
  \/ \E r \in Reqs : \E op \in {o \in Asked : o.name \in Allowed} : Start(r, op)
  \/ \E r \in Reqs : Run(r)

TxnNext == TxnTick \/ Requests

TxnSpec == TxnInit /\ [][TxnNext]_allVars

\* One day of the store.  PostgreSQL queues the requests waiting for a row and
\* breaks deadlocks, and a worker runs its request to the end, so a request
\* that again and again could go on does.
FairDaySpec ==
  /\ TxnInit /\ [][Requests]_allVars
  /\ \A r \in Reqs : SF_allVars(Run(r))
-----------------------------------------------------------------------------
\* Every commit is a step of StockLedger: what a request decided under its
\* locks, statements and maybe midnights ago, still holds when it is written.
CommitsAreSteps == Spec

\* Only a return can be in a deadlock with another posting: every other
\* operation takes its document, then its lots in id order, then its
\* sequence, and a cycle of such requests is impossible.
DeadlockNeedsReturn ==
  \A r \in Reqs : Deadlocked(r) =>
    \E s \in Reqs : Deadlocked(s) /\ txn[s].op.name = "RETURN"

\* No request waits for ever: it is saved, refused or failed as a deadlock.
EveryRequestEnds == \A r \in Reqs : r \in InFlight ~> r \notin InFlight

\* Vouchers of a kind are numbered 1, 2, 3, ... with none missing and none
\* twice, whatever was refused or rolled back in between (_next_seq).
NumberedWithoutGaps ==
  \A kind \in Kinds :
    LET rows == {i \in 1..posted : voucher[i].kind = kind}
    IN  /\ {number[i] : i \in rows} = 1..Cardinality(rows)
        /\ lastSeq[kind] = Cardinality(rows)

\* Two decisions on one voucher made at the same time - approved and turned
\* down, approved and withdrawn, cancelled twice - never both take effect:
\* a voucher leaves PENDING once and POSTED once, and never comes back.
DecidedOnce ==
  [][\A i \in 1..posted :
       voucher'[i].status # voucher[i].status =>
         <<voucher[i].status, voucher'[i].status>> \in
           {<<"PENDING", "POSTED">>, <<"PENDING", "REJECTED">>,
            <<"PENDING", "CANCELLED">>, <<"POSTED", "CANCELLED">>}]_allVars

=============================================================================
