---------------------------- MODULE StockLedger ----------------------------
(***************************************************************************)
(* The RM stock ledger of one plant (apps/services/stock_service.py) with  *)
(* every operation as one atomic step: what each operation checks, and     *)
(* what it changes when the checks pass.  StockTxn refines this module     *)
(* with the row locks and separate statements of the database             *)
(* transactions.                                                           *)
(*                                                                         *)
(* A lot stores no quantity.  What it holds on a day is replayed from its  *)
(* document (a MIR, or an opening-balance adjustment from before MIRs were *)
(* the only way in) and from the posted vouchers.  A voucher names a lot   *)
(* on at most one line, so its lines are one signed quantity per lot.      *)
(* Quantities are in the lot's stock unit.                                 *)
(***************************************************************************)
EXTENDS StockRules

CONSTANTS
  Lots,         \* StockLot rows
  Docs,         \* documents lots come in on
  Openings,     \* the documents that are old opening balances, not MIRs
  DocOf,        \* the document of each lot
  Users,        \* people who enter and decide stock differences
  Nobody,       \* a created_by that is null or never read again
  Admins,       \* those whose role is admin
  LastDay,      \* bound: the days are 1..LastDay
  BackDays,     \* BACKDATE_DAYS
  Straddle,     \* midnights a request may pass between its date check and
                \* its commit: 0 when an operation is one step
  RejectDays,   \* REJECTION_WINDOW_DAYS
  MaxQty,       \* bound on one quantity entered
  MaxVouchers   \* bound: voucher rows are 1..MaxVouchers

ASSUME LedgerAssumption ==
  /\ Openings \subseteq Docs
  /\ DocOf \in [Lots -> Docs]
  /\ Admins \subseteq Users
  /\ Nobody \notin Users
  /\ LastDay \in Nat \ {0}
  /\ BackDays \in Nat
  /\ Straddle \in Nat
  /\ RejectDays \in Nat
  /\ MaxQty \in Nat \ {0}
  /\ MaxVouchers \in Nat

VARIABLES
  today,     \* timezone.localdate()
  doc,       \* Mir.status and mir_date (opening balance: the voucher's)
  lot,       \* MirLine quantities and StockLot.stocked, per lot
  voucher,   \* StockVoucher rows with their lines
  posted     \* how many voucher rows exist

vars == <<today, doc, lot, voucher, posted>>

Days     == 1..LastDay
Mirs     == Docs \ Openings
VoucherIds == 1..MaxVouchers
Kinds    == {"ISSUE", "RETURN", "ADJUST"}
Statuses == {"PENDING", "POSTED", "REJECTED", "CANCELLED"}
LotsOf(m) == {l \in Lots : DocOf[l] = m}

DocRecord  == [status : {"NONE", "POSTED", "CANCELLED"}, day : Days]
LotRecord  == [received : 0..MaxQty, rejected : 0..MaxQty, stocked : BOOLEAN]
\* `of` is return_of (0 when null); `decided` is decided_at IS NOT NULL;
\* move[l] is qty * direction of the line naming lot l, 0 when none does.
VoucherRecord ==
  [kind : Kinds, status : Statuses, day : Days, by : Users \cup {Nobody},
   of : 0..MaxVouchers, decided : BOOLEAN, move : [Lots -> Int]]

-----------------------------------------------------------------------------
(* What the books hold: _lot_in, _posted_allocations, lot_events. *)

LotIn(l) ==
  IF lot[l].stocked /\ doc[DocOf[l]].status = "POSTED"
  THEN lot[l].received - lot[l].rejected
  ELSE 0

IsRow(i) == i \in 1..posted

\* What voucher i has moved in lot l by the end of day d.
Moved(i, l, d) ==
  IF IsRow(i) /\ voucher[i].status = "POSTED" /\ voucher[i].day <= d
  THEN voucher[i].move[l] ELSE 0

MovedBy(l, d) == Total([i \in VoucherIds |-> Moved(i, l, d)], MaxVouchers)

\* The receipt as an event on its day; `received` stands for _lot_in or for
\* the in_override of a MIR being cancelled or rejected.
ReceiptBy(l, d, received) == IF doc[DocOf[l]].day <= d THEN received ELSE 0

\* The end-of-day balance of lot l on day d.
Held(l, d) == ReceiptBy(l, d, LotIn(l)) + MovedBy(l, d)

\* Mutant: only the day itself is looked at, not the days after it.
HasRoom_ThatDay(l, day, quantity) == quantity <= Held(l, day)

\* quantity <= _room(lot, day): what leaves on `day` must be held on that day
\* and on every day after it.
HasRoom(l, day, quantity) == \A d \in day..LastDay : quantity <= Held(l, d)

\* min_running_balance(...) >= 0 with lot l's receipt replaced.
CoveredWith(l, received) ==
  \A d \in Days : ReceiptBy(l, d, received) + MovedBy(l, d) >= 0

\* min_running_balance(...) >= 0 with voucher i left out.
CoveredWithout(i, l) == \A d \in Days : Held(l, d) - Moved(i, l, d) >= 0

PostedReturnsOf(i) ==
  {r \in 1..posted : voucher[r].of = i /\ voucher[r].status = "POSTED"}

\* Posted returns of issue i into lot l.
Returned(i, l) ==
  Total([r \in VoucherIds |-> IF r \in PostedReturnsOf(i)
                              THEN voucher[r].move[l] ELSE 0],
        MaxVouchers)

StillOut(i, l) == -voucher[i].move[l] - Returned(i, l)

-----------------------------------------------------------------------------
(* The check constraints of StockVoucher.Meta on a row to be written. *)
Storable(v) ==
  /\ v.kind = "RETURN" <=> v.of # 0
  /\ v.kind = "ADJUST" /\ v.status # "PENDING" => v.decided
  /\ v.status = "REJECTED" => v.kind = "ADJUST"

\* _receipt: at this plant, held in store and its document posted.
UsableReceipt(l) == lot[l].stocked /\ LotIn(l) # 0

\* _take for every lot a voucher draws.
CanTake(move, day) ==
  \A l \in Lots : move[l] < 0 =>
    /\ day >= doc[DocOf[l]].day
    /\ HasRoom(l, day, -move[l])

IssueOk(move, day) ==
  /\ \A l \in Lots : move[l] # 0 => UsableReceipt(l)
  /\ CanTake(move, day)

IssueStands(i, day) ==
  /\ IsRow(i)
  /\ voucher[i].kind = "ISSUE"
  /\ voucher[i].status = "POSTED"
  /\ day >= voucher[i].day

\* One line of a return: no more than its issue line still has out.
CanComeBack(i, l, quantity) ==
  quantity # 0 => voucher[i].move[l] # 0 /\ quantity <= StillOut(i, l)

ReturnOk(i, move, day) ==
  /\ IssueStands(i, day)
  /\ \A l \in Lots : CanComeBack(i, l, move[l])

\* Mutant: a gain is not held to the day its receipt came in.
AdjustOk_GainAnyDay(move, day) ==
  /\ \A l \in Lots : move[l] # 0 => UsableReceipt(l)
  /\ CanTake(move, day)

\* A count is entered as the loss or gain it makes against the books.
AdjustOk(move, day) ==
  /\ \A l \in Lots : move[l] # 0 => /\ UsableReceipt(l)
                                     /\ day >= doc[DocOf[l]].day
  /\ CanTake(move, day)

Entered(kind, status, day, u, of, decided, move) ==
  [kind |-> kind, status |-> status, day |-> day, by |-> u, of |-> of,
   decided |-> decided, move |-> move]

\* post_voucher's insert: the next row, if the database accepts it.
Insert(v) ==
  /\ posted < MaxVouchers
  /\ Storable(v)
  /\ posted' = posted + 1
  /\ voucher' = [voucher EXCEPT ![posted + 1] = v]
  /\ UNCHANGED <<today, doc, lot>>

Rewrite(i, v) ==
  /\ Storable(v)
  /\ voucher' = [voucher EXCEPT ![i] = v]
  /\ UNCHANGED <<today, doc, lot, posted>>

\* The dates of a new voucher at its commit: _header accepts today or up to
\* BackDays back, on the day the request is checked.
EntryDays == {d \in Days : d <= today /\ d >= today - BackDays - Straddle}

\* Signed lines in `range`, at least one of them.
Lines(range) == {m \in [Lots -> range] : \E l \in Lots : m[l] # 0}

-----------------------------------------------------------------------------
(* The operations. *)

Unwritten == [kind |-> "ISSUE", status |-> "CANCELLED", day |-> 1,
              by |-> Nobody, of |-> 0, decided |-> FALSE,
              move |-> [l \in Lots |-> 0]]

\* A fresh store: no MIR yet; the opening balances, where the plant has any,
\* posted on the first day.
Init ==
  /\ today = 1
  /\ doc = [m \in Docs |->
              [status |-> IF m \in Openings THEN "POSTED" ELSE "NONE", day |-> 1]]
  /\ lot \in [Lots -> LotRecord]
  /\ \A l \in Lots : IF DocOf[l] \in Openings
                     THEN lot[l] = [received |-> MaxQty, rejected |-> 0, stocked |-> TRUE]
                     ELSE lot[l] = [received |-> 0, rejected |-> 0, stocked |-> TRUE]
  /\ voucher = [i \in VoucherIds |-> Unwritten]
  /\ posted = 0

Tick ==
  /\ today < LastDay
  /\ today' = today + 1
  /\ UNCHANGED <<doc, lot, voucher, posted>>

\* post_mir -> receive_mir: a MIR is dated today or any day before.
ReceiveMir(m, day, rows) ==
  /\ m \in Mirs
  /\ doc[m].status = "NONE"
  /\ day <= today
  /\ \A l \in LotsOf(m) : rows[l].received > 0 /\ rows[l].rejected <= rows[l].received
  /\ doc' = [doc EXCEPT ![m] = [status |-> "POSTED", day |-> day]]
  /\ lot' = [l \in Lots |-> IF l \in LotsOf(m) THEN rows[l] ELSE lot[l]]
  /\ UNCHANGED <<today, voucher, posted>>

\* Mutant: cancelled without replaying the lots.
CanCancelMir_Unchecked(m) == m \in Mirs /\ doc[m].status = "POSTED"

\* cancel_mir with check_mir_cancel: refused when a lot would be short.
CanCancelMir(m) ==
  /\ m \in Mirs
  /\ doc[m].status = "POSTED"
  /\ \A l \in LotsOf(m) : CoveredWith(l, 0)

SetCancelled(m) ==
  /\ doc' = [doc EXCEPT ![m].status = "CANCELLED"]
  /\ UNCHANGED <<today, lot, voucher, posted>>

CancelMir(m) == CanCancelMir(m) /\ SetCancelled(m)

\* cancel_voucher of an old opening balance: its lots are `created` there.
CanCancelOpening(m) ==
  /\ m \in Openings
  /\ doc[m].status = "POSTED"
  /\ \A l \in LotsOf(m) : CoveredWith(l, 0)

CancelOpening(m) == CanCancelOpening(m) /\ SetCancelled(m)

\* Mutant: more can be rejected than was received.
RejectionInRange_NoCeiling(l, total) ==
  /\ DocOf[l] \in Mirs
  /\ doc[DocOf[l]].status = "POSTED"
  /\ today <= doc[DocOf[l]].day + RejectDays + Straddle
  /\ total > lot[l].rejected

\* record_rejection with check_mir_rejection: raises the rejected total.
RejectionInRange(l, total) ==
  /\ DocOf[l] \in Mirs
  /\ doc[DocOf[l]].status = "POSTED"
  /\ today <= doc[DocOf[l]].day + RejectDays + Straddle
  /\ total > lot[l].rejected
  /\ total <= lot[l].received

CoveredAfterRejection(l, total) ==
  lot[l].stocked => CoveredWith(l, lot[l].received - total)

SetRejected(l, total) ==
  /\ lot' = [lot EXCEPT ![l].rejected = total]
  /\ UNCHANGED <<today, doc, voucher, posted>>

RecordRejection(l, total) ==
  /\ RejectionInRange(l, total)
  /\ CoveredAfterRejection(l, total)
  /\ SetRejected(l, total)

\* Who entered an issue or a return is never read again.
PostIssue(day, move) ==
  /\ IssueOk(move, day)
  /\ Insert(Entered("ISSUE", "POSTED", day, Nobody, 0, FALSE, move))

PostReturn(day, i, move) ==
  /\ ReturnOk(i, move, day)
  /\ Insert(Entered("RETURN", "POSTED", day, Nobody, i, FALSE, move))

\* An admin's difference posts at once; anyone else's waits, moving nothing.
AdjustRow(u, day, move) ==
  IF u \in Admins
  THEN Entered("ADJUST", "POSTED", day, u, 0, TRUE, move)
  ELSE Entered("ADJUST", "PENDING", day, u, 0, FALSE, move)

PostAdjust(u, day, move) ==
  /\ AdjustOk(move, day)
  /\ Insert(AdjustRow(u, day, move))

IsPendingAdjust(i) ==
  IsRow(i) /\ voucher[i].kind = "ADJUST" /\ voucher[i].status = "PENDING"

\* An admin other than the person who entered it.
MayApprove(u, i) == IsPendingAdjust(i) /\ u \in Admins /\ voucher[i].by # u

Decide(i, status) ==
  Rewrite(i, [voucher[i] EXCEPT !.status = status, !.decided = TRUE])

\* approve_adjustment: re-checked against its own day, however old.
Approve(u, i) ==
  /\ MayApprove(u, i)
  /\ AdjustOk(voucher[i].move, voucher[i].day)
  /\ Decide(i, "POSTED")

Reject(u, i) ==
  /\ IsPendingAdjust(i)
  /\ u \in Admins
  /\ Decide(i, "REJECTED")

\* Mutant: an issue is cancelled although material has come back from it.
Undoable_DespiteReturns(i) ==
  voucher[i].kind # "ISSUE" =>
    \A l \in Lots : voucher[i].move[l] > 0 => CoveredWithout(i, l)

\* What cancel_voucher asks of a posted voucher: an issue has no posted
\* return; anything that put stock in must not have been drawn on since.
Undoable(i) ==
  IF voucher[i].kind = "ISSUE"
  THEN PostedReturnsOf(i) = {}
  ELSE \A l \in Lots : voucher[i].move[l] > 0 => CoveredWithout(i, l)

IsLive(i) == IsRow(i) /\ voucher[i].status \in {"POSTED", "PENDING"}

\* decided_at is not among the fields cancel_voucher saves.
SetVoucherCancelled(i) == Rewrite(i, [voucher[i] EXCEPT !.status = "CANCELLED"])

CancelVoucher(i) ==
  /\ IsLive(i)
  /\ voucher[i].status = "POSTED" => Undoable(i)
  /\ SetVoucherCancelled(i)

Next ==
  \/ Tick
  \/ \E m \in Docs, day \in Days : \E rows \in [LotsOf(m) -> LotRecord] : ReceiveMir(m, day, rows)
  \/ \E m \in Docs : CancelMir(m) \/ CancelOpening(m)
  \/ \E l \in Lots, total \in 1..MaxQty+1 : RecordRejection(l, total)
  \/ \E day \in EntryDays :
       \/ \E move \in Lines(-MaxQty..0) : PostIssue(day, move)
       \/ \E i \in VoucherIds, move \in Lines(0..MaxQty) : PostReturn(day, i, move)
       \/ \E u \in Users, move \in Lines(-MaxQty..MaxQty) : PostAdjust(u, day, move)
  \/ \E u \in Users, i \in VoucherIds : Approve(u, i) \/ Reject(u, i)
  \/ \E i \in VoucherIds : CancelVoucher(i)

Spec == Init /\ [][Next]_vars
-----------------------------------------------------------------------------
TypeOK ==
  /\ today \in Days
  /\ doc \in [Docs -> DocRecord]
  /\ lot \in [Lots -> LotRecord]
  /\ voucher \in [VoucherIds -> VoucherRecord]
  /\ posted \in 0..MaxVouchers

\* No receipt is below zero at the end of any day, however the backdated
\* issues, returns, differences, cancellations and rejections interleave
\* (stock_rules: "Stock may never go below zero on ANY day, not only today").
NoNegativeDay == \A l \in Lots, d \in Days : Held(l, d) >= 0

\* What has come back from an issue never exceeds what it took, lot by lot,
\* and material comes back only from an issue that still stands and on or
\* after its day (_evaluate_return, cancel_voucher's refusal of an issue with
\* a posted return).
ReturnsWithinIssue ==
  \A i \in 1..posted : voucher[i].kind = "ISSUE" =>
    /\ \A l \in Lots : StillOut(i, l) >= 0
    /\ \A r \in PostedReturnsOf(i) : /\ voucher[i].status = "POSTED"
                                     /\ voucher[r].day >= voucher[i].day

\* Nothing posted touches a receipt before the day it came in, not even a
\* difference approved long after it was entered (_take, _evaluate_adjust).
NothingBeforeReceipt ==
  \A i \in 1..posted, l \in Lots :
    voucher[i].status \in {"POSTED", "PENDING"} /\ voucher[i].move[l] # 0
      => voucher[i].day >= doc[DocOf[l]].day

\* What the three invariants above need to be inductive: a lot's rejected
\* quantity is within what it received, vouchers move stock the way their kind
\* says, a return names an earlier row, and only documents that have been
\* entered have been drawn on.
Shape ==
  /\ \A l \in Lots : lot[l].rejected <= lot[l].received
  /\ \A i \in 1..posted :
       /\ voucher[i].of \in 0..posted
       /\ voucher[i].kind # "RETURN" => voucher[i].of = 0
       /\ \A l \in Lots :
            /\ voucher[i].kind = "ISSUE" => voucher[i].move[l] <= 0
            /\ voucher[i].kind = "RETURN" => voucher[i].move[l] >= 0
            /\ voucher[i].status \in {"POSTED", "PENDING"} /\ voucher[i].move[l] # 0
                 => doc[DocOf[l]].status # "NONE"

LedgerInv ==
  TypeOK /\ Shape /\ NoNegativeDay /\ ReturnsWithinIssue /\ NothingBeforeReceipt

\* The ledger implements the plain book of balances of LotBook: every step is
\* one dated document, and the book is never short.
HeldBook == [l \in Lots |-> [d \in Days |-> Held(l, d)]]
Book == INSTANCE LotBook WITH book <- HeldBook
ImplementsBook == Book!Spec

-----------------------------------------------------------------------------
(* What a docstring says of the ledger and the code does not do; a run of  *)
(* its own refutes it.                                                     *)

\* cancel_voucher: "Cancel a posted voucher (or withdraw a pending
\* difference)."
PendingCanBeWithdrawn ==
  \A i \in VoucherIds : IsPendingAdjust(i) => ENABLED CancelVoucher(i)
=============================================================================
