---------------------------- MODULE StockProofs ----------------------------
(***************************************************************************)
(* Proofs about the stock ledger and its transactions for every value of   *)
(* their constants.                                                        *)
(*                                                                         *)
(* Each operation of StockLedger changes at most one voucher row, or only  *)
(* receipts.  The first lemmas say what that does to a replayed total      *)
(* (StockSums); the safety theorems then go action by action, and the same *)
(* facts show that the ledger implements LotBook.  Then the balance replay *)
(* behind HasRoom, CoveredWith and CoveredWithout.                         *)
(*                                                                         *)
(* The second half shows that the transactions of StockTxn implement the   *)
(* atomic operations of StockLedger.  Its invariant says, request by       *)
(* request, which rows it has locked and which it will yet lock, and what  *)
(* it knows: what it read under those locks is still so.  Undisturbed says *)
(* what the steps of the others leave alone for the holder of a set of     *)
(* rows; that each of them does, and that it is enough for the holder's    *)
(* knowledge to last, is the argument that the locks are the right ones.   *)
(***************************************************************************)
EXTENDS StockTxn, StockReplay, StockSums, SequenceTheorems

-----------------------------------------------------------------------------
(* Replayed totals. *)

Moves(l, d)   == [i \in VoucherIds |-> Moved(i, l, d)]
Returns(i, l) == [r \in VoucherIds |-> IF r \in PostedReturnsOf(i)
                                       THEN voucher[r].move[l] ELSE 0]

LEMMA MovedType ==
  ASSUME TypeOK, NEW l \in Lots, NEW d \in Days
  PROVE  \A i \in VoucherIds : Moved(i, l, d) \in Int
BY DEF TypeOK, VoucherRecord, Moved, VoucherIds

LEMMA MovedByType ==
  ASSUME TypeOK, NEW l \in Lots, NEW d \in Days
  PROVE  MovedBy(l, d) \in Int
<1>1. MaxVouchers \in Nat
  BY LedgerAssumption
<1>2. Moves(l, d) \in [1..MaxVouchers -> Int]
  BY MovedType DEF Moves, VoucherIds
<1>3. Total(Moves(l, d), MaxVouchers) \in Int
  BY <1>1, <1>2, TotalType
<1>4. QED
  BY <1>3 DEF MovedBy, Moves

LEMMA LotInType ==
  ASSUME TypeOK, NEW l \in Lots
  PROVE  LotIn(l) \in Int
BY LedgerAssumption DEF TypeOK, LotRecord, LotIn

LEMMA HeldType ==
  ASSUME TypeOK, NEW l \in Lots, NEW d \in Days
  PROVE  Held(l, d) \in Int
BY LotInType, MovedByType DEF Held, ReceiptBy

\* Voucher i is the only row that changes what it moves.
LEMMA MovedByOneChanged ==
  ASSUME TypeOK, TypeOK', NEW l \in Lots, NEW d \in Days, NEW i \in VoucherIds,
         \A k \in VoucherIds : k # i => Moved(k, l, d)' = Moved(k, l, d)
  PROVE  MovedBy(l, d)' = MovedBy(l, d) - Moved(i, l, d) + Moved(i, l, d)'
<1> DEFINE f == Moves(l, d)
           g == [k \in VoucherIds |-> Moved(k, l, d)']
<1>1. MaxVouchers \in Nat
  BY LedgerAssumption
<1>2. f \in [1..MaxVouchers -> Int]
  BY MovedType DEF Moves, VoucherIds
<1>3. \A k \in VoucherIds : Moved(k, l, d)' \in Int
  BY DEF TypeOK, VoucherRecord, Moved, VoucherIds
<1>4. g \in [1..MaxVouchers -> Int]
  BY <1>3 DEF VoucherIds
<1>5. i \in 1..MaxVouchers /\ \A k \in 1..MaxVouchers : k # i => g[k] = f[k]
  BY DEF Moves, VoucherIds
<1>6. f[i] = Moved(i, l, d) /\ g[i] = Moved(i, l, d)'
  BY DEF Moves
<1>7. MovedBy(l, d) = Total(f, MaxVouchers) /\ MovedBy(l, d)' = Total(g, MaxVouchers)
  BY DEF MovedBy, Moves
<1> HIDE DEF f, g
<1>8. Total(g, MaxVouchers) = Total(f, MaxVouchers) - f[i] + g[i]
  BY <1>1, <1>2, <1>4, <1>5, TotalOneChanged
<1>9. QED
  BY <1>6, <1>7, <1>8

\* No row changes what it moves.
LEMMA MovedBySame ==
  ASSUME TypeOK, TypeOK', NEW l \in Lots, NEW d \in Days,
         \A k \in VoucherIds : Moved(k, l, d)' = Moved(k, l, d)
  PROVE  MovedBy(l, d)' = MovedBy(l, d)
<1>1. [k \in VoucherIds |-> Moved(k, l, d)'] = [k \in VoucherIds |-> Moved(k, l, d)]
  OBVIOUS
<1>2. QED
  BY <1>1 DEF MovedBy

-----------------------------------------------------------------------------
(* Type correctness. *)

LEMMA LinesType ==
  ASSUME NEW R \in SUBSET Int, NEW move \in Lines(R)
  PROVE  move \in [Lots -> R] /\ move \in [Lots -> Int]
BY DEF Lines

LEMMA InsertType ==
  ASSUME TypeOK, NEW v \in VoucherRecord, Insert(v)
  PROVE  TypeOK'
BY LedgerAssumption DEF TypeOK, Insert, VoucherIds, VoucherRecord

LEMMA RewriteType ==
  ASSUME TypeOK, NEW i \in VoucherIds, NEW v \in VoucherRecord, Rewrite(i, v)
  PROVE  TypeOK'
BY DEF TypeOK, Rewrite, VoucherRecord

LEMMA EnteredType ==
  ASSUME NEW kind \in Kinds, NEW status \in Statuses, NEW day \in Days,
         NEW u \in Users \cup {Nobody}, NEW of \in 0..MaxVouchers,
         NEW decided \in BOOLEAN, NEW move \in [Lots -> Int]
  PROVE  Entered(kind, status, day, u, of, decided, move) \in VoucherRecord
BY DEF Entered, VoucherRecord

LEMMA TypeInit == Init => TypeOK
<1> SUFFICES ASSUME Init PROVE TypeOK
  OBVIOUS
<1>1. today \in Days /\ 1 \in Days
  BY LedgerAssumption DEF Init, Days
<1>2. doc \in [Docs -> DocRecord]
  BY <1>1 DEF Init, DocRecord
<1>3. lot \in [Lots -> LotRecord]
  BY DEF Init
<1>4. Unwritten \in VoucherRecord
  BY <1>1, LedgerAssumption DEF Unwritten, VoucherRecord, Kinds, Statuses
<1>5. voucher \in [VoucherIds -> VoucherRecord]
  BY <1>4 DEF Init
<1>6. posted \in 0..MaxVouchers
  BY LedgerAssumption DEF Init
<1>7. QED
  BY <1>1, <1>2, <1>3, <1>5, <1>6 DEF TypeOK

LEMMA TypeNext == TypeOK /\ [Next]_vars => TypeOK'
<1> SUFFICES ASSUME TypeOK, [Next]_vars PROVE TypeOK'
  OBVIOUS
<1> USE LedgerAssumption
<1>1. CASE Tick
  BY <1>1 DEF Tick, TypeOK, Days
<1>2. ASSUME NEW m \in Docs, NEW day \in Days, NEW rows \in [LotsOf(m) -> LotRecord],
             ReceiveMir(m, day, rows)
      PROVE  TypeOK'
  BY <1>2 DEF ReceiveMir, TypeOK, DocRecord, LotsOf
<1>3. ASSUME NEW m \in Docs, SetCancelled(m)
      PROVE  TypeOK'
  BY <1>3 DEF SetCancelled, TypeOK, DocRecord
<1>4. ASSUME NEW l \in Lots, NEW total \in 1..MaxQty+1, RecordRejection(l, total)
      PROVE  TypeOK'
  BY <1>4 DEF RecordRejection, RejectionInRange, SetRejected, TypeOK, LotRecord
<1>5. ASSUME NEW day \in EntryDays, NEW move \in Lines(-MaxQty..0), PostIssue(day, move)
      PROVE  TypeOK'
  <2>1. move \in [Lots -> Int] /\ day \in Days /\ 0 \in 0..MaxVouchers
    BY LinesType DEF EntryDays
  <2>2. Entered("ISSUE", "POSTED", day, Nobody, 0, FALSE, move) \in VoucherRecord
    BY <2>1, EnteredType DEF Kinds, Statuses
  <2>3. QED
    BY <1>5, <2>2, InsertType DEF PostIssue
<1>6. ASSUME NEW day \in EntryDays, NEW i \in VoucherIds, NEW move \in Lines(0..MaxQty),
             PostReturn(day, i, move)
      PROVE  TypeOK'
  <2>1. move \in [Lots -> Int] /\ day \in Days /\ i \in 0..MaxVouchers
    BY LinesType DEF EntryDays, VoucherIds
  <2>2. Entered("RETURN", "POSTED", day, Nobody, i, FALSE, move) \in VoucherRecord
    BY <2>1, EnteredType DEF Kinds, Statuses
  <2>3. QED
    BY <1>6, <2>2, InsertType DEF PostReturn
<1>7. ASSUME NEW day \in EntryDays, NEW u \in Users, NEW move \in Lines(-MaxQty..MaxQty),
             PostAdjust(u, day, move)
      PROVE  TypeOK'
  <2>1. move \in [Lots -> Int] /\ day \in Days /\ 0 \in 0..MaxVouchers
    BY LinesType DEF EntryDays
  <2>2. AdjustRow(u, day, move) \in VoucherRecord
    BY <2>1, EnteredType DEF AdjustRow, Kinds, Statuses
  <2>3. QED
    BY <1>7, <2>2, InsertType DEF PostAdjust
<1>8. ASSUME NEW i \in VoucherIds, NEW status \in {"POSTED", "REJECTED"}, Decide(i, status)
      PROVE  TypeOK'
  <2>1. [voucher[i] EXCEPT !.status = status, !.decided = TRUE] \in VoucherRecord
    BY DEF TypeOK, VoucherRecord, Statuses
  <2>2. QED
    BY <1>8, <2>1, RewriteType DEF Decide
<1>9. ASSUME NEW i \in VoucherIds, CancelVoucher(i)
      PROVE  TypeOK'
  <2>1. [voucher[i] EXCEPT !.status = "CANCELLED"] \in VoucherRecord
    BY DEF TypeOK, VoucherRecord, Statuses
  <2>2. QED
    BY <1>9, <2>1, RewriteType DEF CancelVoucher, SetVoucherCancelled
<1>10. CASE UNCHANGED vars
  BY <1>10 DEF vars, TypeOK
<1>11. QED
  BY <1>1, <1>2, <1>3, <1>4, <1>5, <1>6, <1>7, <1>8, <1>9, <1>10
     DEF Next, CancelMir, CancelOpening, Approve, Reject

\* Every row the ledger holds stays a row of its type.
THEOREM LedgerTypeCorrect == Spec => []TypeOK
<1>1. QED
  BY TypeInit, TypeNext, PTL DEF Spec

-----------------------------------------------------------------------------
(* What writing one voucher row does. *)

\* Row i is the only thing that changes in the books.
OnlyRow(i) ==
  /\ UNCHANGED <<doc, lot>>
  /\ \A k \in VoucherIds : k # i => /\ voucher'[k] = voucher[k]
                                    /\ IsRow(k)' <=> IsRow(k)

\* What row r has brought back into lot l from issue i.
Back(r, i, l) == IF r \in PostedReturnsOf(i) THEN voucher[r].move[l] ELSE 0

LEMMA RowOfInsert ==
  ASSUME TypeOK, NEW v \in VoucherRecord, Insert(v), NEW n, n = posted + 1
  PROVE  /\ n \in VoucherIds /\ OnlyRow(n)
         /\ voucher'[n] = v /\ ~IsRow(n) /\ IsRow(n)' /\ posted' = n
<1>1. posted \in Nat /\ n \in VoucherIds /\ posted' = n
  BY LedgerAssumption DEF TypeOK, Insert, VoucherIds
<1>2. voucher'[n] = v /\ UNCHANGED <<doc, lot>>
  BY <1>1 DEF TypeOK, Insert
<1>3. \A k \in VoucherIds : k # n => voucher'[k] = voucher[k]
  BY DEF TypeOK, Insert
<1>4. \A k \in VoucherIds : k # n => (IsRow(k)' <=> IsRow(k))
  BY <1>1 DEF IsRow, VoucherIds
<1>5. ~IsRow(n) /\ IsRow(n)'
  BY <1>1 DEF IsRow
<1>6. QED
  BY <1>1, <1>2, <1>3, <1>4, <1>5 DEF OnlyRow

LEMMA RowOfRewrite ==
  ASSUME TypeOK, NEW i \in VoucherIds, NEW v \in VoucherRecord, Rewrite(i, v)
  PROVE  OnlyRow(i) /\ voucher'[i] = v /\ posted' = posted
BY DEF TypeOK, Rewrite, OnlyRow, IsRow

LEMMA HeldOnlyRow ==
  ASSUME TypeOK, TypeOK', NEW i \in VoucherIds, OnlyRow(i), NEW l \in Lots, NEW d \in Days
  PROVE  Held(l, d)' = Held(l, d) - Moved(i, l, d) + Moved(i, l, d)'
<1>1. \A k \in VoucherIds : k # i => Moved(k, l, d)' = Moved(k, l, d)
  BY DEF OnlyRow, Moved
<1>2. MovedBy(l, d)' = MovedBy(l, d) - Moved(i, l, d) + Moved(i, l, d)'
  BY <1>1, MovedByOneChanged
<1>3. ReceiptBy(l, d, LotIn(l))' = ReceiptBy(l, d, LotIn(l))
  BY DEF OnlyRow, ReceiptBy, LotIn
<1>4. MovedBy(l, d) \in Int /\ Moved(i, l, d) \in Int /\ Moved(i, l, d)' \in Int
  BY MovedByType, MovedType DEF TypeOK, VoucherRecord, Moved, VoucherIds
<1>5. ReceiptBy(l, d, LotIn(l)) \in Int
  BY LotInType DEF ReceiptBy
<1>6. QED
  BY <1>2, <1>3, <1>4, <1>5 DEF Held

LEMMA BackType ==
  ASSUME TypeOK, NEW i \in VoucherIds, NEW l \in Lots
  PROVE  \A r \in VoucherIds : Back(r, i, l) \in Int
BY DEF TypeOK, VoucherRecord, Back

LEMMA ReturnedType ==
  ASSUME TypeOK, NEW i \in VoucherIds, NEW l \in Lots
  PROVE  Returned(i, l) \in Int
<1>1. Returns(i, l) \in [1..MaxVouchers -> Int]
  BY BackType DEF Returns, Back, VoucherIds
<1>2. Total(Returns(i, l), MaxVouchers) \in Int
  BY <1>1, LedgerAssumption, TotalType
<1>3. QED
  BY <1>2 DEF Returned, Returns

LEMMA NoReturns ==
  ASSUME TypeOK, NEW i \in VoucherIds, NEW l \in Lots, PostedReturnsOf(i) = {}
  PROVE  Returned(i, l) = 0
<1>1. Returns(i, l) \in [1..MaxVouchers -> Int]
  BY BackType DEF Returns, Back, VoucherIds
<1>2. \A k \in 1..MaxVouchers : Returns(i, l)[k] = 0
  BY DEF Returns, VoucherIds
<1>3. Total(Returns(i, l), MaxVouchers) = 0
  BY <1>1, <1>2, LedgerAssumption, TotalZero
<1>4. QED
  BY <1>3 DEF Returned, Returns

LEMMA ReturnedOnlyRow ==
  ASSUME TypeOK, TypeOK', NEW r \in VoucherIds, OnlyRow(r),
         NEW i \in VoucherIds, NEW l \in Lots
  PROVE  Returned(i, l)' = Returned(i, l) - Back(r, i, l) + Back(r, i, l)'
<1> DEFINE f == Returns(i, l)
           g == [k \in VoucherIds |-> Back(k, i, l)']
<1>1. f \in [1..MaxVouchers -> Int]
  BY BackType DEF Returns, Back, VoucherIds
<1>2. \A k \in VoucherIds : Back(k, i, l)' \in Int
  BY DEF TypeOK, VoucherRecord, Back
<1>3. g \in [1..MaxVouchers -> Int]
  BY <1>2 DEF VoucherIds
<1>4. \A k \in VoucherIds : k # r => Back(k, i, l)' = Back(k, i, l)
  BY DEF OnlyRow, Back, PostedReturnsOf, IsRow
<1>5. r \in 1..MaxVouchers /\ \A k \in 1..MaxVouchers : k # r => g[k] = f[k]
  BY <1>4 DEF Returns, Back, VoucherIds
<1>6. f[r] = Back(r, i, l) /\ g[r] = Back(r, i, l)'
  BY DEF Returns, Back
<1>7. Returned(i, l) = Total(f, MaxVouchers)
  BY DEF Returned, Returns
<1>8. Returned(i, l)' = Total(g, MaxVouchers)
  BY DEF Returned, Back
<1> HIDE DEF f, g
<1>9. Total(g, MaxVouchers) = Total(f, MaxVouchers) - f[r] + g[r]
  BY <1>1, <1>3, <1>5, LedgerAssumption, TotalOneChanged
<1>10. QED
  BY <1>6, <1>7, <1>8, <1>9

-----------------------------------------------------------------------------
(* The inductive invariant LedgerInv, for a new row and for a new status. *)

InHand == {"POSTED", "PENDING"}

\* A row that Shape admits.
Fits(v) ==
  /\ v.of \in 0..posted
  /\ v.kind # "RETURN" => v.of = 0
  /\ \A l \in Lots :
       /\ v.kind = "ISSUE" => v.move[l] <= 0
       /\ v.kind = "RETURN" => v.move[l] >= 0
       /\ v.status \in InHand /\ v.move[l] # 0
            => doc[DocOf[l]].status # "NONE" /\ v.day >= doc[DocOf[l]].day

\* What row v moves in lot l by day d.
Moving(v, l, d) == IF v.status = "POSTED" /\ v.day <= d THEN v.move[l] ELSE 0

LEMMA InsertSafe ==
  ASSUME LedgerInv, TypeOK', NEW v \in VoucherRecord, Insert(v), Fits(v),
         \A l \in Lots, d \in Days : Held(l, d) + Moving(v, l, d) >= 0,
         v.kind = "RETURN" => v.status = "POSTED" /\ ReturnOk(v.of, v.move, v.day)
  PROVE  LedgerInv'
<1> PICK n : n = posted + 1
  OBVIOUS
<1> TypeOK /\ posted \in Nat
  BY DEF LedgerInv, TypeOK
<1>1. /\ n \in VoucherIds /\ OnlyRow(n) /\ voucher'[n] = v /\ ~IsRow(n)
      /\ IsRow(n)' /\ posted' = n /\ UNCHANGED <<doc, lot>>
  BY RowOfInsert DEF OnlyRow
<1>2. \A k \in 1..posted : k \in VoucherIds /\ k # n /\ voucher'[k] = voucher[k]
  BY <1>1, LedgerAssumption DEF OnlyRow, TypeOK, VoucherIds
<1>3. \A k \in 1..posted' : k \in 1..posted \/ k = n
  BY <1>1
<1>4. Shape'
  <2>1. \A l \in Lots : (lot[l].rejected <= lot[l].received)'
    BY <1>1 DEF LedgerInv, Shape
  <2>2. \A k \in 1..posted : voucher[k].of \in 0..posted'
    BY <1>1 DEF LedgerInv, Shape
  <2>3. v.of \in 0..posted'
    BY <1>1 DEF Fits
  <2>4. QED
    BY <1>1, <1>2, <1>3, <2>1, <2>2, <2>3 DEF LedgerInv, Shape, Fits, InHand
<1>5. NoNegativeDay'
  <2> SUFFICES ASSUME NEW l \in Lots, NEW d \in Days PROVE Held(l, d)' >= 0
    BY DEF NoNegativeDay
  <2>1. Moved(n, l, d) = 0 /\ Moved(n, l, d)' = Moving(v, l, d)
    BY <1>1 DEF Moved, Moving
  <2>2. Held(l, d)' = Held(l, d) - 0 + Moving(v, l, d)
    BY <1>1, <2>1, HeldOnlyRow
  <2>3. QED
    BY <2>2, HeldType
<1>6. ReturnsWithinIssue'
  <2>1. \A k, r \in 1..posted :
          (r \in PostedReturnsOf(k))' <=> r \in PostedReturnsOf(k)
    BY <1>1, <1>2 DEF PostedReturnsOf
  <2>2. \A k \in 1..posted' : (n \in PostedReturnsOf(k))' <=> v.of = k /\ v.status = "POSTED"
    BY <1>1 DEF PostedReturnsOf
  <2>3. PostedReturnsOf(n) = {}
    BY <1>1 DEF LedgerInv, Shape, PostedReturnsOf
  <2>4. \A k \in VoucherIds, l \in Lots :
          Returned(k, l)' = Returned(k, l) + (IF v.of = k /\ v.status = "POSTED" THEN v.move[l] ELSE 0)
    <3> SUFFICES ASSUME NEW k \in VoucherIds, NEW l \in Lots
                 PROVE  Returned(k, l)' = Returned(k, l)
                          + (IF v.of = k /\ v.status = "POSTED" THEN v.move[l] ELSE 0)
      OBVIOUS
    <3>1. Back(n, k, l) = 0
      BY <1>1 DEF Back, PostedReturnsOf
    <3>2. Back(n, k, l)' = IF v.of = k /\ v.status = "POSTED" THEN v.move[l] ELSE 0
      BY <1>1 DEF Back, PostedReturnsOf
    <3>3. Returned(k, l)' = Returned(k, l) - Back(n, k, l) + Back(n, k, l)'
      BY <1>1, ReturnedOnlyRow
    <3>4. QED
      BY <3>1, <3>2, <3>3, ReturnedType
  <2>5. SUFFICES ASSUME NEW k \in 1..posted', (voucher[k].kind = "ISSUE")'
                 PROVE  /\ \A l \in Lots : StillOut(k, l)' >= 0
                        /\ \A r \in PostedReturnsOf(k)' :
                             voucher'[k].status = "POSTED" /\ voucher'[r].day >= voucher'[k].day
    BY DEF ReturnsWithinIssue
  <2>6. CASE k = n
    <3>1. v.kind = "ISSUE" /\ v.of = 0 /\ k \in VoucherIds
      BY <1>1, <2>5, <2>6 DEF Fits
    <3>2. PostedReturnsOf(k)' = {}
      BY <1>1, <1>2, <2>3, <2>6, <3>1 DEF PostedReturnsOf
    <3>3. \A l \in Lots : StillOut(k, l)' >= 0
      <4> SUFFICES ASSUME NEW l \in Lots PROVE StillOut(k, l)' >= 0
        OBVIOUS
      <4>1. Returned(k, l)' = 0
        <5>1. PostedReturnsOf(k) = {}
          BY <2>3, <2>6
        <5>2. Returned(k, l) = 0
          BY <3>1, <5>1, NoReturns
        <5>3. v.of # k
          BY <3>1, LedgerAssumption DEF VoucherIds
        <5>4. QED
          BY <2>4, <3>1, <5>2, <5>3
      <4>2. v.move[l] \in Int /\ v.move[l] <= 0
        BY <3>1 DEF Fits, VoucherRecord
      <4>3. QED
        BY <1>1, <2>6, <4>1, <4>2 DEF StillOut
    <3>4. QED
      BY <3>2, <3>3
  <2>7. CASE k \in 1..posted
    <3>1. k \in VoucherIds /\ voucher'[k] = voucher[k] /\ voucher[k].kind = "ISSUE"
      BY <1>2, <2>5, <2>7
    <3>2. v.of = k => /\ v.kind = "RETURN" /\ v.status = "POSTED"
                      /\ ReturnOk(k, v.move, v.day)
      BY <2>7 DEF Fits
    <3>3. \A l \in Lots : StillOut(k, l)' >= 0
      <4> SUFFICES ASSUME NEW l \in Lots PROVE StillOut(k, l)' >= 0
        OBVIOUS
      <4>1. v.move[l] \in Int /\ voucher[k].move[l] \in Int /\ Returned(k, l) \in Int
        BY <3>1, ReturnedType DEF VoucherRecord, TypeOK
      <4>2. StillOut(k, l) >= 0
        BY <2>7, <3>1 DEF LedgerInv, ReturnsWithinIssue
      <4>3. v.of = k => v.move[l] <= StillOut(k, l)
        BY <3>2, <4>1, <4>2 DEF ReturnOk, CanComeBack
      <4>4. QED
        BY <2>4, <3>1, <4>1, <4>2, <4>3 DEF StillOut
    <3>4. \A r \in PostedReturnsOf(k)' :
             voucher'[k].status = "POSTED" /\ voucher'[r].day >= voucher'[k].day
      <4> SUFFICES ASSUME NEW r \in PostedReturnsOf(k)'
                   PROVE  voucher'[k].status = "POSTED" /\ voucher'[r].day >= voucher'[k].day
        OBVIOUS
      <4>1. CASE r = n
        BY <1>1, <2>2, <2>5, <3>1, <3>2, <4>1 DEF ReturnOk, IssueStands
      <4>2. CASE r \in 1..posted
        BY <1>2, <2>1, <2>7, <3>1, <4>2 DEF LedgerInv, ReturnsWithinIssue
      <4>3. QED
        BY <1>3, <4>1, <4>2 DEF PostedReturnsOf
    <3>5. QED
      BY <3>3, <3>4
  <2>8. QED
    BY <1>3, <2>6, <2>7
<1>7. NothingBeforeReceipt'
  BY <1>1, <1>2, <1>3 DEF LedgerInv, NothingBeforeReceipt, Fits, InHand
<1>8. QED
  BY <1>4, <1>5, <1>6, <1>7 DEF LedgerInv

\* Row i is decided or cancelled: v is the row with its new status.
LEMMA RewriteSafe ==
  ASSUME LedgerInv, TypeOK', NEW i \in 1..posted, NEW v \in VoucherRecord, Rewrite(i, v),
         /\ v.kind = voucher[i].kind /\ v.day = voucher[i].day
         /\ v.of = voucher[i].of /\ v.move = voucher[i].move,
         v.status \in InHand => voucher[i].status \in InHand,
         v.kind = "RETURN" => v.status # "POSTED",
         v.kind = "ISSUE" => PostedReturnsOf(i) = {},
         \A l \in Lots, d \in Days : Held(l, d) - Moved(i, l, d) + Moving(v, l, d) >= 0
  PROVE  LedgerInv'
<1> TypeOK /\ posted \in Nat /\ i \in VoucherIds
  BY LedgerAssumption DEF LedgerInv, TypeOK, VoucherIds
<1>1. /\ OnlyRow(i) /\ voucher'[i] = v
      /\ posted' = posted /\ UNCHANGED <<doc, lot>>
  BY RowOfRewrite DEF OnlyRow
<1>2. \A k \in 1..posted : k \in VoucherIds /\ (k # i => voucher'[k] = voucher[k])
  BY <1>1, LedgerAssumption DEF OnlyRow, TypeOK, VoucherIds
<1>3. \A k \in 1..posted : /\ voucher'[k].kind = voucher[k].kind
                           /\ voucher'[k].day = voucher[k].day
                           /\ voucher'[k].of = voucher[k].of
                           /\ voucher'[k].move = voucher[k].move
                           /\ voucher'[k].status \in InHand => voucher[k].status \in InHand
  BY <1>1, <1>2
<1>4. Shape'
  BY <1>1, <1>3 DEF LedgerInv, Shape, InHand
<1>5. NoNegativeDay'
  <2> SUFFICES ASSUME NEW l \in Lots, NEW d \in Days PROVE Held(l, d)' >= 0
    BY DEF NoNegativeDay
  <2>1. Moved(i, l, d)' = Moving(v, l, d)
    BY <1>1 DEF Moved, Moving, IsRow
  <2>2. Held(l, d)' = Held(l, d) - Moved(i, l, d) + Moved(i, l, d)'
    BY <1>1, HeldOnlyRow
  <2>3. QED
    BY <2>1, <2>2
<1>6. ReturnsWithinIssue'
  <2> SUFFICES ASSUME NEW k \in 1..posted', (voucher[k].kind = "ISSUE")'
               PROVE  /\ \A l \in Lots : StillOut(k, l)' >= 0
                      /\ \A r \in PostedReturnsOf(k)' :
                           voucher'[k].status = "POSTED" /\ voucher'[r].day >= voucher'[k].day
    BY DEF ReturnsWithinIssue
  <2>1. k \in 1..posted /\ k \in VoucherIds /\ voucher[k].kind = "ISSUE"
    BY <1>1, <1>2, <1>3
  \* A rewritten row is never a new return of k, and k # i unless it has none.
  <2>2. i \notin PostedReturnsOf(k)'
    BY <1>1, <2>1 DEF PostedReturnsOf, LedgerInv, Shape
  <2>3. \A r \in PostedReturnsOf(k)' : r \in PostedReturnsOf(k)
    BY <1>1, <1>2, <2>2 DEF PostedReturnsOf
  <2>4. \A l \in Lots : StillOut(k, l)' >= 0
    <3> SUFFICES ASSUME NEW l \in Lots PROVE StillOut(k, l)' >= 0
      OBVIOUS
    <3>1. Back(i, k, l) \in Int /\ Back(i, k, l) >= 0
      BY <2>1 DEF Back, PostedReturnsOf, LedgerInv, Shape, TypeOK, VoucherRecord
    <3>2. Back(i, k, l)' = 0
      BY <2>2 DEF Back
    <3>3. Returned(k, l)' = Returned(k, l) - Back(i, k, l) + Back(i, k, l)'
      BY <1>1, <2>1, ReturnedOnlyRow
    <3>4. voucher'[k].move[l] = voucher[k].move[l] /\ voucher[k].move[l] \in Int
      BY <1>3, <2>1 DEF TypeOK, VoucherRecord
    <3>5. StillOut(k, l) >= 0
      BY <2>1 DEF LedgerInv, ReturnsWithinIssue
    <3>6. QED
      BY <2>1, <3>1, <3>2, <3>3, <3>4, <3>5, ReturnedType DEF StillOut
  <2>5. ASSUME NEW r \in PostedReturnsOf(k)'
        PROVE  voucher'[k].status = "POSTED" /\ voucher'[r].day >= voucher'[k].day
    <3>1. r \in PostedReturnsOf(k)
      BY <2>3, <2>5
    <3>2. voucher[k].status = "POSTED" /\ voucher[r].day >= voucher[k].day
      BY <2>1, <3>1 DEF LedgerInv, ReturnsWithinIssue
    <3>3. k # i
      BY <2>1, <3>1
    <3>4. QED
      BY <1>2, <1>3, <2>1, <3>1, <3>2, <3>3 DEF PostedReturnsOf
  <2>6. QED
    BY <2>4, <2>5
<1>7. NothingBeforeReceipt'
  BY <1>1, <1>3 DEF LedgerInv, NothingBeforeReceipt, InHand
<1>8. QED
  BY <1>4, <1>5, <1>6, <1>7 DEF LedgerInv

-----------------------------------------------------------------------------
(* The operations that change receipts: the vouchers stay as they are. *)

OnlyReceipts == UNCHANGED <<voucher, posted>>

LEMMA ReceiptsOnly ==
  ASSUME LedgerInv, TypeOK', OnlyReceipts
  PROVE  /\ ReturnsWithinIssue'
         /\ \A l \in Lots, d \in Days : MovedBy(l, d)' = MovedBy(l, d)
<1>1. ReturnsWithinIssue'
  BY DEF LedgerInv, OnlyReceipts, ReturnsWithinIssue, StillOut, Returned, PostedReturnsOf
<1>2. \A l \in Lots, d \in Days : MovedBy(l, d)' = MovedBy(l, d)
  BY DEF OnlyReceipts, MovedBy, Moved, IsRow
<1>3. QED
  BY <1>1, <1>2

LEMMA ReceiveMirSafe ==
  ASSUME LedgerInv, TypeOK', NEW m \in Docs, NEW day \in Days,
         NEW rows \in [LotsOf(m) -> LotRecord], ReceiveMir(m, day, rows)
  PROVE  LedgerInv'
<1> TypeOK
  BY DEF LedgerInv
<1>1. OnlyReceipts /\ doc[m].status = "NONE"
  BY DEF ReceiveMir, OnlyReceipts
<1>2. \A l \in Lots : l \notin LotsOf(m) => lot'[l] = lot[l] /\ doc'[DocOf[l]] = doc[DocOf[l]]
  BY LedgerAssumption DEF ReceiveMir, LotsOf, TypeOK
<1>3. \A l \in LotsOf(m) : /\ lot'[l] = rows[l] /\ rows[l] \in LotRecord
                           /\ rows[l].rejected <= rows[l].received
                           /\ DocOf[l] = m /\ l \in Lots
                           /\ doc'[m] = [status |-> "POSTED", day |-> day]
  BY LedgerAssumption DEF ReceiveMir, LotsOf, TypeOK
<1>4. Shape'
  BY <1>1, <1>2, <1>3 DEF LedgerInv, Shape, OnlyReceipts
<1>5. NoNegativeDay'
  <2> SUFFICES ASSUME NEW l \in Lots, NEW d \in Days PROVE Held(l, d)' >= 0
    BY DEF NoNegativeDay
  <2>1. MovedBy(l, d)' = MovedBy(l, d) /\ MovedBy(l, d) \in Int
    BY <1>1, ReceiptsOnly, MovedByType
  <2>2. ReceiptBy(l, d, LotIn(l)) + MovedBy(l, d) >= 0
    BY DEF LedgerInv, NoNegativeDay, Held
  <2>3. CASE l \in LotsOf(m)
    <3>1. ReceiptBy(l, d, LotIn(l)) = 0
      BY <1>1, <1>3, <2>3 DEF ReceiptBy, LotIn
    <3>2. LotIn(l)' \in Int /\ LotIn(l)' >= 0
      BY <1>3, <2>3, LedgerAssumption DEF LotIn, LotRecord
    <3>3. ReceiptBy(l, d, LotIn(l))' \in Int /\ ReceiptBy(l, d, LotIn(l))' >= 0
      BY <3>2 DEF ReceiptBy
    <3>4. QED
      BY <2>1, <2>2, <3>1, <3>3 DEF Held
  <2>4. CASE l \notin LotsOf(m)
    BY <1>2, <2>1, <2>2, <2>4 DEF Held, ReceiptBy, LotIn
  <2>5. QED
    BY <2>3, <2>4
<1>6. NothingBeforeReceipt'
  BY <1>1, <1>2, <1>3 DEF LedgerInv, NothingBeforeReceipt, Shape, OnlyReceipts
<1>7. QED
  BY <1>1, <1>4, <1>5, <1>6, ReceiptsOnly DEF LedgerInv

\* A MIR or an opening balance: its lots are covered without their receipt.
LEMMA SetCancelledSafe ==
  ASSUME LedgerInv, TypeOK', NEW m \in Docs, SetCancelled(m),
         \A l \in LotsOf(m) : CoveredWith(l, 0)
  PROVE  LedgerInv'
<1> TypeOK
  BY DEF LedgerInv
<1>1. OnlyReceipts /\ lot' = lot
  BY DEF SetCancelled, OnlyReceipts
<1>2. \A k \in Docs : /\ doc'[k].day = doc[k].day
                      /\ k # m => doc'[k] = doc[k]
                      /\ k = m => doc'[k].status = "CANCELLED"
  BY DEF SetCancelled, TypeOK, DocRecord
<1>3. Shape'
  BY <1>1, <1>2, LedgerAssumption DEF LedgerInv, Shape, OnlyReceipts
<1>4. NoNegativeDay'
  <2> SUFFICES ASSUME NEW l \in Lots, NEW d \in Days PROVE Held(l, d)' >= 0
    BY DEF NoNegativeDay
  <2>1. MovedBy(l, d)' = MovedBy(l, d) /\ DocOf[l] \in Docs
    BY <1>1, ReceiptsOnly, LedgerAssumption
  <2>2. CASE DocOf[l] = m
    <3>1. ReceiptBy(l, d, 0) + MovedBy(l, d) >= 0
      BY <2>2 DEF CoveredWith, LotsOf
    <3>2. LotIn(l)' = 0
      BY <1>2, <2>1, <2>2 DEF LotIn
    <3>3. ReceiptBy(l, d, LotIn(l))' = ReceiptBy(l, d, 0)
      BY <3>2 DEF ReceiptBy
    <3>4. QED
      BY <2>1, <3>1, <3>3 DEF Held
  <2>3. CASE DocOf[l] # m
    BY <1>1, <1>2, <2>1, <2>3 DEF LedgerInv, NoNegativeDay, Held, ReceiptBy, LotIn
  <2>4. QED
    BY <2>2, <2>3
<1>5. NothingBeforeReceipt'
  BY <1>1, <1>2, LedgerAssumption DEF LedgerInv, NothingBeforeReceipt, OnlyReceipts
<1>6. QED
  BY <1>1, <1>3, <1>4, <1>5, ReceiptsOnly DEF LedgerInv

LEMMA RecordRejectionSafe ==
  ASSUME LedgerInv, TypeOK', NEW k \in Lots, NEW total \in 1..MaxQty+1,
         RecordRejection(k, total)
  PROVE  LedgerInv'
<1> TypeOK
  BY DEF LedgerInv
<1>1. OnlyReceipts /\ doc' = doc /\ doc[DocOf[k]].status = "POSTED"
  BY DEF RecordRejection, RejectionInRange, SetRejected, OnlyReceipts
<1>2. \A l \in Lots : /\ l # k => lot'[l] = lot[l]
                      /\ lot'[k].rejected = total
                      /\ lot'[k].received = lot[k].received
                      /\ lot'[k].stocked = lot[k].stocked
  BY DEF RecordRejection, SetRejected, TypeOK, LotRecord
<1>3. total <= lot[k].received /\ CoveredAfterRejection(k, total)
  BY DEF RecordRejection, RejectionInRange
<1>4. Shape'
  BY <1>1, <1>2, <1>3 DEF LedgerInv, Shape, OnlyReceipts
<1>5. NoNegativeDay'
  <2> SUFFICES ASSUME NEW l \in Lots, NEW d \in Days PROVE Held(l, d)' >= 0
    BY DEF NoNegativeDay
  <2>1. MovedBy(l, d)' = MovedBy(l, d)
    BY <1>1, ReceiptsOnly
  <2>2. CASE l = k /\ lot[k].stocked
    <3>1. LotIn(k)' = lot[k].received - total
      BY <1>1, <1>2, <2>2 DEF LotIn
    <3>2. ReceiptBy(k, d, LotIn(k))' = ReceiptBy(k, d, lot[k].received - total)
      BY <1>1, <3>1 DEF ReceiptBy
    <3>3. ReceiptBy(k, d, lot[k].received - total) + MovedBy(k, d) >= 0
      BY <1>3, <2>2 DEF CoveredAfterRejection, CoveredWith
    <3>4. QED
      BY <2>1, <2>2, <3>2, <3>3 DEF Held
  <2>3. CASE ~(l = k /\ lot[k].stocked)
    <3>1. LotIn(l)' = LotIn(l)
      BY <1>1, <1>2, <2>3 DEF LotIn
    <3>2. ReceiptBy(l, d, LotIn(l))' = ReceiptBy(l, d, LotIn(l))
      BY <1>1, <3>1 DEF ReceiptBy
    <3>3. QED
      BY <2>1, <3>2 DEF LedgerInv, NoNegativeDay, Held
  <2>4. QED
    BY <2>2, <2>3
<1>6. NothingBeforeReceipt'
  BY <1>1 DEF LedgerInv, NothingBeforeReceipt, OnlyReceipts
<1>7. QED
  BY <1>1, <1>4, <1>5, <1>6, ReceiptsOnly DEF LedgerInv

-----------------------------------------------------------------------------
(* The operations on vouchers. *)

\* A voucher whose lots pass _take leaves nothing short.
LEMMA TakeLeavesEnough ==
  ASSUME LedgerInv, NEW move \in [Lots -> Int], NEW day \in Days, CanTake(move, day),
         NEW l \in Lots, NEW d \in Days, d >= day
  PROVE  Held(l, d) + move[l] >= 0
<1>1. TypeOK /\ Held(l, d) >= 0 /\ Held(l, d) \in Int
  BY HeldType DEF LedgerInv, NoNegativeDay
<1>2. CASE move[l] < 0
  <2>1. d \in day..LastDay
    BY LedgerAssumption DEF Days
  <2>2. -move[l] <= Held(l, d)
    BY <1>2, <2>1 DEF CanTake, HasRoom
  <2>3. QED
    BY <1>1, <2>2
<1>3. CASE move[l] >= 0
  BY <1>1, <1>3
<1>4. QED
  BY <1>2, <1>3

LEMMA UsableIsPosted ==
  ASSUME NEW l \in Lots, UsableReceipt(l)
  PROVE  doc[DocOf[l]].status = "POSTED"
BY DEF UsableReceipt, LotIn

LEMMA PostIssueSafe ==
  ASSUME LedgerInv, TypeOK', NEW day \in Days, NEW move \in Lines(-MaxQty..0),
         PostIssue(day, move)
  PROVE  LedgerInv'
<1> DEFINE v == Entered("ISSUE", "POSTED", day, Nobody, 0, FALSE, move)
<1>1. move \in [Lots -> -MaxQty..0] /\ move \in [Lots -> Int] /\ 0 \in 0..MaxVouchers
  BY LedgerAssumption, LinesType
<1>2. v \in VoucherRecord
  BY <1>1, EnteredType DEF Kinds, Statuses
<1>3. Insert(v) /\ CanTake(move, day) /\ \A l \in Lots : move[l] # 0 => UsableReceipt(l)
  BY DEF PostIssue, IssueOk
<1>4. /\ v.kind = "ISSUE" /\ v.status = "POSTED" /\ v.day = day
      /\ v.of = 0 /\ v.move = move
  BY DEF Entered
<1> HIDE DEF v
<1>5. \A l \in Lots : move[l] <= 0 /\ (move[l] # 0 =>
         doc[DocOf[l]].status = "POSTED" /\ day >= doc[DocOf[l]].day)
  BY <1>1, <1>3, UsableIsPosted, LedgerAssumption DEF CanTake
<1>6. Fits(v)
  BY <1>4, <1>5, LedgerAssumption DEF Fits, LedgerInv, TypeOK
<1>7. \A l \in Lots, d \in Days : Held(l, d) + Moving(v, l, d) >= 0
  BY <1>1, <1>3, <1>4, TakeLeavesEnough, HeldType DEF Moving, LedgerInv, NoNegativeDay
<1>8. QED
  BY <1>2, <1>3, <1>4, <1>6, <1>7, InsertSafe

LEMMA PostReturnSafe ==
  ASSUME LedgerInv, TypeOK', NEW day \in Days, NEW i \in VoucherIds,
         NEW move \in Lines(0..MaxQty), PostReturn(day, i, move)
  PROVE  LedgerInv'
<1> DEFINE v == Entered("RETURN", "POSTED", day, Nobody, i, FALSE, move)
<1>1. move \in [Lots -> 0..MaxQty] /\ move \in [Lots -> Int] /\ i \in 0..MaxVouchers
  BY LedgerAssumption, LinesType DEF VoucherIds
<1>2. v \in VoucherRecord
  BY <1>1, EnteredType DEF Kinds, Statuses
<1>3. Insert(v) /\ ReturnOk(i, move, day)
  BY DEF PostReturn
<1>4. /\ v.kind = "RETURN" /\ v.status = "POSTED" /\ v.day = day
      /\ v.of = i /\ v.move = move
  BY DEF Entered
<1> HIDE DEF v
<1>5. i \in 1..posted /\ voucher[i].status = "POSTED" /\ day >= voucher[i].day
  BY <1>3 DEF ReturnOk, IssueStands, IsRow
<1>6. \A l \in Lots : move[l] # 0 => /\ voucher[i].move[l] # 0
                                     /\ doc[DocOf[l]].status # "NONE"
                                     /\ voucher[i].day >= doc[DocOf[l]].day
  BY <1>3, <1>5 DEF ReturnOk, CanComeBack, LedgerInv, Shape, NothingBeforeReceipt
<1>7. Fits(v)
  <2>1. \A l \in Lots : doc[DocOf[l]].day \in Int /\ move[l] \in 0..MaxQty
    BY <1>1, LedgerAssumption DEF LedgerInv, TypeOK, DocRecord, Days
  <2>2. voucher[i].day \in Int /\ day \in Int /\ i \in 0..posted
    BY <1>5 DEF LedgerInv, TypeOK, VoucherRecord, Days
  <2>3. QED
    BY <1>4, <1>5, <1>6, <2>1, <2>2, LedgerAssumption DEF Fits
<1>8. \A l \in Lots, d \in Days : Held(l, d) + Moving(v, l, d) >= 0
  BY <1>1, <1>4, HeldType, LedgerAssumption DEF Moving, LedgerInv, NoNegativeDay
<1>9. QED
  BY <1>2, <1>3, <1>4, <1>7, <1>8, InsertSafe

LEMMA PostAdjustSafe ==
  ASSUME LedgerInv, TypeOK', NEW u \in Users, NEW day \in Days,
         NEW move \in Lines(-MaxQty..MaxQty), PostAdjust(u, day, move)
  PROVE  LedgerInv'
<1> DEFINE v == AdjustRow(u, day, move)
<1>1. move \in [Lots -> Int] /\ 0 \in 0..MaxVouchers
  BY LedgerAssumption, LinesType
<1>2. v \in VoucherRecord
  BY <1>1, EnteredType DEF AdjustRow, Kinds, Statuses
<1>3. Insert(v) /\ AdjustOk(move, day)
  BY DEF PostAdjust
<1>4. v.kind = "ADJUST" /\ v.day = day /\ v.of = 0 /\ v.move = move
  BY DEF AdjustRow, Entered
<1> HIDE DEF v
<1>5. CanTake(move, day) /\ \A l \in Lots : move[l] # 0 =>
         doc[DocOf[l]].status = "POSTED" /\ day >= doc[DocOf[l]].day
  BY <1>3, UsableIsPosted DEF AdjustOk
<1>6. Fits(v)
  BY <1>4, <1>5 DEF Fits, LedgerInv, TypeOK
<1>7. \A l \in Lots, d \in Days : Held(l, d) + Moving(v, l, d) >= 0
  BY <1>1, <1>4, <1>5, TakeLeavesEnough, HeldType DEF Moving, LedgerInv, NoNegativeDay
<1>8. QED
  BY <1>2, <1>3, <1>4, <1>6, <1>7, InsertSafe

LEMMA DecideSafe ==
  ASSUME LedgerInv, TypeOK', NEW i \in VoucherIds, IsPendingAdjust(i),
         NEW status \in {"POSTED", "REJECTED"}, Decide(i, status),
         status = "POSTED" => AdjustOk(voucher[i].move, voucher[i].day)
  PROVE  LedgerInv'
<1> DEFINE v == [voucher[i] EXCEPT !.status = status, !.decided = TRUE]
<1>1. v \in VoucherRecord /\ Rewrite(i, v)
  BY DEF LedgerInv, TypeOK, VoucherRecord, Statuses, Decide
<1>2. /\ v.kind = voucher[i].kind /\ v.day = voucher[i].day /\ v.of = voucher[i].of
      /\ v.move = voucher[i].move /\ v.status = status
  BY DEF LedgerInv, TypeOK, VoucherRecord
<1> HIDE DEF v
<1>3. i \in 1..posted /\ voucher[i].kind = "ADJUST" /\ voucher[i].status = "PENDING"
  BY DEF IsPendingAdjust, IsRow
<1>4. ASSUME NEW l \in Lots, NEW d \in Days
      PROVE  Held(l, d) - Moved(i, l, d) + Moving(v, l, d) >= 0
  <2>1. Moved(i, l, d) = 0 /\ Held(l, d) >= 0 /\ Held(l, d) \in Int
    BY <1>3, HeldType DEF Moved, LedgerInv, NoNegativeDay
  <2>2. voucher[i].move \in [Lots -> Int] /\ voucher[i].day \in Days
    BY DEF LedgerInv, TypeOK, VoucherRecord
  <2>3. CASE status = "POSTED" /\ d >= voucher[i].day
    <3>1. Held(l, d) + voucher[i].move[l] >= 0
      BY <2>2, <2>3, TakeLeavesEnough DEF AdjustOk
    <3>2. QED
      BY <1>2, <2>1, <2>2, <2>3, <3>1 DEF Moving
  <2>4. CASE ~(status = "POSTED" /\ d >= voucher[i].day)
    BY <1>2, <2>1, <2>2, <2>4 DEF Moving, Days
  <2>5. QED
    BY <2>3, <2>4
<1>5. QED
  BY <1>1, <1>2, <1>3, <1>4, RewriteSafe DEF InHand

LEMMA CancelVoucherSafe ==
  ASSUME LedgerInv, TypeOK', NEW i \in VoucherIds, CancelVoucher(i)
  PROVE  LedgerInv'
<1> DEFINE v == [voucher[i] EXCEPT !.status = "CANCELLED"]
<1>1. v \in VoucherRecord /\ Rewrite(i, v)
  BY DEF LedgerInv, TypeOK, VoucherRecord, Statuses, CancelVoucher, SetVoucherCancelled
<1>2. /\ v.kind = voucher[i].kind /\ v.day = voucher[i].day /\ v.of = voucher[i].of
      /\ v.move = voucher[i].move /\ v.status = "CANCELLED"
  BY DEF LedgerInv, TypeOK, VoucherRecord
<1> HIDE DEF v
<1>3. /\ i \in 1..posted /\ voucher[i].status \in InHand
      /\ voucher[i].status = "POSTED" => Undoable(i)
  BY DEF CancelVoucher, IsLive, IsRow, InHand
<1>4. v.kind = "ISSUE" => PostedReturnsOf(i) = {}
  BY <1>2, <1>3 DEF Undoable, LedgerInv, ReturnsWithinIssue
<1>5. ASSUME NEW l \in Lots, NEW d \in Days
      PROVE  Held(l, d) - Moved(i, l, d) + Moving(v, l, d) >= 0
  <2>1. /\ Moving(v, l, d) = 0 /\ Held(l, d) >= 0 /\ Held(l, d) \in Int
        /\ Moved(i, l, d) \in Int
    BY <1>2, HeldType, MovedType DEF Moving, LedgerInv, NoNegativeDay
  <2>2. CASE Moved(i, l, d) <= 0
    BY <2>1, <2>2
  <2>3. CASE Moved(i, l, d) > 0
    <3>1. voucher[i].status = "POSTED" /\ voucher[i].move[l] > 0
      BY <2>3 DEF Moved
    <3>2. voucher[i].kind # "ISSUE"
      BY <1>3, <3>1 DEF LedgerInv, Shape, TypeOK, VoucherRecord
    <3>3. Held(l, d) - Moved(i, l, d) >= 0
      BY <1>3, <3>1, <3>2 DEF Undoable, CoveredWithout
    <3>4. QED
      BY <2>1, <3>3
  <2>4. QED
    BY <2>1, <2>2, <2>3
<1>6. QED
  BY <1>1, <1>2, <1>3, <1>4, <1>5, RewriteSafe DEF InHand

LEMMA InvInit == Init => LedgerInv
<1> SUFFICES ASSUME Init PROVE LedgerInv
  OBVIOUS
<1>1. TypeOK /\ posted = 0
  BY TypeInit DEF Init
<1>2. \A l \in Lots : lot[l].received \in 0..MaxQty /\ lot[l].rejected = 0
  BY LedgerAssumption DEF Init
<1>3. Shape /\ ReturnsWithinIssue /\ NothingBeforeReceipt
  BY <1>1, <1>2 DEF Shape, ReturnsWithinIssue, NothingBeforeReceipt
<1>4. NoNegativeDay
  <2> SUFFICES ASSUME NEW l \in Lots, NEW d \in Days PROVE Held(l, d) >= 0
    BY DEF NoNegativeDay
  <2>1. \A i \in VoucherIds : Moved(i, l, d) = 0
    BY <1>1 DEF Moved, IsRow
  <2>2. Total(Moves(l, d), MaxVouchers) = 0
    BY <2>1, LedgerAssumption, TotalZero DEF Moves, VoucherIds
  <2>3. MovedBy(l, d) = 0
    BY <2>2 DEF MovedBy, Moves
  <2>4. LotIn(l) \in Int /\ LotIn(l) >= 0
    BY <1>2, LedgerAssumption DEF LotIn
  <2>5. QED
    BY <2>3, <2>4 DEF Held, ReceiptBy
<1>5. QED
  BY <1>1, <1>3, <1>4 DEF LedgerInv

LEMMA InvNext == LedgerInv /\ [Next]_vars => LedgerInv'
<1> SUFFICES ASSUME LedgerInv, [Next]_vars PROVE LedgerInv'
  OBVIOUS
<1>0. TypeOK'
  BY TypeNext DEF LedgerInv
<1>1. CASE UNCHANGED <<doc, lot, voucher, posted>>
  <2>1. Shape' /\ NothingBeforeReceipt'
    BY <1>1 DEF LedgerInv, Shape, NothingBeforeReceipt
  <2>2. ReturnsWithinIssue'
    BY <1>0, <1>1, ReceiptsOnly DEF OnlyReceipts
  <2>3. NoNegativeDay'
    BY <1>1 DEF LedgerInv, NoNegativeDay, Held, ReceiptBy, LotIn, MovedBy, Moved, IsRow
  <2>4. QED
    BY <1>0, <2>1, <2>2, <2>3 DEF LedgerInv
<1>2. ASSUME NEW m \in Docs, NEW day \in Days, NEW rows \in [LotsOf(m) -> LotRecord],
             ReceiveMir(m, day, rows)
      PROVE  LedgerInv'
  BY <1>0, <1>2, ReceiveMirSafe
<1>3. ASSUME NEW m \in Docs, CancelMir(m) \/ CancelOpening(m)
      PROVE  LedgerInv'
  BY <1>0, <1>3, SetCancelledSafe DEF CancelMir, CanCancelMir, CancelOpening, CanCancelOpening
<1>4. ASSUME NEW l \in Lots, NEW total \in 1..MaxQty+1, RecordRejection(l, total)
      PROVE  LedgerInv'
  BY <1>0, <1>4, RecordRejectionSafe
<1>5. ASSUME NEW day \in EntryDays, NEW move \in Lines(-MaxQty..0), PostIssue(day, move)
      PROVE  LedgerInv'
  BY <1>0, <1>5, PostIssueSafe DEF EntryDays
<1>6. ASSUME NEW day \in EntryDays, NEW i \in VoucherIds, NEW move \in Lines(0..MaxQty),
             PostReturn(day, i, move)
      PROVE  LedgerInv'
  BY <1>0, <1>6, PostReturnSafe DEF EntryDays
<1>7. ASSUME NEW day \in EntryDays, NEW u \in Users, NEW move \in Lines(-MaxQty..MaxQty),
             PostAdjust(u, day, move)
      PROVE  LedgerInv'
  BY <1>0, <1>7, PostAdjustSafe DEF EntryDays
<1>8. ASSUME NEW u \in Users, NEW i \in VoucherIds, Approve(u, i) \/ Reject(u, i)
      PROVE  LedgerInv'
  BY <1>0, <1>8, DecideSafe DEF Approve, MayApprove, Reject
<1>9. ASSUME NEW i \in VoucherIds, CancelVoucher(i)
      PROVE  LedgerInv'
  BY <1>0, <1>9, CancelVoucherSafe
<1>10. QED
  BY <1>1, <1>2, <1>3, <1>4, <1>5, <1>6, <1>7, <1>8, <1>9 DEF Next, Tick, vars

\* The inductive invariant holds in every reachable state, for any plant, any
\* number of lots, documents, vouchers and days.
THEOREM LedgerInvariant == Spec => []LedgerInv
<1>1. QED
  BY InvInit, InvNext, PTL DEF Spec

\* No receipt is ever short on any day: every posting, approval, return,
\* cancellation and rejection keeps the ledger's central promise.
THEOREM StockNeverNegative == Spec => []NoNegativeDay
<1>1. LedgerInv => NoNegativeDay
  BY DEF LedgerInv
<1>2. QED
  BY <1>1, LedgerInvariant, PTL

\* No issue is returned more than it took, or after it was cancelled.
THEOREM ReturnsStayWithinIssue == Spec => []ReturnsWithinIssue
<1>1. LedgerInv => ReturnsWithinIssue
  BY DEF LedgerInv
<1>2. QED
  BY <1>1, LedgerInvariant, PTL

\* No row in hand draws on a receipt before its day.
THEOREM NothingMovesBeforeReceipt == Spec => []NothingBeforeReceipt
<1>1. LedgerInv => NothingBeforeReceipt
  BY DEF LedgerInv
<1>2. QED
  BY <1>1, LedgerInvariant, PTL

-----------------------------------------------------------------------------
(* The refinement: every step is one dated document in the plain book of   *)
(* balances of LotBook, or leaves the book alone.                          *)

\* Every lot moves by one amount, on `day` and every later day.
MovesFrom(day, change) ==
  \A l \in Lots, d \in Days :
    Held(l, d)' = Held(l, d) + (IF d >= day THEN change[l] ELSE 0)

LEMMA BookType ==
  ASSUME LedgerInv
  PROVE  HeldBook \in Book!Books /\ Book!NeverShort(HeldBook)
<1>1. \A l \in Lots, d \in Days : Held(l, d) \in Int /\ Held(l, d) >= 0
  BY HeldType DEF LedgerInv, NoNegativeDay
<1>2. QED
  BY <1>1 DEF HeldBook, Book!Books, Book!NeverShort, Book!Days, Days

LEMMA DatedDocument ==
  ASSUME LedgerInv, LedgerInv', NEW day \in Days, NEW change \in [Lots -> Int],
         MovesFrom(day, change)
  PROVE  Book!Next
<1>1. \A l \in Lots, d \in Days : /\ HeldBook[l][d] = Held(l, d)
                                  /\ HeldBook'[l][d] = Held(l, d)'
                                  /\ Held(l, d) \in Int
  BY HeldType DEF HeldBook, LedgerInv
<1>2. LastDay \in Days /\ LastDay >= day
  BY LedgerAssumption DEF Days
<1>3. \A l \in Lots : HeldBook'[l][LastDay] - HeldBook[l][LastDay] = change[l]
  BY <1>1, <1>2 DEF MovesFrom
<1>4. \A l \in Lots, d \in Days :
        HeldBook'[l][d] = HeldBook[l][d] + (IF d >= day THEN Book!Change(l) ELSE 0)
  BY <1>1, <1>3 DEF MovesFrom, Book!Change
<1>5. (HeldBook \in Book!Books /\ Book!NeverShort(HeldBook))'
  BY BookType, PTL
<1>6. Book!Document(day)
  BY <1>4, <1>5 DEF Book!Document, Book!Days, Days, Book!Books, Book!NeverShort
<1>7. QED
  BY <1>6 DEF Book!Next, Book!Days, Days

\* Writing one voucher row is a document of that row's day.
LEMMA RowIsDocument ==
  ASSUME LedgerInv, LedgerInv', NEW i \in VoucherIds, OnlyRow(i),
         IsRow(i) => voucher'[i].day = voucher[i].day
  PROVE  Book!Next
<1> DEFINE day == voucher'[i].day
           Before(l) == IF IsRow(i) /\ voucher[i].status = "POSTED"
                        THEN voucher[i].move[l] ELSE 0
           After(l)  == IF IsRow(i)' /\ voucher'[i].status = "POSTED"
                        THEN voucher'[i].move[l] ELSE 0
           change == [l \in Lots |-> After(l) - Before(l)]
<1>1. TypeOK /\ TypeOK' /\ day \in Days
  BY DEF LedgerInv, TypeOK, VoucherRecord
<1>2. \A l \in Lots : Before(l) \in Int /\ After(l) \in Int
  BY <1>1 DEF TypeOK, VoucherRecord
<1>3. ASSUME NEW l \in Lots, NEW d \in Days
      PROVE  Held(l, d)' = Held(l, d) + (IF d >= day THEN change[l] ELSE 0)
  <2>1. Held(l, d)' = Held(l, d) - Moved(i, l, d) + Moved(i, l, d)'
    BY <1>1, HeldOnlyRow
  <2>2. day \in Int /\ d \in Int
    BY <1>1 DEF Days
  <2>3. Moved(i, l, d) = IF d >= day THEN Before(l) ELSE 0
    BY <2>2 DEF Moved
  <2>4. Moved(i, l, d)' = IF d >= day THEN After(l) ELSE 0
    BY <2>2 DEF Moved
  <2>5. Held(l, d) \in Int
    BY <1>1, HeldType
  <2> HIDE DEF day, Before, After
  <2>6. QED
    BY <1>2, <2>1, <2>2, <2>3, <2>4, <2>5
<1>4. change \in [Lots -> Int]
  BY <1>2
<1>5. MovesFrom(day, change)
  BY <1>3 DEF MovesFrom
<1> HIDE DEF day, change
<1>6. QED
  BY <1>1, <1>4, <1>5, DatedDocument

LEMMA InsertIsDocument ==
  ASSUME LedgerInv, LedgerInv', NEW v \in VoucherRecord, Insert(v)
  PROVE  Book!Next
<1>1. PICK n : n = posted + 1
  OBVIOUS
<1>2. n \in VoucherIds /\ OnlyRow(n) /\ ~IsRow(n)
  BY <1>1, RowOfInsert DEF LedgerInv
<1>3. QED
  BY <1>2, RowIsDocument

LEMMA RewriteIsDocument ==
  ASSUME LedgerInv, LedgerInv', NEW i \in VoucherIds, NEW v \in VoucherRecord,
         v.day = voucher[i].day, Rewrite(i, v)
  PROVE  Book!Next
<1>1. OnlyRow(i) /\ voucher'[i] = v
  BY RowOfRewrite DEF LedgerInv
<1>2. QED
  BY <1>1, RowIsDocument

\* A receipt entering, leaving or shrinking is a document of the receipt's day.
LEMMA ReceiptIsDocument ==
  ASSUME LedgerInv, LedgerInv', OnlyReceipts, NEW m \in Docs,
         \A l \in Lots : DocOf[l] # m => LotIn(l)' = LotIn(l) /\ doc'[DocOf[l]] = doc[DocOf[l]],
         \A l \in LotsOf(m) : LotIn(l) = 0 \/ doc'[m].day = doc[m].day
  PROVE  Book!Next
<1> DEFINE day == doc'[m].day
           change == [l \in Lots |-> LotIn(l)' - LotIn(l)]
<1>1. TypeOK /\ TypeOK' /\ day \in Days
  BY DEF LedgerInv, TypeOK, DocRecord
<1>2. \A l \in Lots : LotIn(l) \in Int /\ LotIn(l)' \in Int
  <2>1. \A l \in Lots : LotIn(l) \in Int
    BY <1>1, LotInType
  <2>2. \A l \in Lots : LotIn(l)' \in Int
    BY <1>1, LedgerAssumption DEF TypeOK, LotRecord, LotIn
  <2>3. QED
    BY <2>1, <2>2
<1>3. ASSUME NEW l \in Lots, NEW d \in Days
      PROVE  Held(l, d)' = Held(l, d) + (IF d >= day THEN change[l] ELSE 0)
  <2>1. MovedBy(l, d)' = MovedBy(l, d) /\ MovedBy(l, d) \in Int
    BY <1>1, ReceiptsOnly, MovedByType
  <2>2. DocOf[l] \in Docs /\ doc[DocOf[l]].day \in Int /\ day \in Int /\ d \in Int
    BY <1>1, LedgerAssumption DEF TypeOK, DocRecord, Days
  <2>3. CASE DocOf[l] = m
    <3>1. LotIn(l) = 0 \/ day = doc[DocOf[l]].day
      BY <2>3 DEF LotsOf
    <3>2. ReceiptBy(l, d, LotIn(l)) = IF d >= day THEN LotIn(l) ELSE 0
      BY <2>2, <3>1 DEF ReceiptBy
    <3>3. ReceiptBy(l, d, LotIn(l))' = IF d >= day THEN LotIn(l)' ELSE 0
      BY <2>2, <2>3 DEF ReceiptBy
    <3> HIDE DEF day
    <3>4. QED
      BY <1>2, <2>1, <2>2, <3>2, <3>3 DEF Held
  <2>4. CASE DocOf[l] # m
    <3>1. LotIn(l)' = LotIn(l) /\ doc'[DocOf[l]] = doc[DocOf[l]]
      BY <2>4
    <3>2. ReceiptBy(l, d, LotIn(l))' = ReceiptBy(l, d, LotIn(l))
      BY <3>1 DEF ReceiptBy
    <3>3. ReceiptBy(l, d, LotIn(l)) \in Int /\ change[l] = 0
      BY <1>2, <3>1 DEF ReceiptBy
    <3>4. QED
      BY <2>1, <3>2, <3>3 DEF Held
  <2>5. QED
    BY <2>3, <2>4
<1>4. change \in [Lots -> Int]
  BY <1>2
<1>5. MovesFrom(day, change)
  BY <1>3 DEF MovesFrom
<1> HIDE DEF day, change
<1>6. QED
  BY <1>1, <1>4, <1>5, DatedDocument

LEMMA BookNext == LedgerInv /\ [Next]_vars => [Book!Next]_HeldBook
<1> SUFFICES ASSUME LedgerInv, [Next]_vars PROVE [Book!Next]_HeldBook
  OBVIOUS
<1>0. LedgerInv' /\ TypeOK /\ TypeOK'
  BY InvNext DEF LedgerInv
<1>1. CASE UNCHANGED <<doc, lot, voucher, posted>>
  <2>1. HeldBook' = HeldBook
    BY <1>1 DEF HeldBook, Held, ReceiptBy, LotIn, MovedBy, Moved, IsRow
  <2>2. QED
    BY <2>1
<1>2. ASSUME NEW m \in Docs, NEW day \in Days, NEW rows \in [LotsOf(m) -> LotRecord],
             ReceiveMir(m, day, rows)
      PROVE  Book!Next
  <2>1. OnlyReceipts /\ doc[m].status = "NONE"
    BY <1>2 DEF ReceiveMir, OnlyReceipts
  <2>2. \A l \in Lots : DocOf[l] # m => LotIn(l)' = LotIn(l) /\ doc'[DocOf[l]] = doc[DocOf[l]]
    BY <1>0, <1>2, LedgerAssumption DEF ReceiveMir, LotsOf, LotIn, TypeOK
  <2>3. \A l \in LotsOf(m) : LotIn(l) = 0
    BY <2>1 DEF LotsOf, LotIn
  <2>4. QED
    BY <1>0, <2>1, <2>2, <2>3, ReceiptIsDocument
<1>3. ASSUME NEW m \in Docs, CancelMir(m) \/ CancelOpening(m)
      PROVE  Book!Next
  <2>1. OnlyReceipts /\ doc'[m].day = doc[m].day
    BY <1>0, <1>3 DEF CancelMir, CancelOpening, SetCancelled, OnlyReceipts, TypeOK, DocRecord
  <2>2. \A l \in Lots : DocOf[l] # m => LotIn(l)' = LotIn(l) /\ doc'[DocOf[l]] = doc[DocOf[l]]
    BY <1>0, <1>3, LedgerAssumption DEF CancelMir, CancelOpening, SetCancelled, LotIn, TypeOK
  <2>3. QED
    BY <1>0, <2>1, <2>2, ReceiptIsDocument
<1>4. ASSUME NEW k \in Lots, NEW total \in 1..MaxQty+1, RecordRejection(k, total)
      PROVE  Book!Next
  <2>1. OnlyReceipts /\ doc' = doc /\ DocOf[k] \in Docs
    BY <1>4, LedgerAssumption DEF RecordRejection, SetRejected, OnlyReceipts
  <2>2. \A l \in Lots : l # k => lot'[l] = lot[l]
    BY <1>0, <1>4 DEF RecordRejection, SetRejected, TypeOK
  <2>3. \A l \in Lots : DocOf[l] # DocOf[k] => LotIn(l)' = LotIn(l)
    BY <2>1, <2>2 DEF LotIn
  <2>4. PICK m \in Docs : m = DocOf[k]
    BY <2>1
  <2>5. QED
    BY <1>0, <2>1, <2>3, <2>4, ReceiptIsDocument
<1>5. ASSUME NEW day \in EntryDays, NEW move \in Lines(-MaxQty..0), PostIssue(day, move)
      PROVE  Book!Next
  <2>1. move \in [Lots -> Int] /\ day \in Days /\ 0 \in 0..MaxVouchers
    BY LinesType, LedgerAssumption DEF EntryDays
  <2>2. Entered("ISSUE", "POSTED", day, Nobody, 0, FALSE, move) \in VoucherRecord
    BY <2>1, EnteredType DEF Kinds, Statuses
  <2>3. QED
    BY <1>0, <1>5, <2>2, InsertIsDocument DEF PostIssue
<1>6. ASSUME NEW day \in EntryDays, NEW i \in VoucherIds, NEW move \in Lines(0..MaxQty),
             PostReturn(day, i, move)
      PROVE  Book!Next
  <2>1. move \in [Lots -> Int] /\ day \in Days /\ i \in 0..MaxVouchers
    BY LinesType, LedgerAssumption DEF EntryDays, VoucherIds
  <2>2. Entered("RETURN", "POSTED", day, Nobody, i, FALSE, move) \in VoucherRecord
    BY <2>1, EnteredType DEF Kinds, Statuses
  <2>3. QED
    BY <1>0, <1>6, <2>2, InsertIsDocument DEF PostReturn
<1>7. ASSUME NEW day \in EntryDays, NEW u \in Users, NEW move \in Lines(-MaxQty..MaxQty),
             PostAdjust(u, day, move)
      PROVE  Book!Next
  <2>1. move \in [Lots -> Int] /\ day \in Days /\ 0 \in 0..MaxVouchers
    BY LinesType, LedgerAssumption DEF EntryDays
  <2>2. AdjustRow(u, day, move) \in VoucherRecord
    BY <2>1, EnteredType DEF AdjustRow, Kinds, Statuses
  <2>3. QED
    BY <1>0, <1>7, <2>2, InsertIsDocument DEF PostAdjust
<1>8. ASSUME NEW i \in VoucherIds, NEW status \in {"POSTED", "REJECTED"}, Decide(i, status)
      PROVE  Book!Next
  <2> DEFINE v == [voucher[i] EXCEPT !.status = status, !.decided = TRUE]
  <2>1. v \in VoucherRecord /\ v.day = voucher[i].day /\ Rewrite(i, v)
    BY <1>0, <1>8 DEF TypeOK, VoucherRecord, Statuses, Decide
  <2> HIDE DEF v
  <2>2. QED
    BY <1>0, <2>1, RewriteIsDocument
<1>9. ASSUME NEW i \in VoucherIds, CancelVoucher(i)
      PROVE  Book!Next
  <2> DEFINE v == [voucher[i] EXCEPT !.status = "CANCELLED"]
  <2>1. v \in VoucherRecord /\ v.day = voucher[i].day /\ Rewrite(i, v)
    BY <1>0, <1>9 DEF TypeOK, VoucherRecord, Statuses, CancelVoucher, SetVoucherCancelled
  <2> HIDE DEF v
  <2>2. QED
    BY <1>0, <2>1, RewriteIsDocument
<1>10. QED
  BY <1>1, <1>2, <1>3, <1>4, <1>5, <1>6, <1>7, <1>8, <1>9
     DEF Next, Tick, vars, Approve, Reject

\* The stock ledger implements the plain book: whatever sequence of postings,
\* approvals, cancellations and rejections it takes, its balances are those of
\* a book of dated documents that is never short.
THEOREM LedgerImplementsBook == Spec => ImplementsBook
<1>1. Init => Book!Init
  BY InvInit, BookType DEF Book!Init
<1>2. QED
  BY <1>1, BookNext, LedgerInvariant, PTL DEF Spec, ImplementsBook, Book!Spec

-----------------------------------------------------------------------------
(* The balance replay the ledger takes for granted. *)

Dated == events \in Seq(Days \X Int)

LEMMA DatedMovements == MovementsSpec => []Dated
<1>1. MovementsInit => Dated
  BY DEF MovementsInit, Dated
<1>2. Dated /\ [MovementsNext]_events => Dated'
  <2>1. ASSUME Dated, NEW day \in Days, NEW quantity \in Int, Record(day, quantity)
        PROVE  Dated'
    BY <2>1 DEF Dated, Record
  <2>2. QED
    BY <2>1 DEF MovementsNext, Dated
<1>3. QED
  BY <1>1, <1>2, PTL DEF MovementsSpec

LEMMA DatedDays ==
  ASSUME Dated
  PROVE  events \in DatedMoves /\ EventDays(events) \subseteq Days /\ Days \subseteq Nat \ {0}
<1>1. Days \subseteq Nat \ {0}
  BY LedgerAssumption DEF Days
<1>2. /\ Len(events) \in Nat /\ events \in [1..Len(events) -> Days \X Int]
      /\ DOMAIN events = 1..Len(events)
  BY DEF Dated
<1>3. \A k \in DOMAIN events : events[k] \in Nat \X Int /\ events[k][1] \in Days
  BY <1>1, <1>2
<1>4. events \in [1..Len(events) -> Nat \X Int]
  BY <1>2, <1>3
<1>5. events \in DatedMoves
  BY <1>2, <1>4 DEF DatedMoves
<1>6. QED
  BY <1>1, <1>3, <1>5 DEF EventDays

\* min_running_balance() is exact for movements on any days, in any order: the
\* answer from a day is the most that can still leave on it, and the answer
\* over all of them is negative exactly when some day ends short.
THEOREM RoomExact == MovementsSpec => []RoomIsExact
<1>1. ASSUME Dated, NEW from \in Days, NEW quantity \in Int
      PROVE  quantity <= MinRunningBalanceFrom(events, from) <=>
               \A d \in from..LastDay : CarriedTo(Append(events, <<from, -quantity>>), d) >= 0
  <2> DEFINE days == from..LastDay
  <2>1. events \in DatedMoves /\ EventDays(events) \subseteq Days /\ from \in Nat
    BY <1>1, DatedDays
  <2>2. days \in SUBSET Nat /\ from \in days /\ \A d \in days : d >= from
    BY <2>1, LedgerAssumption DEF Days
  <2>3. DaysAfter(events, from) \subseteq days
    BY <2>1, LedgerAssumption DEF DaysAfter, Days
  <2> HIDE DEF days
  <2>4. quantity <= MinRunningBalanceFrom(events, from) <=>
          \A d \in days : CarriedTo(Append(events, <<from, -quantity>>), d) >= 0
    BY <2>1, <2>2, <2>3, RoomFromDay
  <2>5. QED
    BY <2>4 DEF days
<1>2. ASSUME Dated
      PROVE  MinRunningBalance(events) < 0 <=> \E d \in Days : CarriedTo(events, d) < 0
  BY <1>2, DatedDays, RoomAnyDay
<1>3. Dated => RoomIsExact
  BY <1>1, <1>2 DEF RoomIsExact
<1>4. QED
  BY <1>3, DatedMovements, PTL

-----------------------------------------------------------------------------
(* The transactions. *)

OnVoucher  == {"RETURN", "APPROVE", "REJECT", "CANCEL"}
OnDocument == {"CANCEL_MIR", "CANCEL_OPENING"}
OpNames    == Inserting \cup OnVoucher \cup OnDocument \cup {"REJECTION", "NONE"}

Payload ==
  [name : OpNames, by : Users \cup {Nobody}, day : Days, now : Days,
   of : 0..MaxVouchers, move : [Lots -> Int], lines : Seq(Lots),
   doc : Docs \cup {NoOp.doc}, lot : Lots \cup {NoOp.lot}, total : 0..MaxQty+1]

Transaction ==
  [stage : {"idle", "head", "lots", "write"}, op : Payload, need : Seq(Rows),
   held : SUBSET Rows, ok : BOOLEAN, seq : Nat]

TxnTypeOK ==
  /\ txn \in [Reqs -> Transaction]
  /\ lastSeq \in [Kinds -> Nat]
  /\ number \in [VoucherIds -> Nat]

\* What the payload checks made sure of, and what time has not undone.
Formed(op) ==
  /\ op.now <= today /\ today <= op.now + Straddle
  /\ op.name \in Inserting => op.day <= op.now /\ op.day >= op.now - BackDays
  /\ op.name = "ISSUE" => op.move \in Lines(-MaxQty..0)
  /\ op.name = "RETURN" => op.move \in Lines(0..MaxQty) /\ op.lines \in Orders(Named(op.move))
  /\ op.name = "ADJUST" => op.by \in Users /\ op.move \in Lines(-MaxQty..MaxQty)
  /\ op.name \in {"APPROVE", "REJECT"} => op.by \in Admins
  /\ op.name \in OnVoucher => op.of \in 1..posted
  /\ op.name = "CANCEL_MIR" => op.doc \in Mirs
  /\ op.name = "CANCEL_OPENING" => op.doc \in Openings
  /\ op.name = "REJECTION" => op.lot \in Lots /\ DocOf[op.lot] \in Mirs /\ op.total >= 1
  /\ op.name # "NONE"

\* The rows of each stage, as sets.
HeadSet(op) ==
  IF op.name \in OnVoucher THEN {VoucherRow(op.of)}
  ELSE IF op.name \in OnDocument THEN {DocRow(op.doc)}
  ELSE IF op.name = "REJECTION" THEN {DocRow(DocOf[op.lot]), LineRow(op.lot)} ELSE {}

LotsNamed(op) ==
  IF op.name \in Inserting THEN Named(op.move)
  ELSE IF op.name = "APPROVE" THEN Named(voucher[op.of].move)
  ELSE IF op.name = "CANCEL"
  THEN {l \in Lots : /\ voucher[op.of].status = "POSTED" /\ voucher[op.of].kind # "ISSUE"
                     /\ voucher[op.of].move[l] > 0}
  ELSE IF op.name \in OnDocument THEN LotsOf(op.doc)
  ELSE IF op.name = "REJECTION" THEN {op.lot} ELSE {}
LotSet(op) == {LotRow(l) : l \in LotsNamed(op)}

SeqSet(op) == IF op.name \in Inserting THEN {SeqRow(op.name)} ELSE {}

Earlier(t) == IF t.stage = "lots" THEN HeadSet(t.op)
              ELSE IF t.stage = "write" THEN HeadSet(t.op) \cup LotSet(t.op) ELSE {}
Current(t) == IF t.stage = "head" THEN HeadSet(t.op)
              ELSE IF t.stage = "lots" THEN LotSet(t.op) ELSE SeqSet(t.op)

\* The rows of the earlier stages are locked, and those of the current one
\* are locked or still to be.
Locks(t) ==
  /\ Earlier(t) \subseteq t.held
  /\ Range(t.need) \subseteq Current(t)
  /\ t.held \cup Range(t.need) = Earlier(t) \cup Current(t)

\* What the first stage found still stands.
Stands(op) ==
  IF op.name = "REJECTION"
  THEN /\ doc[DocOf[op.lot]].status = "POSTED"
       /\ op.now <= doc[DocOf[op.lot]].day + RejectDays
       /\ op.total > lot[op.lot].rejected /\ op.total <= lot[op.lot].received
  ELSE HeadOk(op)

\* And what the second found about its lots.
LotsFine(op) ==
  IF op.name = "RETURN" THEN \A l \in Lots : CanComeBack(op.of, l, op.move[l])
  ELSE LotsOk(op)

Knows(t) ==
  /\ t.stage \in {"lots", "write"} => Stands(t.op)
  /\ t.stage = "lots" /\ t.op.name = "RETURN" /\ t.ok =>
       \A l \in Lots : LotRow(l) \in t.held => CanComeBack(t.op.of, l, t.op.move[l])
  /\ t.stage = "write" => LotsFine(t.op)

\* The sequence is locked last of all, and read under its lock.
Sequenced(t) ==
  t.stage = "write" =>
    /\ t.need \in {<<>>, SeqRows(t.op)}
    /\ \A kind \in Kinds : SeqRow(kind) \in t.held => /\ t.need = <<>>
                                                      /\ t.seq = lastSeq[kind]

\* The order rows are locked in.
Rank(row) == IF row[1] = "lot" THEN row[2] + 2 ELSE IF row[1] = "mir_line" THEN 1 ELSE 0
Rising(s) == \A i, j \in 1..Len(s) : i < j => Rank(s[i]) < Rank(s[j])
InOrder(t) ==
  t.op.name # "RETURN" /\ t.stage \in {"head", "lots"} =>
    /\ Rising(t.need)
    /\ \A a \in t.held, k \in 1..Len(t.need) : Rank(a) < Rank(t.need[k])

Sound(t) ==
  IF t.stage = "idle" THEN t = Idle
  ELSE Formed(t.op) /\ Locks(t) /\ Knows(t) /\ Sequenced(t) /\ InOrder(t)

Exclusive == \A r, s \in Reqs : r # s => txn[r].held \cap txn[s].held = {}

TxnInv ==
  /\ LedgerInv /\ TxnTypeOK /\ Exclusive /\ NumberedWithoutGaps
  /\ \A r \in Reqs : Sound(txn[r])

-----------------------------------------------------------------------------
(* Rows and lists of rows. *)

LEMMA RowsApart ==
  /\ \A x, y : /\ LotRow(x) # VoucherRow(y) /\ LotRow(x) # DocRow(y)
               /\ LotRow(x) # LineRow(y) /\ LotRow(x) # SeqRow(y)
               /\ VoucherRow(x) # DocRow(y) /\ VoucherRow(x) # LineRow(y)
               /\ VoucherRow(x) # SeqRow(y) /\ DocRow(x) # LineRow(y)
               /\ DocRow(x) # SeqRow(y) /\ LineRow(x) # SeqRow(y)
  /\ \A x, y : /\ LotRow(x) = LotRow(y) => x = y
               /\ VoucherRow(x) = VoucherRow(y) => x = y
               /\ DocRow(x) = DocRow(y) => x = y
               /\ LineRow(x) = LineRow(y) => x = y
               /\ SeqRow(x) = SeqRow(y) => x = y
BY DEF LotRow, VoucherRow, DocRow, LineRow, SeqRow

LEMMA LotRowIsRow ==
  ASSUME NEW S \in SUBSET Lots
  PROVE  {LotRow(l) : l \in S} \subseteq Rows
BY DEF Rows

LEMMA RankOf ==
  /\ \A l \in Lots : Rank(LotRow(l)) = l + 2
  /\ \A x : /\ Rank(VoucherRow(x)) = 0 /\ Rank(DocRow(x)) = 0 /\ Rank(LineRow(x)) = 1
            /\ Rank(SeqRow(x)) = 0
BY DEF Rank, LotRow, VoucherRow, DocRow, LineRow, SeqRow

LEMMA RankType == \A row \in Rows : Rank(row) \in Nat
<1> SUFFICES ASSUME NEW row \in Rows PROVE Rank(row) \in Nat
  OBVIOUS
<1>1. \A l \in Lots : l + 2 \in Nat
  BY TxnAssumption
<1>2. QED
  BY <1>1, RankOf DEF Rows

\* Locking the next row takes it off the list.
LEMMA TakeFirst ==
  ASSUME NEW need \in Seq(Rows), need # <<>>
  PROVE  /\ Head(need) \in Rows /\ Tail(need) \in Seq(Rows)
         /\ Range(need) = {Head(need)} \cup Range(Tail(need))
         /\ Rising(need) => /\ Rising(Tail(need))
                            /\ \A k \in 1..Len(Tail(need)) : Rank(Head(need)) < Rank(Tail(need)[k])
<1>1. /\ Head(need) \in Rows /\ Tail(need) \in Seq(Rows) /\ Head(need) = need[1]
      /\ Len(need) \in Nat /\ Len(need) >= 1 /\ Len(Tail(need)) = Len(need) - 1
      /\ \A k \in 1..Len(Tail(need)) : Tail(need)[k] = need[k+1]
  OBVIOUS
<1>2. DOMAIN need = 1..Len(need) /\ DOMAIN Tail(need) = 1..Len(Tail(need))
  BY <1>1
<1>3. Range(need) = {Head(need)} \cup Range(Tail(need))
  <2>1. \A k \in 1..Len(need) : k = 1 \/ (k-1 \in 1..Len(Tail(need)) /\ Tail(need)[k-1] = need[k])
    BY <1>1
  <2>2. \A k \in 1..Len(Tail(need)) : k+1 \in 1..Len(need) /\ Tail(need)[k] = need[k+1]
    BY <1>1
  <2>3. Range(need) = {need[k] : k \in 1..Len(need)}
    BY <1>2 DEF Range
  <2>4. Range(Tail(need)) = {Tail(need)[k] : k \in 1..Len(Tail(need))}
    BY <1>2 DEF Range
  <2>5. need[1] \in Range(need)
    BY <1>1, <2>3
  <2>6. Range(Tail(need)) \subseteq Range(need)
    BY <2>2, <2>3, <2>4
  <2>7. Range(need) \subseteq {need[1]} \cup Range(Tail(need))
    BY <2>1, <2>3, <2>4
  <2>8. QED
    BY <1>1, <2>5, <2>6, <2>7
<1>4. \A k \in 1..Len(Tail(need)) : k+1 \in 1..Len(need) /\ 1 < k+1
  BY <1>1
<1>5. QED
  BY <1>1, <1>3, <1>4 DEF Rising

\* What the locking of lots by a list of their ids amounts to.
LEMMA RowsOfLots ==
  ASSUME NEW n \in Nat, NEW S \in SUBSET Lots, NEW s \in [1..n -> S],
         \A l \in S : \E k \in 1..n : s[k] = l
  PROVE  /\ LotRows(s) \in Seq(Rows) /\ Len(LotRows(s)) = n
         /\ Range(LotRows(s)) = {LotRow(l) : l \in S}
         /\ (\A i, j \in 1..n : i < j => s[i] < s[j]) => Rising(LotRows(s))
<1>1. s \in Seq(S) /\ Len(s) = n
  OBVIOUS
<1>2. LotRows(s) = [k \in 1..n |-> LotRow(s[k])]
  BY <1>1 DEF LotRows
<1>3. LotRows(s) \in [1..n -> Rows]
  BY <1>2, LotRowIsRow
<1>4. LotRows(s) \in Seq(Rows) /\ Len(LotRows(s)) = n
  BY <1>3
<1>5. Range(LotRows(s)) = {LotRow(l) : l \in S}
  BY <1>2 DEF Range
<1>6. ASSUME \A i, j \in 1..n : i < j => s[i] < s[j]
      PROVE  Rising(LotRows(s))
  <2> SUFFICES ASSUME NEW i \in 1..n, NEW j \in 1..n, i < j
               PROVE  Rank(LotRows(s)[i]) < Rank(LotRows(s)[j])
    BY <1>4 DEF Rising
  <2>1. s[i] \in Lots /\ s[j] \in Lots /\ s[i] < s[j]
    BY <1>6
  <2>2. \A x, y \in Nat : x < y => x + 2 < y + 2
    OBVIOUS
  <2>3. s[i] + 2 < s[j] + 2
    BY <2>1, <2>2, TxnAssumption
  <2>4. LotRows(s)[i] = LotRow(s[i]) /\ LotRows(s)[j] = LotRow(s[j])
    BY <1>2
  <2>5. QED
    BY <2>1, <2>3, <2>4, RankOf
<1>7. QED
  BY <1>4, <1>5, <1>6

LEMMA RowsInIdOrder ==
  ASSUME NEW S \in SUBSET Lots
  PROVE  /\ LotRows(InIdOrder(S)) \in Seq(Rows)
         /\ Range(LotRows(InIdOrder(S))) = {LotRow(l) : l \in S}
         /\ Rising(LotRows(InIdOrder(S)))
<1>1. IsFiniteSet(S) /\ S \subseteq Nat
  BY TxnAssumption, FS_Subset
<1>2. /\ Cardinality(S) \in Nat
      /\ IsListing(Ascending(S), Cardinality(S), S)
      /\ \A x \in S : \E k \in 1..Cardinality(S) : Ascending(S)[k] = x
  BY <1>1, AscendingLists
<1>3. QED
  BY <1>2, RowsOfLots DEF InIdOrder, IsListing

-----------------------------------------------------------------------------
(* What requests ask for, and the rows they lock for it. *)

LEMMA NoOpType == NoOp \in Payload /\ Idle \in Transaction
<1>1. 1 \in Days /\ 0 \in 0..MaxVouchers /\ 0 \in 0..MaxQty+1
  BY LedgerAssumption DEF Days
<1>2. <<>> \in Seq(Lots) /\ <<>> \in Seq(Rows) /\ [l \in Lots |-> 0] \in [Lots -> Int]
  OBVIOUS
<1>3. PICK D, L :
        NoOp = [name |-> "NONE", by |-> Nobody, day |-> 1, now |-> 1, of |-> 0,
                move |-> [l \in Lots |-> 0], lines |-> <<>>, doc |-> D, lot |-> L, total |-> 0]
  BY DEF NoOp
<1>4. NoOp.doc = D /\ NoOp.lot = L
  BY <1>3
<1>5. "NONE" \in OpNames /\ Nobody \in Users \cup {Nobody}
  BY DEF OpNames
<1>6. D \in Docs \cup {D} /\ L \in Lots \cup {L}
  OBVIOUS
<1>7. NoOp \in Payload
  BY <1>1, <1>2, <1>3, <1>4, <1>5, <1>6, Zenon DEF Payload
<1>8. QED
  BY <1>2, <1>7 DEF Idle, Transaction

LEMMA NamedLots ==
  ASSUME NEW move \in [Lots -> Int]
  PROVE  Named(move) \in SUBSET Lots
BY DEF Named

\* A well-formed payload, dated on the day it is checked.
LEMMA AskedIsFormed ==
  ASSUME TypeOK, NEW op \in Asked
  PROVE  op \in Payload /\ Formed(op)
<1>1. Asking \in Payload /\ Asking.now = today
  BY NoOpType DEF Payload, TypeOK, Asking
<1> USE <1>1, LedgerAssumption
<1>a. /\ today \in Int /\ today \in Days /\ today <= today + Straddle /\ posted \in Nat
      /\ \A i \in 1..posted : i \in 0..MaxVouchers
      /\ -MaxQty..0 \subseteq Int /\ 0..MaxQty \subseteq Int /\ -MaxQty..MaxQty \subseteq Int
  BY DEF TypeOK, Days
<1>b. \A d \in DatesAsked : d \in Days /\ d <= today /\ d >= today - BackDays
  BY DEF DatesAsked
<1>2. ASSUME NEW d \in DatesAsked, NEW mv \in Lines(-MaxQty..0),
             op = [Asking EXCEPT !.name = "ISSUE", !.day = d, !.move = mv]
      PROVE  op \in Payload /\ Formed(op)
  <2>1. mv \in [Lots -> Int]
    BY <1>a, LinesType
  <2>8. /\ op \in Payload /\ op.now = today
        /\ op.name = "ISSUE" /\ op.day = d /\ op.move = mv
    BY <1>a, <1>b, <1>2, <2>1 DEF Payload, OpNames, Inserting, OnVoucher, OnDocument, Mirs
  <2>9. QED
    BY <1>a, <1>b, <2>8, <2>1 DEF Formed, Inserting, OnVoucher
<1>3. ASSUME NEW mv \in Lines(0..MaxQty), NEW d \in DatesAsked, NEW i \in 1..posted,
             NEW order \in Orders(Named(mv)),
             op = [Asking EXCEPT !.name = "RETURN", !.day = d, !.of = i, !.move = mv,
                               !.lines = order]
      PROVE  op \in Payload /\ Formed(op)
  <2>1. mv \in [Lots -> Int]
    BY <1>a, LinesType
  <2>2. Named(mv) \in SUBSET Lots /\ IsFiniteSet(Named(mv))
    BY <2>1, NamedLots, TxnAssumption, FS_Subset
  <2>3. Cardinality(Named(mv)) \in Nat /\ order \in [1..Cardinality(Named(mv)) -> Named(mv)]
    BY <2>2, FS_CardinalityType DEF Orders
  <2>4. order \in Seq(Lots)
    BY <2>2, <2>3
  <2>8. /\ op \in Payload /\ op.now = today
        /\ op.name = "RETURN" /\ op.day = d /\ op.of = i /\ op.move = mv
        /\ op.lines = order
    BY <1>a, <1>b, <1>3, <2>1, <2>4 DEF Payload, OpNames, Inserting, OnVoucher, OnDocument, Mirs
  <2>9. QED
    BY <1>a, <1>b, <2>8, <2>1, <2>4 DEF Formed, Inserting, OnVoucher
<1>4. ASSUME NEW u \in Users, NEW d \in DatesAsked, NEW mv \in Lines(-MaxQty..MaxQty),
             op = [Asking EXCEPT !.name = "ADJUST", !.by = u, !.day = d, !.move = mv]
      PROVE  op \in Payload /\ Formed(op)
  <2>1. mv \in [Lots -> Int]
    BY <1>a, LinesType
  <2>8. /\ op \in Payload /\ op.now = today
        /\ op.name = "ADJUST" /\ op.by = u /\ op.day = d /\ op.move = mv
    BY <1>a, <1>b, <1>4, <2>1 DEF Payload, OpNames, Inserting, OnVoucher, OnDocument, Mirs
  <2>9. QED
    BY <1>a, <1>b, <2>8, <2>1 DEF Formed, Inserting, OnVoucher
<1>5. ASSUME NEW name \in {"APPROVE", "REJECT"}, NEW u \in Admins, NEW i \in 1..posted,
             op = [Asking EXCEPT !.name = name, !.by = u, !.of = i]
      PROVE  op \in Payload /\ Formed(op)
  <2>8. /\ op \in Payload /\ op.now = today
        /\ op.name = name /\ op.by = u /\ op.of = i
    BY <1>a, <1>b, <1>5 DEF Payload, OpNames, Inserting, OnVoucher, OnDocument, Mirs
  <2>9. QED
    BY <1>a, <1>b, <2>8 DEF Formed, Inserting, OnVoucher
<1>6. ASSUME NEW i \in 1..posted,
             op = [Asking EXCEPT !.name = "CANCEL", !.of = i]
      PROVE  op \in Payload /\ Formed(op)
  <2>8. /\ op \in Payload /\ op.now = today
        /\ op.name = "CANCEL" /\ op.of = i
    BY <1>a, <1>b, <1>6 DEF Payload, OpNames, Inserting, OnVoucher, OnDocument, Mirs
  <2>9. QED
    BY <1>a, <1>b, <2>8 DEF Formed, Inserting, OnVoucher
<1>7. ASSUME NEW m \in Mirs,
             op = [Asking EXCEPT !.name = "CANCEL_MIR", !.doc = m]
      PROVE  op \in Payload /\ Formed(op)
  <2>8. /\ op \in Payload /\ op.now = today
        /\ op.name = "CANCEL_MIR" /\ op.doc = m
    BY <1>a, <1>b, <1>7 DEF Payload, OpNames, Inserting, OnVoucher, OnDocument, Mirs
  <2>9. QED
    BY <1>a, <1>b, <2>8 DEF Formed, Inserting, OnVoucher
<1>8. ASSUME NEW m \in Openings,
             op = [Asking EXCEPT !.name = "CANCEL_OPENING", !.doc = m]
      PROVE  op \in Payload /\ Formed(op)
  <2>8. /\ op \in Payload /\ op.now = today
        /\ op.name = "CANCEL_OPENING" /\ op.doc = m
    BY <1>a, <1>b, <1>8 DEF Payload, OpNames, Inserting, OnVoucher, OnDocument, Mirs
  <2>9. QED
    BY <1>a, <1>b, <2>8 DEF Formed, Inserting, OnVoucher
<1>9. ASSUME NEW l \in {k \in Lots : DocOf[k] \in Mirs}, NEW q \in 1..MaxQty+1,
             op = [Asking EXCEPT !.name = "REJECTION", !.lot = l, !.total = q]
      PROVE  op \in Payload /\ Formed(op)
  <2>1. q \in 0..MaxQty+1 /\ l \in Lots /\ q >= 1
    OBVIOUS
  <2>8. /\ op \in Payload /\ op.now = today
        /\ op.name = "REJECTION" /\ op.lot = l /\ op.total = q
    BY <1>a, <1>b, <1>9, <2>1 DEF Payload, OpNames, Inserting, OnVoucher, OnDocument, Mirs
  <2>9. QED
    BY <1>a, <1>b, <2>1, <2>8 DEF Formed, Inserting, OnVoucher
<1> DEFINE Issue(d, mv) == [Asking EXCEPT !.name = "ISSUE", !.day = d, !.move = mv]
           Return(d, i, mv, order) ==
             [Asking EXCEPT !.name = "RETURN", !.day = d, !.of = i, !.move = mv, !.lines = order]
           Difference(u, d, mv) ==
             [Asking EXCEPT !.name = "ADJUST", !.by = u, !.day = d, !.move = mv]
           Decision(name, u, i) == [Asking EXCEPT !.name = name, !.by = u, !.of = i]
           Rejection(l, q) == [Asking EXCEPT !.name = "REJECTION", !.lot = l, !.total = q]
<1>10. CASE op \in IssuesAsked
  <2>1. IssuesAsked = {Issue(d, mv) : d \in DatesAsked, mv \in Lines(-MaxQty..0)}
    BY DEF IssuesAsked
  <2>2. PICK d \in DatesAsked, mv \in Lines(-MaxQty..0) : op = Issue(d, mv)
    <3> HIDE DEF Issue
    <3> QED BY <1>10, <2>1
  <2>3. QED
    BY <1>2, <2>2
<1>11. CASE op \in ReturnsAsked
  <2>1. ReturnsAsked = UNION {{Return(d, i, mv, order) :
            d \in DatesAsked, i \in 1..posted, order \in Orders(Named(mv))} : mv \in Lines(0..MaxQty)}
    BY DEF ReturnsAsked
  <2>2. PICK mv \in Lines(0..MaxQty) : \E d \in DatesAsked, i \in 1..posted,
             order \in Orders(Named(mv)) : op = Return(d, i, mv, order)
    <3> HIDE DEF Return
    <3> QED BY <1>11, <2>1
  <2>3. QED
    BY <1>3, <2>2
<1>12. CASE op \in DifferencesAsked
  <2>1. DifferencesAsked =
          {Difference(u, d, mv) : u \in Users, d \in DatesAsked, mv \in Lines(-MaxQty..MaxQty)}
    BY DEF DifferencesAsked
  <2>2. PICK u \in Users, d \in DatesAsked, mv \in Lines(-MaxQty..MaxQty) :
          op = Difference(u, d, mv)
    <3> HIDE DEF Difference
    <3> QED BY <1>12, <2>1
  <2>3. QED
    BY <1>4, <2>2
<1>13. CASE op \in DecisionsAsked
  <2>1. DecisionsAsked =
          {Decision(name, u, i) : name \in {"APPROVE", "REJECT"}, u \in Admins, i \in 1..posted}
    BY DEF DecisionsAsked
  <2>2. PICK name \in {"APPROVE", "REJECT"}, u \in Admins, i \in 1..posted :
          op = Decision(name, u, i)
    <3> HIDE DEF Decision
    <3> QED BY <1>13, <2>1
  <2>3. QED
    BY <1>5, <2>2
<1>14. CASE op \in CancelsAsked
  BY <1>6, <1>7, <1>8, <1>14 DEF CancelsAsked
<1>15. CASE op \in RejectionsAsked
  <2>1. RejectionsAsked =
          {Rejection(l, q) : l \in {k \in Lots : DocOf[k] \in Mirs}, q \in 1..MaxQty+1}
    BY DEF RejectionsAsked
  <2>2. PICK l \in {k \in Lots : DocOf[k] \in Mirs}, q \in 1..MaxQty+1 : op = Rejection(l, q)
    <3> HIDE DEF Rejection
    <3> QED BY <1>15, <2>1
  <2>3. QED
    BY <1>9, <2>2
<1>16. QED
  BY <1>10, <1>11, <1>12, <1>13, <1>14, <1>15 DEF Asked

LEMMA ListOfNone ==
  /\ <<>> \in Seq(Rows) /\ Range(<<>>) = {} /\ Rising(<<>>)
BY DEF Range, Rising

LEMMA ListOfOne ==
  ASSUME NEW row \in Rows
  PROVE  <<row>> \in Seq(Rows) /\ Range(<<row>>) = {row} /\ Rising(<<row>>)
BY DEF Range, Rising

LEMMA HeadListed ==
  ASSUME TypeOK, NEW op \in Payload, Formed(op)
  PROVE  /\ HeadRows(op) \in Seq(Rows) /\ Range(HeadRows(op)) = HeadSet(op)
         /\ Rising(HeadRows(op))
<1>1. op.name \in OpNames \ {"NONE"}
  BY DEF Payload, Formed
<1>2. CASE op.name \in {"ISSUE", "ADJUST"}
  BY <1>2, ListOfNone DEF HeadRows, HeadSet, OnVoucher, OnDocument
<1>3. CASE op.name \in OnVoucher
  <2>1. op.of \in VoucherIds
    BY <1>3, LedgerAssumption DEF Formed, TypeOK, VoucherIds
  <2>2. VoucherRow(op.of) \in Rows
    BY <2>1 DEF Rows
  <2>3. HeadRows(op) = <<VoucherRow(op.of)>> /\ HeadSet(op) = {VoucherRow(op.of)}
    BY <1>3 DEF HeadRows, HeadSet, OnVoucher
  <2>4. QED
    BY <2>2, <2>3, ListOfOne
<1>4. CASE op.name \in OnDocument
  <2>1. DocRow(op.doc) \in Rows
    BY <1>4, LedgerAssumption DEF Formed, Mirs, OnDocument, Rows
  <2>2. HeadRows(op) = <<DocRow(op.doc)>> /\ HeadSet(op) = {DocRow(op.doc)}
    BY <1>4 DEF HeadRows, HeadSet, OnVoucher, OnDocument
  <2>3. QED
    BY <2>1, <2>2, ListOfOne
<1>5. CASE op.name = "REJECTION"
  <2> DEFINE a == DocRow(DocOf[op.lot])
             b == LineRow(op.lot)
  <2>1. a \in Rows /\ b \in Rows
    BY <1>5, LedgerAssumption DEF Formed, Mirs, Rows
  <2>2. HeadRows(op) = <<a, b>> /\ HeadSet(op) = {a, b}
    BY <1>5 DEF HeadRows, HeadSet, OnVoucher, OnDocument
  <2>3. Rank(a) < Rank(b)
    BY RankOf
  <2> HIDE DEF a, b
  <2>4. <<a, b>> \in Seq(Rows) /\ Range(<<a, b>>) = {a, b} /\ Rising(<<a, b>>)
    BY <2>1, <2>3 DEF Range, Rising
  <2>5. QED
    BY <2>2, <2>4
<1>6. QED
  BY <1>1, <1>2, <1>3, <1>4, <1>5 DEF OpNames, Inserting, OnVoucher

LEMMA LotsListed ==
  ASSUME TypeOK, NEW op \in Payload, Formed(op)
  PROVE  /\ LotRows(LotsToLock(op)) \in Seq(Rows)
         /\ Range(LotRows(LotsToLock(op))) = LotSet(op)
         /\ op.name # "RETURN" => Rising(LotRows(LotsToLock(op)))
<1>1. op.name \in OpNames \ {"NONE"}
  BY DEF Payload, Formed
<1>2. op.move \in [Lots -> Int]
  BY DEF Payload
<1>3. op.name \in OnVoucher => voucher[op.of].move \in [Lots -> Int]
  BY LedgerAssumption DEF Formed, TypeOK, VoucherRecord, VoucherIds
<1>4. LotRows(<<>>) = <<>>
  BY DEF LotRows
<1>5. CASE op.name \in {"ISSUE", "ADJUST"}
  <2>1. LotsToLock(op) = InIdOrder(Named(op.move)) /\ LotsNamed(op) = Named(op.move)
    BY <1>5 DEF LotsToLock, LotsNamed, Inserting
  <2>2. QED
    BY <1>2, <2>1, NamedLots, RowsInIdOrder DEF LotSet
<1>6. CASE op.name = "RETURN"
  <2> DEFINE S == Named(op.move)
             n == Cardinality(S)
             s == op.lines
  <2>1. LotsToLock(op) = s /\ LotsNamed(op) = S /\ s \in Orders(S)
    BY <1>6 DEF LotsToLock, LotsNamed, Inserting, Formed
  <2>2. S \in SUBSET Lots /\ IsFiniteSet(S)
    BY <1>2, NamedLots, TxnAssumption, FS_Subset
  <2>3. n \in Nat /\ s \in [1..n -> S] /\ \A l \in S : \E k \in 1..n : s[k] = l
    BY <2>1, <2>2, FS_CardinalityType DEF Orders, Range
  <2>4. LotSet(op) = {LotRow(l) : l \in S}
    BY <2>1 DEF LotSet
  <2> HIDE DEF S, n, s
  <2>5. LotRows(s) \in Seq(Rows) /\ Range(LotRows(s)) = {LotRow(l) : l \in S}
    BY <2>2, <2>3, RowsOfLots
  <2>6. QED
    BY <1>6, <2>1, <2>4, <2>5
<1>7. CASE op.name = "APPROVE"
  <2> DEFINE S == Named(voucher[op.of].move)
  <2>1. LotsToLock(op) = InIdOrder(S) /\ LotsNamed(op) = S
    BY <1>7 DEF LotsToLock, LotsNamed, Inserting
  <2>2. S \in SUBSET Lots
    BY <1>3, <1>7, NamedLots DEF OnVoucher
  <2> HIDE DEF S
  <2>3. QED
    BY <2>1, <2>2, RowsInIdOrder DEF LotSet
<1>8. CASE op.name = "REJECT"
  <2>1. LotsToLock(op) = <<>> /\ LotsNamed(op) = {}
    BY <1>8 DEF LotsToLock, LotsNamed, Inserting, OnDocument
  <2>2. QED
    BY <1>4, <2>1, ListOfNone DEF LotSet
<1>9. CASE op.name = "CANCEL"
  <2> DEFINE v == voucher[op.of]
  <2>1. CASE v.status = "POSTED" /\ v.kind # "ISSUE"
    <3>1. /\ LotsToLock(op) = InIdOrder({l \in Lots : v.move[l] > 0})
          /\ LotsNamed(op) = {l \in Lots : v.move[l] > 0}
      BY <1>9, <2>1 DEF LotsToLock, LotsNamed, Inserting
    <3>2. QED
      BY <3>1, RowsInIdOrder DEF LotSet
  <2>2. CASE ~(v.status = "POSTED" /\ v.kind # "ISSUE")
    <3>1. LotsToLock(op) = <<>> /\ LotsNamed(op) = {}
      BY <1>9, <2>2 DEF LotsToLock, LotsNamed, Inserting
    <3>2. QED
      BY <1>4, <3>1, ListOfNone DEF LotSet
  <2>3. QED
    BY <2>1, <2>2
<1>10. CASE op.name \in OnDocument
  <2>1. LotsToLock(op) = InIdOrder(LotsOf(op.doc)) /\ LotsNamed(op) = LotsOf(op.doc)
    BY <1>10 DEF LotsToLock, LotsNamed, Inserting, OnDocument
  <2>2. LotsOf(op.doc) \in SUBSET Lots
    BY DEF LotsOf
  <2>3. QED
    BY <2>1, <2>2, RowsInIdOrder DEF LotSet
<1>11. CASE op.name = "REJECTION"
  <2>1. LotsToLock(op) = <<op.lot>> /\ LotsNamed(op) = {op.lot} /\ op.lot \in Lots
    BY <1>11 DEF LotsToLock, LotsNamed, Inserting, OnDocument, Formed
  <2>2. LotRows(<<op.lot>>) = <<LotRow(op.lot)>> /\ LotRow(op.lot) \in Rows
    BY <2>1 DEF LotRows, Rows
  <2>3. LotSet(op) = {LotRow(op.lot)}
    BY <2>1 DEF LotSet
  <2>4. QED
    BY <2>1, <2>2, <2>3, ListOfOne
<1>12. QED
  BY <1>1, <1>5, <1>6, <1>7, <1>8, <1>9, <1>10, <1>11 DEF OpNames, Inserting, OnVoucher

LEMMA SeqListed ==
  ASSUME NEW op \in Payload
  PROVE  SeqRows(op) \in Seq(Rows) /\ Range(SeqRows(op)) = SeqSet(op)
<1>1. CASE op.name \in Inserting
  <2>1. SeqRow(op.name) \in Rows
    BY <1>1 DEF Rows, Inserting, Kinds
  <2>2. QED
    BY <1>1, <2>1, ListOfOne DEF SeqRows, SeqSet
<1>2. CASE op.name \notin Inserting
  BY <1>2, ListOfNone DEF SeqRows, SeqSet
<1>3. QED
  BY <1>1, <1>2

-----------------------------------------------------------------------------
(* What the others leave alone, and what therefore lasts. *)

Undisturbed(H) ==
  /\ posted <= posted' /\ today <= today'
  /\ \A i \in 1..posted : VoucherRow(i) \in H =>
       /\ voucher'[i] = voucher[i]
       /\ PostedReturnsOf(i)' \subseteq PostedReturnsOf(i)
       /\ \A l \in Lots : Returned(i, l)' <= Returned(i, l)
  /\ \A m \in Docs : doc[m].status # "NONE" =>
       /\ doc'[m].day = doc[m].day
       /\ DocRow(m) \in H => doc'[m] = doc[m]
  /\ \A l \in Lots : doc[DocOf[l]].status # "NONE" =>
       /\ LineRow(l) \in H => lot'[l] = lot[l]
       /\ LotRow(l) \in H => LotIn(l)' = LotIn(l) /\ lot'[l].stocked = lot[l].stocked
  /\ \A l \in Lots, d \in Days : LotRow(l) \in H => MovedBy(l, d)' >= MovedBy(l, d)
  /\ \A kind \in Kinds : SeqRow(kind) \in H => lastSeq'[kind] = lastSeq[kind]

TotalsTyped ==
  /\ \A l \in Lots, d \in Days : MovedBy(l, d) \in Int /\ Held(l, d) \in Int
  /\ \A i \in VoucherIds, l \in Lots : Returned(i, l) \in Int

LEMMA TotalsType == LedgerInv => TotalsTyped
BY MovedByType, HeldType, ReturnedType DEF LedgerInv, TotalsTyped

\* Steps that write no voucher leave every replayed total alone.
LEMMA SameVouchers ==
  ASSUME LedgerInv, UNCHANGED <<voucher, posted>>
  PROVE  /\ posted <= posted'
         /\ \A i \in 1..posted : /\ PostedReturnsOf(i)' = PostedReturnsOf(i)
                                 /\ \A l \in Lots : Returned(i, l)' <= Returned(i, l)
         /\ \A l \in Lots, d \in Days : MovedBy(l, d)' >= MovedBy(l, d)
<1>1. TypeOK /\ posted <= posted' /\ TotalsTyped
  BY TotalsType DEF LedgerInv, TypeOK
<1>2. \A i \in 1..posted : i \in VoucherIds
  BY <1>1, LedgerAssumption DEF TypeOK, VoucherIds
<1>3. \A i, l : Returned(i, l)' = Returned(i, l)
  BY DEF Returned, PostedReturnsOf
<1>4. \A l, d : MovedBy(l, d)' = MovedBy(l, d)
  BY DEF MovedBy, Moved, IsRow
<1>5. \A i \in 1..posted, l \in Lots : Returned(i, l)' <= Returned(i, l)
  BY <1>1, <1>2, <1>3 DEF TotalsTyped
<1>6. \A l \in Lots, d \in Days : MovedBy(l, d)' >= MovedBy(l, d)
  BY <1>1, <1>4 DEF TotalsTyped
<1>7. \A i \in 1..posted : PostedReturnsOf(i)' = PostedReturnsOf(i)
  BY DEF PostedReturnsOf
<1>8. QED
  BY <1>1, <1>5, <1>6, <1>7

LEMMA NothingDisturbs ==
  ASSUME LedgerInv, Tick \/ UNCHANGED vars, UNCHANGED lastSeq, NEW H
  PROVE  Undisturbed(H)
<1>1. UNCHANGED <<doc, lot, voucher, posted>> /\ today <= today'
  BY DEF vars, Tick, LedgerInv, TypeOK, Days
<1>2. QED
  BY <1>1, SameVouchers DEF Undisturbed, LotIn

\* A locked lot's receipt stays, and what it holds can only grow.
LEMMA LotKept ==
  ASSUME LedgerInv, LedgerInv', NEW H, Undisturbed(H), NEW l \in Lots, LotRow(l) \in H,
         doc[DocOf[l]].status # "NONE"
  PROVE  /\ doc'[DocOf[l]].day = doc[DocOf[l]].day
         /\ UsableReceipt(l) => UsableReceipt(l)'
         /\ \A d \in Days : /\ Held(l, d)' >= Held(l, d)
                            /\ \A received \in Int :
                                 ReceiptBy(l, d, received)' = ReceiptBy(l, d, received)
<1>1. doc'[DocOf[l]].day = doc[DocOf[l]].day
  BY LedgerAssumption DEF Undisturbed
<1>2. LotIn(l)' = LotIn(l) /\ lot'[l].stocked = lot[l].stocked
  BY DEF Undisturbed
<1>3. UsableReceipt(l) => UsableReceipt(l)'
  BY <1>2 DEF UsableReceipt
<1>4. \A d \in Days, received \in Int : ReceiptBy(l, d, received)' = ReceiptBy(l, d, received)
  BY <1>1 DEF ReceiptBy
<1>5. ASSUME NEW d \in Days
      PROVE  Held(l, d)' >= Held(l, d)
  <2>1. MovedBy(l, d)' >= MovedBy(l, d)
    BY DEF Undisturbed
  <2>2. MovedBy(l, d) \in Int /\ LotIn(l) \in Int
    BY MovedByType, LotInType DEF LedgerInv
  <2>a. TotalsTyped'
    BY TotalsType, PTL
  <2>3. MovedBy(l, d)' \in Int
    BY <2>a DEF TotalsTyped
  <2>4. ReceiptBy(l, d, LotIn(l))' = ReceiptBy(l, d, LotIn(l)) /\ ReceiptBy(l, d, LotIn(l)) \in Int
    BY <1>1, <1>2, <2>2 DEF ReceiptBy
  <2>5. QED
    BY <2>1, <2>2, <2>3, <2>4 DEF Held
<1>6. QED
  BY <1>1, <1>3, <1>4, <1>5

\* What may be drawn on locked receipts may still be drawn.
LEMMA ChecksLast ==
  ASSUME LedgerInv, LedgerInv', NEW H, Undisturbed(H),
         NEW move \in [Lots -> Int], NEW day \in Days, \A l \in Named(move) : LotRow(l) \in H
  PROVE  /\ IssueOk(move, day) => IssueOk(move, day)'
         /\ AdjustOk(move, day) => AdjustOk(move, day)'
<1>1. SUFFICES ASSUME \A l \in Lots : move[l] # 0 => UsableReceipt(l), CanTake(move, day)
               PROVE  /\ \A l \in Lots : move[l] # 0 => /\ UsableReceipt(l)'
                                                        /\ doc'[DocOf[l]].day = doc[DocOf[l]].day
                      /\ CanTake(move, day)'
  BY DEF IssueOk, AdjustOk
<1>2. \A l \in Lots : move[l] # 0 => LotRow(l) \in H /\ doc[DocOf[l]].status # "NONE"
  BY <1>1, UsableIsPosted DEF Named
<1>3. \A l \in Lots : move[l] # 0 =>
        /\ UsableReceipt(l)'
        /\ doc'[DocOf[l]].day = doc[DocOf[l]].day
        /\ \A d \in Days : Held(l, d)' >= Held(l, d)
  BY <1>1, <1>2, LotKept
<1>4. TotalsTyped /\ TotalsTyped'
  BY TotalsType, PTL
<1>5. ASSUME NEW l \in Lots, move[l] < 0
      PROVE  day >= doc'[DocOf[l]].day /\ HasRoom(l, day, -move[l])'
  <2>1. move[l] # 0 /\ move[l] \in Int
    BY <1>5
  <2>2. day >= doc[DocOf[l]].day /\ HasRoom(l, day, -move[l])
    BY <1>1, <1>5 DEF CanTake
  <2>3. \A d \in day..LastDay : -move[l] <= Held(l, d)'
    <3> SUFFICES ASSUME NEW d \in day..LastDay PROVE -move[l] <= Held(l, d)'
      OBVIOUS
    <3>1. d \in Days
      BY LedgerAssumption DEF Days
    <3>2. -move[l] <= Held(l, d) /\ Held(l, d)' >= Held(l, d)
      BY <1>3, <2>1, <2>2, <3>1 DEF HasRoom
    <3>3. Held(l, d) \in Int /\ Held(l, d)' \in Int
      BY <1>4, <3>1 DEF TotalsTyped
    <3>4. QED
      BY <2>1, <3>2, <3>3
  <2>4. QED
    BY <1>3, <2>1, <2>2, <2>3 DEF HasRoom
<1>6. QED
  BY <1>3, <1>5 DEF CanTake

\* A locked lot that can do without its receipt, or without a locked voucher,
\* still can.
LEMMA CoverLasts ==
  ASSUME LedgerInv, LedgerInv', NEW H, Undisturbed(H), NEW l \in Lots, LotRow(l) \in H,
         doc[DocOf[l]].status # "NONE"
  PROVE  /\ \A received \in Int : CoveredWith(l, received) => CoveredWith(l, received)'
         /\ \A i \in 1..posted : VoucherRow(i) \in H /\ CoveredWithout(i, l)
                                   => CoveredWithout(i, l)'
<1>1. TotalsTyped /\ TotalsTyped' /\ TypeOK
  BY TotalsType, PTL DEF LedgerInv
<1>2. \A d \in Days : /\ MovedBy(l, d)' >= MovedBy(l, d)
                      /\ MovedBy(l, d) \in Int /\ MovedBy(l, d)' \in Int
                      /\ Held(l, d) \in Int /\ Held(l, d)' \in Int
  BY <1>1 DEF Undisturbed, TotalsTyped
<1>3. \A d \in Days : /\ Held(l, d)' >= Held(l, d)
                      /\ \A received \in Int :
                           ReceiptBy(l, d, received)' = ReceiptBy(l, d, received)
  BY LotKept
<1>4. ASSUME NEW received \in Int, CoveredWith(l, received)
      PROVE  CoveredWith(l, received)'
  <2> SUFFICES ASSUME NEW d \in Days PROVE ReceiptBy(l, d, received)' + MovedBy(l, d)' >= 0
    BY DEF CoveredWith
  <2>1. ReceiptBy(l, d, received) + MovedBy(l, d) >= 0 /\ ReceiptBy(l, d, received) \in Int
    BY <1>4 DEF CoveredWith, ReceiptBy
  <2>2. QED
    BY <1>2, <1>3, <2>1
<1>5. ASSUME NEW i \in 1..posted, VoucherRow(i) \in H, CoveredWithout(i, l)
      PROVE  CoveredWithout(i, l)'
  <2> SUFFICES ASSUME NEW d \in Days PROVE Held(l, d)' - Moved(i, l, d)' >= 0
    BY DEF CoveredWithout
  <2>1. i \in VoucherIds /\ posted \in Nat /\ posted <= posted' /\ posted' \in Nat
    BY <1>1, LedgerAssumption DEF Undisturbed, LedgerInv, TypeOK, VoucherIds
  <2>2. voucher'[i] = voucher[i]
    BY <1>5 DEF Undisturbed
  <2>3. IsRow(i) /\ IsRow(i)'
    BY <2>1 DEF IsRow
  <2>4. Moved(i, l, d)' = Moved(i, l, d)
    BY <2>2, <2>3 DEF Moved
  <2>5. Moved(i, l, d) \in Int
    BY <1>1, <2>1, MovedType
  <2>6. Held(l, d) - Moved(i, l, d) >= 0
    BY <1>5 DEF CoveredWithout
  <2>7. QED
    BY <1>2, <1>3, <2>4, <2>5, <2>6
<1>6. QED
  BY <1>4, <1>5

\* What can come back from a locked issue still can.
LEMMA ComeBackLasts ==
  ASSUME LedgerInv, LedgerInv', NEW H, Undisturbed(H),
         NEW i \in 1..posted, VoucherRow(i) \in H, NEW l \in Lots, NEW quantity \in Int
  PROVE  CanComeBack(i, l, quantity) => CanComeBack(i, l, quantity)'
<1>1. TotalsTyped /\ TotalsTyped' /\ TypeOK
  BY TotalsType, PTL DEF LedgerInv
<1>2. i \in VoucherIds
  BY <1>1, LedgerAssumption DEF TypeOK, VoucherIds
<1>3. voucher'[i] = voucher[i] /\ Returned(i, l)' <= Returned(i, l)
  BY DEF Undisturbed
<1>4. Returned(i, l) \in Int /\ Returned(i, l)' \in Int /\ voucher[i].move[l] \in Int
  BY <1>1, <1>2 DEF TotalsTyped, TypeOK, VoucherRecord
<1>5. StillOut(i, l)' >= StillOut(i, l) /\ StillOut(i, l) \in Int /\ StillOut(i, l)' \in Int
  BY <1>3, <1>4 DEF StillOut
<1>6. QED
  BY <1>3, <1>5 DEF CanComeBack

\* The voucher an operation is about keeps its row while it is locked.
LEMMA VoucherKept ==
  ASSUME LedgerInv, LedgerInv', NEW op \in Payload, Formed(op), NEW H, Undisturbed(H),
         HeadSet(op) \subseteq H, op.name \in OnVoucher
  PROVE  /\ op.of \in 1..posted /\ op.of \in 1..posted' /\ op.of \in VoucherIds
         /\ VoucherRow(op.of) \in H /\ voucher'[op.of] = voucher[op.of]
         /\ voucher[op.of] \in VoucherRecord
<1>1. op.of \in 1..posted /\ TypeOK /\ posted \in Nat /\ posted <= posted'
  BY LedgerAssumption DEF Formed, LedgerInv, TypeOK, Undisturbed
<1>2. VoucherRow(op.of) \in H
  BY DEF HeadSet
<1>3. op.of \in VoucherIds
  BY <1>1, LedgerAssumption DEF TypeOK, VoucherIds
<1>4. posted' \in Int => op.of \in 1..posted'
  BY <1>1
<1>5. posted' \in Int
  BY DEF LedgerInv, TypeOK
<1>6. QED
  BY <1>1, <1>2, <1>3, <1>4, <1>5 DEF Undisturbed, TypeOK

LEMMA StandsLasts ==
  ASSUME LedgerInv, LedgerInv', NEW op \in Payload, Formed(op), NEW H, Undisturbed(H),
         HeadSet(op) \subseteq H, Stands(op)
  PROVE  Stands(op)'
<1>1. op.name \in OpNames \ {"NONE"}
  BY DEF Payload, Formed
<1>2. CASE op.name \in {"ISSUE", "ADJUST"}
  BY <1>2 DEF Stands, HeadOk
<1>3. CASE op.name \in OnVoucher
  <2>1. /\ op.of \in 1..posted /\ op.of \in 1..posted'
        /\ voucher'[op.of] = voucher[op.of]
    BY <1>3, VoucherKept
  <2>2. IsRow(op.of) /\ IsRow(op.of)'
    BY <2>1 DEF IsRow
  <2>3. CASE op.name = "RETURN"
    BY <2>1, <2>2, <2>3 DEF Stands, HeadOk, IssueStands
  <2>4. CASE op.name = "APPROVE"
    BY <2>1, <2>2, <2>4 DEF Stands, HeadOk, MayApprove, IsPendingAdjust
  <2>5. CASE op.name = "REJECT"
    BY <2>1, <2>2, <2>5 DEF Stands, HeadOk, IsPendingAdjust
  <2>6. CASE op.name = "CANCEL"
    BY <2>1, <2>2, <2>6 DEF Stands, HeadOk, IsLive
  <2>7. QED
    BY <1>3, <2>3, <2>4, <2>5, <2>6 DEF OnVoucher
<1>4. CASE op.name \in OnDocument
  <2>1. DocRow(op.doc) \in H /\ op.doc \in Docs
    BY <1>4, LedgerAssumption DEF HeadSet, OnVoucher, OnDocument, Formed, Mirs
  <2>2. doc[op.doc].status = "POSTED"
    BY <1>4 DEF Stands, HeadOk, OnDocument
  <2>3. doc'[op.doc] = doc[op.doc]
    BY <2>1, <2>2 DEF Undisturbed
  <2>4. QED
    BY <1>4, <2>2, <2>3 DEF Stands, HeadOk, OnDocument
<1>5. CASE op.name = "REJECTION"
  <2>1. op.lot \in Lots /\ DocRow(DocOf[op.lot]) \in H /\ LineRow(op.lot) \in H /\ DocOf[op.lot] \in Docs
    BY <1>5, LedgerAssumption DEF HeadSet, OnVoucher, OnDocument, Formed
  <2>2. doc[DocOf[op.lot]].status = "POSTED"
    BY <1>5 DEF Stands
  <2>3. doc'[DocOf[op.lot]] = doc[DocOf[op.lot]] /\ lot'[op.lot] = lot[op.lot]
    BY <2>1, <2>2 DEF Undisturbed
  <2>4. QED
    BY <1>5, <2>3 DEF Stands
<1>6. QED
  BY <1>1, <1>2, <1>3, <1>4, <1>5 DEF OpNames, Inserting, OnVoucher

LEMMA LotSetLasts ==
  ASSUME LedgerInv, LedgerInv', NEW op \in Payload, Formed(op), NEW H, Undisturbed(H),
         HeadSet(op) \subseteq H
  PROVE  LotSet(op)' = LotSet(op)
<1>1. op.name \in {"APPROVE", "CANCEL"} => voucher'[op.of] = voucher[op.of]
  BY VoucherKept DEF OnVoucher
<1>2. LotsNamed(op)' = LotsNamed(op)
  BY <1>1 DEF LotsNamed
<1>3. QED
  BY <1>2 DEF LotSet

LEMMA FineLasts ==
  ASSUME LedgerInv, LedgerInv', NEW op \in Payload, Formed(op), NEW H, Undisturbed(H),
         HeadSet(op) \cup LotSet(op) \subseteq H, Stands(op), LotsFine(op)
  PROVE  LotsFine(op)'
<1>1. op.name \in OpNames \ {"NONE"} /\ op.move \in [Lots -> Int] /\ op.day \in Days
  BY DEF Payload, Formed
<1>2. \A l \in LotsNamed(op) : LotRow(l) \in H
  BY DEF LotSet
<1>3. op.name \in OnVoucher =>
        /\ op.of \in 1..posted /\ op.of \in 1..posted' /\ op.of \in VoucherIds
        /\ VoucherRow(op.of) \in H /\ voucher'[op.of] = voucher[op.of]
        /\ voucher[op.of].move \in [Lots -> Int] /\ voucher[op.of].day \in Days
  BY VoucherKept DEF VoucherRecord
<1>4. CASE op.name \in {"ISSUE", "ADJUST"}
  <2>1. \A l \in Named(op.move) : LotRow(l) \in H
    BY <1>2, <1>4 DEF LotsNamed, Inserting
  <2>2. /\ IssueOk(op.move, op.day) => IssueOk(op.move, op.day)'
        /\ AdjustOk(op.move, op.day) => AdjustOk(op.move, op.day)'
    BY <1>1, <2>1, ChecksLast
  <2>3. QED
    BY <1>4, <2>2 DEF LotsFine, LotsOk
<1>5. CASE op.name = "RETURN"
  <2>1. \A l \in Lots : CanComeBack(op.of, l, op.move[l]) => CanComeBack(op.of, l, op.move[l])'
    BY <1>1, <1>3, <1>5, ComeBackLasts DEF OnVoucher
  <2>2. QED
    BY <1>5, <2>1 DEF LotsFine
<1>6. CASE op.name = "APPROVE"
  <2> DEFINE mv == voucher[op.of].move
             d == voucher[op.of].day
  <2>1. mv \in [Lots -> Int] /\ d \in Days /\ voucher'[op.of] = voucher[op.of]
    BY <1>3, <1>6 DEF OnVoucher
  <2>2. \A l \in Named(mv) : LotRow(l) \in H
    BY <1>2, <1>6 DEF LotsNamed, Inserting
  <2>3. PICK m2, d2 : m2 = mv /\ d2 = d
    OBVIOUS
  <2>4. AdjustOk(m2, d2) => AdjustOk(m2, d2)'
    BY <2>1, <2>2, <2>3, ChecksLast
  <2>5. LotsFine(op) = AdjustOk(m2, d2)
    BY <1>6, <2>3 DEF LotsFine, LotsOk
  <2>6. LotsFine(op)' = AdjustOk(m2, d2)'
    BY <1>6, <2>1, <2>3 DEF LotsFine, LotsOk
  <2>7. QED
    BY <2>4, <2>5, <2>6
<1>7. CASE op.name = "REJECT"
  BY <1>7 DEF LotsFine, LotsOk
<1>8. CASE op.name = "CANCEL"
  <2>1. /\ op.of \in 1..posted /\ VoucherRow(op.of) \in H /\ voucher'[op.of] = voucher[op.of]
        /\ op.of \in VoucherIds
    BY <1>3, <1>8 DEF OnVoucher
  <2>2. voucher[op.of].status = "POSTED" => Undoable(op.of)
    BY <1>8 DEF LotsFine, LotsOk
  <2>3. SUFFICES ASSUME voucher[op.of].status = "POSTED"
                 PROVE  Undoable(op.of)'
    BY <1>8, <2>1 DEF LotsFine, LotsOk
  <2>4. CASE voucher[op.of].kind = "ISSUE"
    <3>1. PostedReturnsOf(op.of)' \subseteq PostedReturnsOf(op.of)
      BY <2>1 DEF Undisturbed
    <3>2. QED
      BY <2>1, <2>2, <2>3, <2>4, <3>1 DEF Undoable
  <2>5. CASE voucher[op.of].kind # "ISSUE"
    <3> SUFFICES ASSUME NEW l \in Lots, voucher[op.of].move[l] > 0
                 PROVE  CoveredWithout(op.of, l)'
      BY <2>1, <2>5 DEF Undoable
    <3>1. LotRow(l) \in H
      BY <1>2, <1>8, <2>3, <2>5 DEF LotsNamed, Inserting
    <3>2. CoveredWithout(op.of, l)
      BY <2>2, <2>3, <2>5 DEF Undoable
    <3>3. voucher[op.of].move[l] # 0
      BY <1>3, <1>8 DEF OnVoucher
    <3>4. doc[DocOf[l]].status # "NONE"
      BY <2>1, <2>3, <3>3 DEF LedgerInv, Shape
    <3>5. QED
      BY <2>1, <3>1, <3>2, <3>4, CoverLasts
  <2>6. QED
    BY <2>4, <2>5
<1>9. CASE op.name \in OnDocument
  <2>1. doc[op.doc].status = "POSTED"
    BY <1>9 DEF Stands, HeadOk, OnDocument
  <2>2. \A l \in LotsOf(op.doc) : l \in Lots /\ LotRow(l) \in H /\ doc[DocOf[l]].status # "NONE"
    BY <1>2, <1>9, <2>1 DEF LotsNamed, LotsOf, Inserting, OnDocument
  <2>3. \A l \in LotsOf(op.doc) : CoveredWith(l, 0) => CoveredWith(l, 0)'
    BY <2>2, CoverLasts
  <2>4. QED
    BY <1>9, <2>3 DEF LotsFine, LotsOk, OnDocument
<1>10. CASE op.name = "REJECTION"
  <2>1. op.lot \in Lots /\ LineRow(op.lot) \in H /\ LotRow(op.lot) \in H
    BY <1>2, <1>10 DEF HeadSet, LotsNamed, Inserting, OnVoucher, OnDocument, Formed
  <2>2. doc[DocOf[op.lot]].status = "POSTED"
    BY <1>10 DEF Stands
  <2>3. lot'[op.lot] = lot[op.lot] /\ lot[op.lot] \in LotRecord /\ op.total \in Nat
    BY <2>1, <2>2, LedgerAssumption DEF Undisturbed, LedgerInv, TypeOK, Payload
  <2>4. PICK left \in Int : left = lot[op.lot].received - op.total
    BY <2>3, LedgerAssumption DEF LotRecord
  <2>5. CoveredWith(op.lot, left) => CoveredWith(op.lot, left)'
    BY <2>1, <2>2, CoverLasts
  <2>6. CoveredAfterRejection(op.lot, op.total) <=> (lot[op.lot].stocked => CoveredWith(op.lot, left))
    BY <2>4 DEF CoveredAfterRejection
  <2>7. CoveredAfterRejection(op.lot, op.total)' <=> (lot'[op.lot].stocked => CoveredWith(op.lot, left)')
    BY <2>3, <2>4 DEF CoveredAfterRejection
  <2>8. QED
    BY <1>10, <2>3, <2>5, <2>6, <2>7 DEF LotsFine, LotsOk
<1>11. QED
  BY <1>1, <1>4, <1>5, <1>6, <1>7, <1>8, <1>9, <1>10 DEF OpNames, Inserting, OnVoucher

\* What a request knows outlasts the steps of the others.
LEMMA SoundLasts ==
  ASSUME LedgerInv, LedgerInv', NEW t \in Transaction, Sound(t), Undisturbed(t.held),
         t.stage # "idle" => today' <= t.op.now + Straddle
  PROVE  Sound(t)'
<1>1. CASE t.stage = "idle"
  BY <1>1 DEF Sound, Idle, NoOp
<1>2. CASE t.stage # "idle"
  <2> DEFINE H == t.held
  <2>1. t.op \in Payload /\ Formed(t.op) /\ Locks(t) /\ Knows(t) /\ Sequenced(t) /\ InOrder(t)
    BY <1>2 DEF Sound, Transaction
  <2>2. Formed(t.op)'
    <3>1. today <= today' /\ posted <= posted' /\ posted \in Int /\ posted' \in Int
          /\ today \in Int /\ today' \in Int /\ t.op.now \in Int
      BY <2>1 DEF Undisturbed, LedgerInv, TypeOK, Days, Payload
    <3>2. t.op.now <= today'
      BY <2>1, <3>1 DEF Formed
    <3>3. t.op.name \in OnVoucher => t.op.of \in 1..posted'
      BY <2>1, <3>1 DEF Formed
    <3>4. QED
      BY <1>2, <2>1, <3>2, <3>3 DEF Formed
  <2>3. t.stage \in {"lots", "write"} => HeadSet(t.op) \subseteq H
    BY <2>1 DEF Locks, Earlier
  <2>4. t.stage = "write" => LotSet(t.op) \subseteq H
    BY <2>1 DEF Locks, Earlier
  <2>5. t.stage \in {"lots", "write"} => Stands(t.op) /\ Stands(t.op)' /\ LotSet(t.op)' = LotSet(t.op)
    BY <2>1, <2>3, StandsLasts, LotSetLasts DEF Knows
  <2>6. Locks(t)'
    <3>1. HeadSet(t.op)' = HeadSet(t.op) /\ SeqSet(t.op)' = SeqSet(t.op)
      BY DEF HeadSet, SeqSet
    <3>2. Earlier(t)' = Earlier(t) /\ Current(t)' = Current(t)
      BY <2>5, <3>1 DEF Earlier, Current
    <3>3. QED
      BY <2>1, <3>2 DEF Locks
  <2>7. Knows(t)'
    <3>1. ASSUME t.stage = "lots", t.op.name = "RETURN", t.ok,
                 NEW l \in Lots, LotRow(l) \in H
          PROVE  CanComeBack(t.op.of, l, t.op.move[l])'
      <4>1. t.op.of \in 1..posted /\ VoucherRow(t.op.of) \in H /\ t.op.move[l] \in Int
        BY <2>1, <2>3, <3>1 DEF Formed, HeadSet, OnVoucher, Payload
      <4>2. CanComeBack(t.op.of, l, t.op.move[l])
        BY <2>1, <3>1 DEF Knows
      <4>3. QED
        BY <4>1, <4>2, ComeBackLasts
    <3>2. t.stage = "write" => LotsFine(t.op)'
      BY <2>1, <2>3, <2>4, <2>5, FineLasts DEF Knows
    <3>3. QED
      BY <2>5, <3>1, <3>2 DEF Knows
  <2>8. Sequenced(t)'
    BY <2>1 DEF Sequenced, Undisturbed, SeqRows
  <2>9. InOrder(t)'
    BY <2>1 DEF InOrder, Rising, Rank
  <2>10. QED
    BY <1>2, <2>2, <2>6, <2>7, <2>8, <2>9 DEF Sound
<1>3. QED
  BY <1>1, <1>2

-----------------------------------------------------------------------------
(* What a request learns by its own steps. *)

LEMMA StartSound ==
  ASSUME LedgerInv, NEW op \in Asked,
         NEW t, t = [Idle EXCEPT !.stage = "head", !.op = op, !.need = HeadRows(op)]
  PROVE  t \in Transaction /\ Sound(t) /\ t.held = {}
<1>1. op \in Payload /\ Formed(op)
  BY AskedIsFormed DEF LedgerInv
<1>2. HeadRows(op) \in Seq(Rows) /\ Range(HeadRows(op)) = HeadSet(op) /\ Rising(HeadRows(op))
  BY <1>1, HeadListed DEF LedgerInv
<1>3. /\ t.stage = "head" /\ t.op = op /\ t.need = HeadRows(op) /\ t.held = {} /\ t.ok = TRUE
      /\ t.seq = 0 /\ t \in Transaction
  BY <1>1, <1>2 DEF Idle, Transaction
<1>4. Locks(t)
  BY <1>2, <1>3 DEF Locks, Earlier, Current
<1>5. Knows(t) /\ Sequenced(t)
  BY <1>3 DEF Knows, Sequenced
<1>6. InOrder(t)
  BY <1>2, <1>3 DEF InOrder
<1>7. QED
  BY <1>1, <1>3, <1>4, <1>5, <1>6 DEF Sound

\* The record of a request that has locked the next row of its list.
Taken(t) ==
  [t EXCEPT !.need = Tail(t.need), !.held = t.held \cup {Head(t.need)},
            !.ok = t.ok /\ (t.stage = "lots" /\ t.op.name = "RETURN"
                            => CanComeBack(t.op.of, Head(t.need)[2], t.op.move[Head(t.need)[2]])),
            !.seq = IF t.stage = "write" THEN lastSeq[t.op.name] ELSE t.seq]

LEMMA AcquireSound ==
  ASSUME LedgerInv, TxnTypeOK, NEW t \in Transaction, Sound(t), t.need # <<>>,
         NEW u, u = Taken(t)
  PROVE  u \in Transaction /\ Sound(u) /\ u.held = t.held \cup {Head(t.need)}
<1> DEFINE row == Head(t.need)
<1>1. t.stage # "idle"
  BY DEF Sound, Idle
<1>2. t.op \in Payload /\ Formed(t.op) /\ Locks(t) /\ Knows(t) /\ Sequenced(t) /\ InOrder(t)
  BY <1>1 DEF Sound, Transaction
<1>3. /\ row \in Rows /\ Tail(t.need) \in Seq(Rows)
      /\ Range(t.need) = {row} \cup Range(Tail(t.need))
      /\ Rising(t.need) => /\ Rising(Tail(t.need))
                           /\ \A k \in 1..Len(Tail(t.need)) : Rank(row) < Rank(Tail(t.need)[k])
  BY TakeFirst DEF Transaction
<1>4. t.stage = "write" => t.op.name \in Inserting /\ row = SeqRow(t.op.name) /\ Tail(t.need) = <<>>
  <2> SUFFICES ASSUME t.stage = "write"
               PROVE  t.op.name \in Inserting /\ row = SeqRow(t.op.name) /\ Tail(t.need) = <<>>
    OBVIOUS
  <2>1. t.need = SeqRows(t.op)
    BY <1>2 DEF Sequenced
  <2>2. t.op.name \in Inserting /\ t.need = <<SeqRow(t.op.name)>>
    BY <2>1 DEF SeqRows
  <2>3. QED
    BY <2>2
<1>5. /\ u.stage = t.stage /\ u.op = t.op /\ u.need = Tail(t.need) /\ u.held = t.held \cup {row}
      /\ u.seq = IF t.stage = "write" THEN lastSeq[t.op.name] ELSE t.seq
      /\ u.ok = (t.ok /\ (t.stage = "lots" /\ t.op.name = "RETURN"
                          => CanComeBack(t.op.of, row[2], t.op.move[row[2]])))
  BY DEF Taken, Transaction
<1>6. u \in Transaction
  <2>1. (IF t.stage = "write" THEN lastSeq[t.op.name] ELSE t.seq) \in Nat
    BY <1>4 DEF TxnTypeOK, Transaction, Inserting, Kinds
  <2>2. t.held \cup {row} \in SUBSET Rows
    BY <1>3 DEF Transaction
  <2>3. QED
    BY <1>3, <2>1, <2>2 DEF Taken, Transaction
<1>7. Locks(u)
  BY <1>2, <1>3, <1>5 DEF Locks, Earlier, Current
<1>8. Knows(u)
  <2>1. ASSUME t.stage = "lots", t.op.name = "RETURN", u.ok, NEW l \in Lots, LotRow(l) \in u.held
        PROVE  CanComeBack(t.op.of, l, t.op.move[l])
    <3>1. CASE LotRow(l) \in t.held
      BY <1>2, <1>5, <2>1, <3>1 DEF Knows
    <3>2. CASE LotRow(l) = row
      <4>1. row[2] = l
        BY <3>2 DEF LotRow
      <4>2. QED
        BY <1>5, <2>1, <4>1
    <3>3. QED
      BY <1>5, <2>1, <3>1, <3>2
  <2>2. QED
    BY <1>2, <1>5, <2>1 DEF Knows
<1>9. Sequenced(u)
  <2> SUFFICES ASSUME t.stage = "write"
               PROVE  /\ u.need = <<>>
                      /\ \A kind \in Kinds : SeqRow(kind) \in u.held => u.seq = lastSeq[kind]
    BY <1>5 DEF Sequenced
  <2>1. u.need = <<>> /\ u.seq = lastSeq[t.op.name] /\ t.op.name \in Kinds
    BY <1>4, <1>5 DEF Inserting, Kinds
  <2>2. ASSUME NEW kind \in Kinds, SeqRow(kind) \in u.held
        PROVE  kind = t.op.name
    <3>1. SeqRow(kind) \notin t.held
      BY <1>2 DEF Sequenced
    <3>2. SeqRow(kind) = SeqRow(t.op.name)
      BY <1>4, <1>5, <2>2, <3>1
    <3>3. QED
      BY <3>2, RowsApart
  <2>3. QED
    BY <2>1, <2>2
<1>10. InOrder(u)
  <2> SUFFICES ASSUME t.op.name # "RETURN", t.stage \in {"head", "lots"}
               PROVE  /\ Rising(Tail(t.need))
                      /\ \A a \in t.held \cup {row}, k \in 1..Len(Tail(t.need)) :
                           Rank(a) < Rank(Tail(t.need)[k])
    BY <1>5 DEF InOrder
  <2>1. Rising(t.need) /\ \A a \in t.held, k \in 1..Len(t.need) : Rank(a) < Rank(t.need[k])
    BY <1>2 DEF InOrder
  <2>2. \A k \in 1..Len(Tail(t.need)) : k+1 \in 1..Len(t.need) /\ Tail(t.need)[k] = t.need[k+1]
    BY DEF Transaction
  <2>3. QED
    BY <1>3, <2>1, <2>2
<1>11. QED
  BY <1>1, <1>2, <1>5, <1>6, <1>7, <1>8, <1>9, <1>10 DEF Sound

LEMMA CheckHeadSound ==
  ASSUME LedgerInv, NEW t \in Transaction, Sound(t), t.stage = "head", t.need = <<>>,
         HeadOk(t.op),
         NEW u, u = [t EXCEPT !.stage = "lots", !.need = LotRows(LotsToLock(t.op))]
  PROVE  u \in Transaction /\ Sound(u) /\ u.held = t.held
<1>1. t.op \in Payload /\ Formed(t.op) /\ Locks(t)
  BY DEF Sound, Transaction
<1>2. /\ LotRows(LotsToLock(t.op)) \in Seq(Rows)
      /\ Range(LotRows(LotsToLock(t.op))) = LotSet(t.op)
      /\ t.op.name # "RETURN" => Rising(LotRows(LotsToLock(t.op)))
  BY <1>1, LotsListed DEF LedgerInv
<1>3. /\ u.stage = "lots" /\ u.op = t.op /\ u.need = LotRows(LotsToLock(t.op))
      /\ u.held = t.held /\ u.ok = t.ok /\ u \in Transaction
  BY <1>2 DEF Transaction
<1>4. t.held = HeadSet(t.op)
  BY <1>1, ListOfNone DEF Locks, Earlier, Current
<1>5. Locks(u)
  BY <1>2, <1>3, <1>4 DEF Locks, Earlier, Current
<1>6. Stands(t.op)
  <2>1. CASE t.op.name = "REJECTION"
    <3>1. /\ RejectionInRange(t.op.lot, t.op.total)
          /\ today <= doc[DocOf[t.op.lot]].day + RejectDays
      BY <2>1 DEF HeadOk
    <3>2. /\ t.op.now <= today /\ t.op.now \in Int /\ today \in Int
          /\ doc[DocOf[t.op.lot]].day \in Int /\ RejectDays \in Int
      BY <1>1, <2>1, LedgerAssumption DEF Formed, Payload, Days, LedgerInv, TypeOK, DocRecord
    <3>3. QED
      BY <2>1, <3>1, <3>2 DEF Stands, RejectionInRange
  <2>2. CASE t.op.name # "REJECTION"
    BY <2>2 DEF Stands
  <2>3. QED
    BY <2>1, <2>2
<1>7. Knows(u)
  <2>1. t.op.name = "RETURN" => \A l \in Lots : LotRow(l) \notin u.held
    BY <1>3, <1>4, RowsApart DEF HeadSet, OnVoucher
  <2>2. QED
    BY <1>3, <1>6, <2>1 DEF Knows
<1>8. InOrder(u)
  <2>1. SUFFICES ASSUME t.op.name # "RETURN"
                 PROVE  \A a \in t.held, k \in 1..Len(u.need) : Rank(a) < Rank(u.need[k])
    BY <1>2, <1>3 DEF InOrder
  <2>2. \A a \in t.held : Rank(a) \in {0, 1}
    BY <1>4, RankOf DEF HeadSet
  <2>3. \A a \in LotSet(t.op) : Rank(a) \in Nat /\ Rank(a) >= 2
    <3> SUFFICES ASSUME NEW l \in LotsNamed(t.op)
                 PROVE  Rank(LotRow(l)) \in Nat /\ Rank(LotRow(l)) >= 2
      BY DEF LotSet
    <3>1. l \in Lots
      BY <1>1 DEF LotsNamed, Named, LotsOf, Formed
    <3>2. QED
      BY <3>1, RankOf, TxnAssumption
  <2>4. \A k \in 1..Len(u.need) : u.need[k] \in LotSet(t.op)
    BY <1>2, <1>3 DEF Range
  <2>5. QED
    BY <2>2, <2>3, <2>4
<1>9. QED
  BY <1>1, <1>3, <1>5, <1>7, <1>8 DEF Sound, Sequenced

LEMMA CheckLotsSound ==
  ASSUME LedgerInv, NEW t \in Transaction, Sound(t), t.stage = "lots", t.need = <<>>,
         t.ok, LotsOk(t.op),
         NEW u, u = [t EXCEPT !.stage = "write", !.need = SeqRows(t.op)]
  PROVE  u \in Transaction /\ Sound(u) /\ u.held = t.held
<1>1. t.op \in Payload /\ Formed(t.op) /\ Locks(t) /\ Knows(t)
  BY DEF Sound, Transaction
<1>2. SeqRows(t.op) \in Seq(Rows) /\ Range(SeqRows(t.op)) = SeqSet(t.op)
  BY <1>1, SeqListed
<1>3. /\ u.stage = "write" /\ u.op = t.op /\ u.need = SeqRows(t.op)
      /\ u.held = t.held /\ u \in Transaction
  BY <1>2 DEF Transaction
<1>4. t.held = HeadSet(t.op) \cup LotSet(t.op)
  BY <1>1, ListOfNone DEF Locks, Earlier, Current
<1>5. Locks(u)
  BY <1>2, <1>3, <1>4 DEF Locks, Earlier, Current
<1>6. LotsFine(t.op)
  <2>1. CASE t.op.name = "RETURN"
    <3> SUFFICES ASSUME NEW l \in Lots, t.op.move[l] # 0
                 PROVE  CanComeBack(t.op.of, l, t.op.move[l])
      BY <2>1 DEF LotsFine, CanComeBack
    <3>1. l \in LotsNamed(t.op)
      BY <2>1 DEF LotsNamed, Named, Inserting
    <3>2. LotRow(l) \in t.held
      BY <1>4, <3>1 DEF LotSet
    <3>3. QED
      BY <1>1, <2>1, <3>2 DEF Knows
  <2>2. CASE t.op.name # "RETURN"
    BY <2>2 DEF LotsFine
  <2>3. QED
    BY <2>1, <2>2
<1>7. Knows(u)
  BY <1>1, <1>3, <1>6 DEF Knows
<1>8. ASSUME NEW kind
      PROVE  SeqRow(kind) \notin u.held
  <2>1. SeqRow(kind) \notin HeadSet(t.op)
    BY RowsApart DEF HeadSet
  <2>2. SeqRow(kind) \notin LotSet(t.op)
    BY RowsApart DEF LotSet
  <2>3. QED
    BY <1>3, <1>4, <2>1, <2>2
<1>9. Sequenced(u)
  BY <1>3, <1>8 DEF Sequenced
<1>10. QED
  BY <1>1, <1>3, <1>5, <1>7, <1>9 DEF Sound, InOrder

-----------------------------------------------------------------------------
(* What one request's commit leaves alone. *)

\* One voucher row written, not one of H's, and moving none of H's lots down.
LEMMA RowDisturbs ==
  ASSUME LedgerInv, LedgerInv', NEW i \in VoucherIds, OnlyRow(i), posted <= posted',
         UNCHANGED today, NEW H, IsRow(i) => VoucherRow(i) \notin H,
         \A l \in Lots, d \in Days : LotRow(l) \in H => Moved(i, l, d)' >= Moved(i, l, d),
         \A k \in 1..posted : VoucherRow(k) \in H =>
           /\ i \in PostedReturnsOf(k)' => i \in PostedReturnsOf(k)
           /\ \A l \in Lots : Back(i, k, l)' <= Back(i, k, l),
         \A kind \in Kinds : SeqRow(kind) \in H => lastSeq'[kind] = lastSeq[kind]
  PROVE  Undisturbed(H)
<1>1. TypeOK /\ TypeOK' /\ TotalsTyped /\ TotalsTyped' /\ UNCHANGED <<doc, lot>>
  BY TotalsType, PTL DEF LedgerInv, OnlyRow
<1>2. \A k \in 1..posted : k \in VoucherIds /\ IsRow(k)
  BY <1>1, LedgerAssumption DEF TypeOK, VoucherIds, IsRow
<1>3. ASSUME NEW k \in 1..posted, VoucherRow(k) \in H
      PROVE  /\ voucher'[k] = voucher[k]
             /\ PostedReturnsOf(k)' \subseteq PostedReturnsOf(k)
             /\ \A l \in Lots : Returned(k, l)' <= Returned(k, l)
  <2>1. k # i /\ voucher'[k] = voucher[k]
    BY <1>2, <1>3 DEF OnlyRow
  <2>2. ASSUME NEW r \in PostedReturnsOf(k)'
        PROVE  r \in PostedReturnsOf(k)
    <3>1. r \in 1..posted' /\ voucher'[r].of = k /\ voucher'[r].status = "POSTED"
      BY <2>2 DEF PostedReturnsOf
    <3>2. r \in VoucherIds /\ IsRow(r)'
      BY <1>1, <3>1, LedgerAssumption DEF TypeOK, VoucherIds, IsRow
    <3>3. CASE r = i
      BY <1>3, <2>2, <3>3
    <3>4. CASE r # i
      BY <3>1, <3>2, <3>4 DEF OnlyRow, PostedReturnsOf, IsRow
    <3>5. QED
      BY <3>3, <3>4
  <2>3. ASSUME NEW l \in Lots
        PROVE  Returned(k, l)' <= Returned(k, l)
    <3>1. Returned(k, l)' = Returned(k, l) - Back(i, k, l) + Back(i, k, l)'
      BY <1>1, <1>2, ReturnedOnlyRow
    <3>2. Returned(k, l) \in Int /\ Returned(k, l)' \in Int
      BY <1>1, <1>2 DEF TotalsTyped
    <3>3. Back(i, k, l) \in Int /\ Back(i, k, l)' \in Int
      BY <1>1 DEF TypeOK, VoucherRecord, Back
    <3>4. QED
      BY <1>3, <3>1, <3>2, <3>3
  <2>4. QED
    BY <2>1, <2>2, <2>3
<1>4. ASSUME NEW l \in Lots, NEW d \in Days, LotRow(l) \in H
      PROVE  MovedBy(l, d)' >= MovedBy(l, d)
  <2>1. \A k \in VoucherIds : k # i => Moved(k, l, d)' = Moved(k, l, d)
    BY DEF OnlyRow, Moved
  <2>2. MovedBy(l, d)' = MovedBy(l, d) - Moved(i, l, d) + Moved(i, l, d)'
    BY <1>1, <2>1, MovedByOneChanged
  <2>3. /\ MovedBy(l, d) \in Int /\ MovedBy(l, d)' \in Int
        /\ Moved(i, l, d) \in Int /\ Moved(i, l, d)' \in Int
    BY <1>1, MovedType DEF TotalsTyped, TypeOK, VoucherRecord, Moved
  <2>4. QED
    BY <1>4, <2>2, <2>3
<1>5. today <= today'
  BY <1>1 DEF TypeOK, Days
<1>6. QED
  BY <1>1, <1>3, <1>4, <1>5 DEF Undisturbed, LotIn

\* The rows held at the commit.
LEMMA RowsAtCommit ==
  ASSUME NEW t \in Transaction, Sound(t), t.stage = "write", t.need = <<>>
  PROVE  /\ t.held = HeadSet(t.op) \cup LotSet(t.op) \cup SeqSet(t.op)
         /\ t.op \in Payload /\ Formed(t.op) /\ Stands(t.op) /\ LotsFine(t.op)
         /\ t.op.name \in Inserting => /\ SeqRow(t.op.name) \in t.held
                                       /\ t.seq = lastSeq[t.op.name]
<1>1. t.op \in Payload /\ Formed(t.op) /\ Locks(t) /\ Knows(t) /\ Sequenced(t)
  BY DEF Sound, Transaction
<1>2. t.held = HeadSet(t.op) \cup LotSet(t.op) \cup SeqSet(t.op)
  BY <1>1, ListOfNone DEF Locks, Earlier, Current
<1>3. t.op.name \in Inserting => SeqRow(t.op.name) \in t.held
  BY <1>2 DEF SeqSet
<1>4. QED
  BY <1>1, <1>2, <1>3 DEF Knows, Sequenced, Inserting, Kinds

LEMMA NewRowType ==
  ASSUME NEW op \in Payload, op.name \in Inserting
  PROVE  /\ NewRow(op) \in VoucherRecord /\ NewRow(op).kind = op.name /\ NewRow(op).move = op.move
         /\ NewRow(op).of = IF op.name = "RETURN" THEN op.of ELSE 0
<1>1. op.day \in Days /\ op.move \in [Lots -> Int] /\ op.by \in Users \cup {Nobody}
      /\ op.of \in 0..MaxVouchers /\ 0 \in 0..MaxVouchers
  BY LedgerAssumption DEF Payload
<1>2. QED
  BY <1>1 DEF NewRow, AdjustRow, Entered, VoucherRecord, Kinds, Statuses, Inserting

LEMMA InsertDisturbs ==
  ASSUME LedgerInv, LedgerInv', NEW t \in Transaction, Sound(t), t.stage = "write",
         t.need = <<>>, t.op.name \in Inserting, Write(t.op),
         \A kind \in Kinds : kind # t.op.name => lastSeq'[kind] = lastSeq[kind],
         NEW H, H \cap t.held = {}
  PROVE  Undisturbed(H)
<1> DEFINE v == NewRow(t.op)
<1>1. /\ t.held = HeadSet(t.op) \cup LotSet(t.op) \cup SeqSet(t.op)
      /\ t.op \in Payload /\ Formed(t.op) /\ SeqRow(t.op.name) \in t.held
  BY RowsAtCommit
<1>2. Insert(v) /\ v \in VoucherRecord /\ v.move = t.op.move
      /\ v.of = IF t.op.name = "RETURN" THEN t.op.of ELSE 0
  BY <1>1, NewRowType DEF Write, Inserting
<1> HIDE DEF v
<1>3. TypeOK /\ TypeOK'
  BY DEF LedgerInv
<1>4. PICK n : n = posted + 1
  OBVIOUS
<1>5. /\ n \in VoucherIds /\ OnlyRow(n) /\ voucher'[n] = v /\ ~IsRow(n) /\ IsRow(n)'
      /\ posted' = n /\ UNCHANGED today
  BY <1>2, <1>3, <1>4, RowOfInsert DEF Insert
<1>6. posted <= posted'
  BY <1>3, <1>4, <1>5 DEF TypeOK
<1>7. ASSUME NEW l \in Lots, NEW d \in Days, LotRow(l) \in H
      PROVE  Moved(n, l, d)' >= Moved(n, l, d)
  <2>1. LotRow(l) \notin LotSet(t.op)
    BY <1>1, <1>7
  <2>2. t.op.move[l] = 0
    BY <2>1 DEF LotSet, LotsNamed, Named
  <2>3. QED
    BY <1>2, <1>5, <2>2 DEF Moved
<1>8. ASSUME NEW k \in 1..posted, VoucherRow(k) \in H
      PROVE  /\ n \notin PostedReturnsOf(k)'
             /\ \A l \in Lots : Back(n, k, l)' <= Back(n, k, l)
  <2>1. v.of # k
    <3>1. CASE t.op.name = "RETURN"
      BY <1>1, <1>2, <1>8, <3>1 DEF HeadSet, OnVoucher
    <3>2. CASE t.op.name # "RETURN"
      BY <1>2, <1>3, <3>2 DEF TypeOK
    <3>3. QED
      BY <3>1, <3>2
  <2>2. n \notin PostedReturnsOf(k)' /\ n \notin PostedReturnsOf(k)
    BY <1>5, <2>1 DEF PostedReturnsOf, IsRow
  <2>3. QED
    BY <2>2 DEF Back
<1>9. \A kind \in Kinds : SeqRow(kind) \in H => lastSeq'[kind] = lastSeq[kind]
  BY <1>1
<1>10. QED
  BY <1>5, <1>6, <1>7, <1>8, <1>9, RowDisturbs

LEMMA DecisionDisturbs ==
  ASSUME LedgerInv, LedgerInv', NEW t \in Transaction, Sound(t), t.stage = "write",
         t.need = <<>>, t.op.name \in {"APPROVE", "REJECT", "CANCEL"}, Write(t.op),
         UNCHANGED lastSeq, NEW H, H \cap t.held = {}
  PROVE  Undisturbed(H)
<1>1. /\ t.held = HeadSet(t.op) \cup LotSet(t.op) \cup SeqSet(t.op)
      /\ t.op \in Payload /\ Formed(t.op) /\ Stands(t.op)
  BY RowsAtCommit
<1>2. PICK i : i = t.op.of
  OBVIOUS
<1>3. TypeOK /\ TypeOK' /\ i \in 1..posted /\ i \in VoucherIds /\ VoucherRow(i) \in t.held
  BY <1>1, <1>2, LedgerAssumption DEF LedgerInv, TypeOK, Formed, OnVoucher, HeadSet, VoucherIds
<1>4. voucher[i] \in VoucherRecord
  BY <1>3 DEF TypeOK
<1>5. PICK status \in {"POSTED", "REJECTED", "CANCELLED"}, v \in VoucherRecord :
        /\ Rewrite(i, v)
        /\ v.status = status /\ v.move = voucher[i].move /\ v.of = voucher[i].of
        /\ status = "POSTED" => t.op.name = "APPROVE"
  <2>1. CASE t.op.name = "APPROVE"
    <3>1. Rewrite(i, [voucher[i] EXCEPT !.status = "POSTED", !.decided = TRUE])
      BY <1>2, <2>1 DEF Write, Decide, Inserting
    <3>2. QED
      BY <1>4, <2>1, <3>1 DEF VoucherRecord, Statuses
  <2>2. CASE t.op.name = "REJECT"
    <3>1. Rewrite(i, [voucher[i] EXCEPT !.status = "REJECTED", !.decided = TRUE])
      BY <1>2, <2>2 DEF Write, Decide, Inserting
    <3>2. QED
      BY <1>4, <2>2, <3>1 DEF VoucherRecord, Statuses
  <2>3. CASE t.op.name = "CANCEL"
    <3>1. Rewrite(i, [voucher[i] EXCEPT !.status = "CANCELLED"])
      BY <1>2, <2>3 DEF Write, SetVoucherCancelled, Inserting
    <3>2. QED
      BY <1>4, <2>3, <3>1 DEF VoucherRecord, Statuses
  <2>4. QED
    BY <2>1, <2>2, <2>3
<1>6. OnlyRow(i) /\ voucher'[i] = v /\ posted' = posted /\ UNCHANGED today /\ posted <= posted'
  <2>1. OnlyRow(i) /\ voucher'[i] = v /\ posted' = posted
    BY <1>3, <1>5, RowOfRewrite
  <2>2. UNCHANGED today
    BY <1>5 DEF Rewrite
  <2>3. posted <= posted'
    BY <1>3, <2>1 DEF TypeOK
  <2>4. QED
    BY <2>1, <2>2, <2>3
<1>7. VoucherRow(i) \notin H /\ \A l \in LotsNamed(t.op) : LotRow(l) \notin H
  BY <1>1, <1>3 DEF LotSet
<1>8. ASSUME NEW l \in Lots, NEW d \in Days, LotRow(l) \in H
      PROVE  Moved(i, l, d)' >= Moved(i, l, d)
  <2>1. voucher[i].move[l] \in Int
    BY <1>4 DEF VoucherRecord
  <2>2. CASE t.op.name = "APPROVE"
    <3>1. voucher[i].move[l] = 0
      BY <1>2, <1>7, <1>8, <2>2 DEF LotsNamed, Named, Inserting
    <3>2. QED
      BY <1>5, <1>6, <3>1 DEF Moved
  <2>3. CASE t.op.name = "REJECT"
    <3>1. voucher[i].status = "PENDING" /\ v.status # "POSTED"
      BY <1>1, <1>2, <1>5, <2>3 DEF Stands, HeadOk, IsPendingAdjust
    <3>2. QED
      BY <1>5, <1>6, <3>1 DEF Moved
  <2>4. CASE t.op.name = "CANCEL"
    <3>1. v.status # "POSTED"
      BY <1>5, <2>4
    <3>2. voucher[i].status = "POSTED" => voucher[i].move[l] <= 0
      <4>1. CASE voucher[i].kind = "ISSUE"
        BY <1>3, <4>1 DEF LedgerInv, Shape
      <4>2. CASE voucher[i].kind # "ISSUE"
        <5>1. voucher[i].status = "POSTED" => ~(voucher[i].move[l] > 0)
          BY <1>2, <1>7, <1>8, <2>4, <4>2 DEF LotsNamed, Inserting
        <5>2. QED
          BY <2>1, <5>1
      <4>3. QED
        BY <4>1, <4>2
    <3>3. Moved(i, l, d)' = 0
      BY <1>6, <3>1 DEF Moved
    <3>4. QED
      BY <2>1, <3>2, <3>3 DEF Moved
  <2>5. QED
    BY <2>2, <2>3, <2>4
<1>9. ASSUME NEW k \in 1..posted, VoucherRow(k) \in H
      PROVE  /\ i \in PostedReturnsOf(k)' => i \in PostedReturnsOf(k)
             /\ \A l \in Lots : Back(i, k, l)' <= Back(i, k, l)
  <2>1. CASE voucher[i].kind = "RETURN"
    <3>1. v.status # "POSTED"
      BY <1>1, <1>2, <1>5, <2>1 DEF Stands, HeadOk, MayApprove, IsPendingAdjust
    <3>2. i \notin PostedReturnsOf(k)'
      BY <1>6, <3>1 DEF PostedReturnsOf
    <3>3. \A l \in Lots : voucher[i].move[l] >= 0
      BY <1>3, <2>1 DEF LedgerInv, Shape
    <3>4. QED
      BY <3>2, <3>3 DEF Back
  <2>2. CASE voucher[i].kind # "RETURN"
    <3>1. voucher[i].of = 0 /\ v.of = 0
      BY <1>3, <1>5, <2>2 DEF LedgerInv, Shape
    <3>2. k # 0
      BY <1>3 DEF TypeOK
    <3>3. i \notin PostedReturnsOf(k) /\ i \notin PostedReturnsOf(k)'
      BY <1>6, <3>1, <3>2 DEF PostedReturnsOf
    <3>4. QED
      BY <3>3 DEF Back
  <2>3. QED
    BY <2>1, <2>2
<1>10. QED
  BY <1>3, <1>6, <1>7, <1>8, <1>9, RowDisturbs

\* A document cancelled or a receipt rejected writes no voucher.
LEMMA ReceiptDisturbs ==
  ASSUME LedgerInv, NEW t \in Transaction, Sound(t), t.stage = "write",
         t.need = <<>>, t.op.name \in OnDocument \cup {"REJECTION"}, Write(t.op),
         UNCHANGED lastSeq, NEW H, H \cap t.held = {}
  PROVE  Undisturbed(H)
<1>1. /\ t.held = HeadSet(t.op) \cup LotSet(t.op) \cup SeqSet(t.op)
      /\ t.op \in Payload /\ Formed(t.op)
  BY RowsAtCommit
<1>2. TypeOK /\ \A l \in LotsNamed(t.op) : LotRow(l) \notin H
  BY <1>1 DEF LotSet, LedgerInv
<1>3. CASE t.op.name \in OnDocument
  <2>1. PICK m : m = t.op.doc
    OBVIOUS
  <2>2. SetCancelled(m) /\ m \in Docs /\ DocRow(m) \in t.held
    BY <1>1, <1>3, <2>1, LedgerAssumption
       DEF Write, OnDocument, OnVoucher, Inserting, HeadSet, Formed, Mirs
  <2>3. /\ UNCHANGED <<today, lot, voucher, posted>>
        /\ \A k \in Docs : doc'[k].day = doc[k].day /\ (k # m => doc'[k] = doc[k])
    BY <1>2, <2>2 DEF SetCancelled, TypeOK, DocRecord
  <2>4. \A l \in Lots : LotRow(l) \in H => DocOf[l] # m
    BY <1>2, <1>3, <2>1 DEF LotsNamed, LotsOf, OnDocument, Inserting
  <2>5. \A l \in Lots : LotRow(l) \in H => LotIn(l)' = LotIn(l)
    BY <2>3, <2>4, LedgerAssumption DEF LotIn
  <2>6. \A k \in Docs : DocRow(k) \in H => doc'[k] = doc[k]
    BY <2>2, <2>3
  <2>7. today <= today'
    BY <1>2, <2>3 DEF TypeOK, Days
  <2>8. QED
    BY <2>3, <2>5, <2>6, <2>7, SameVouchers DEF Undisturbed
<1>4. CASE t.op.name = "REJECTION"
  <2>1. PICK k : k = t.op.lot
    OBVIOUS
  <2>2. SetRejected(k, t.op.total) /\ k \in Lots /\ LineRow(k) \in t.held /\ LotRow(k) \notin H
    BY <1>1, <1>2, <1>4, <2>1
       DEF Write, OnDocument, OnVoucher, Inserting, HeadSet, LotsNamed, Formed
  <2>3. /\ UNCHANGED <<today, doc, voucher, posted>>
        /\ \A l \in Lots : l # k => lot'[l] = lot[l]
    BY <1>2, <2>2 DEF SetRejected, TypeOK
  <2>4. \A l \in Lots : /\ LineRow(l) \in H => lot'[l] = lot[l]
                        /\ LotRow(l) \in H => lot'[l] = lot[l]
    BY <2>2, <2>3
  <2>5. today <= today'
    BY <1>2, <2>3 DEF TypeOK, Days
  <2>6. QED
    BY <2>3, <2>4, <2>5, SameVouchers DEF Undisturbed, LotIn
<1>5. QED
  BY <1>3, <1>4

LEMMA ArrivalDisturbs ==
  ASSUME LedgerInv, NEW m \in Docs, NEW day \in Days, NEW rows \in [LotsOf(m) -> LotRecord],
         ReceiveMir(m, day, rows), UNCHANGED lastSeq, NEW H
  PROVE  Undisturbed(H)
<1>1. TypeOK /\ doc[m].status = "NONE" /\ UNCHANGED <<today, voucher, posted>>
  BY DEF LedgerInv, ReceiveMir
<1>2. \A k \in Docs : k # m => doc'[k] = doc[k]
  BY <1>1 DEF ReceiveMir, TypeOK
<1>3. \A l \in Lots : DocOf[l] # m => lot'[l] = lot[l]
  BY DEF ReceiveMir, LotsOf
<1>4. \A l \in Lots : DocOf[l] # m => LotIn(l)' = LotIn(l)
  BY <1>2, <1>3, LedgerAssumption DEF LotIn
<1>5. today <= today'
  BY <1>1 DEF TypeOK, Days
<1>6. QED
  BY <1>1, <1>2, <1>3, <1>4, <1>5, SameVouchers DEF Undisturbed

\* Every commit that writes is one operation of StockLedger.
LEMMA CommitIsStep ==
  ASSUME LedgerInv, NEW t \in Transaction, Sound(t), t.stage = "write",
         t.need = <<>>, Write(t.op)
  PROVE  Next
<1> DEFINE op == t.op
<1>1. op \in Payload /\ Formed(op) /\ Stands(op) /\ LotsFine(op)
  BY RowsAtCommit
<1> HIDE DEF op
<1>2. Write(op)
  BY DEF op
<1>3. op.name \in OpNames \ {"NONE"} /\ op.now \in Int /\ op.day \in Days /\ today \in Days
  BY <1>1 DEF Payload, Formed, LedgerInv, TypeOK, Days
<1>4. op.name \in Inserting => op.day \in EntryDays
  <2> SUFFICES ASSUME op.name \in Inserting PROVE op.day \in EntryDays
    OBVIOUS
  <2>1. /\ op.day <= op.now /\ op.day >= op.now - BackDays
        /\ op.now <= today /\ today <= op.now + Straddle
    BY <1>1 DEF Formed
  <2>2. op.day \in Int /\ op.now \in Int /\ today \in Int /\ BackDays \in Int /\ Straddle \in Int
    BY <1>3, LedgerAssumption DEF Days
  <2>3. op.day <= today /\ op.day >= today - BackDays - Straddle
    BY <2>1, <2>2
  <2>4. QED
    BY <1>3, <2>3 DEF EntryDays
<1>5. op.name \in OnVoucher => op.of \in VoucherIds
  BY <1>1, LedgerAssumption DEF Formed, LedgerInv, TypeOK, VoucherIds
<1>6. CASE op.name = "ISSUE"
  <2>1. PostIssue(op.day, op.move)
    BY <1>1, <1>2, <1>6 DEF PostIssue, LotsFine, LotsOk, Write, NewRow, Inserting
  <2>2. op.move \in Lines(-MaxQty..0)
    BY <1>1, <1>6 DEF Formed
  <2>3. QED
    BY <1>4, <1>6, <2>1, <2>2 DEF Next, Inserting
<1>7. CASE op.name = "RETURN"
  <2>1. IssueStands(op.of, op.day) /\ \A l \in Lots : CanComeBack(op.of, l, op.move[l])
    BY <1>1, <1>7 DEF Stands, HeadOk, LotsFine
  <2>2. PostReturn(op.day, op.of, op.move)
    BY <1>2, <1>7, <2>1 DEF PostReturn, ReturnOk, Write, NewRow, Inserting
  <2>3. op.move \in Lines(0..MaxQty)
    BY <1>1, <1>7 DEF Formed
  <2>4. QED
    BY <1>4, <1>5, <1>7, <2>2, <2>3 DEF Next, Inserting, OnVoucher
<1>8. CASE op.name = "ADJUST"
  <2>1. PostAdjust(op.by, op.day, op.move)
    BY <1>1, <1>2, <1>8 DEF PostAdjust, LotsFine, LotsOk, Write, NewRow, Inserting
  <2>2. op.move \in Lines(-MaxQty..MaxQty) /\ op.by \in Users
    BY <1>1, <1>8 DEF Formed
  <2>3. QED
    BY <1>4, <1>8, <2>1, <2>2 DEF Next, Inserting
<1>9. CASE op.name = "APPROVE"
  <2>1. Approve(op.by, op.of)
    BY <1>1, <1>2, <1>9 DEF Approve, Stands, HeadOk, LotsFine, LotsOk, Write, Inserting
  <2>2. op.by \in Users
    BY <1>1, <1>9, LedgerAssumption DEF Formed
  <2>3. QED
    BY <1>5, <1>9, <2>1, <2>2 DEF Next, OnVoucher
<1>10. CASE op.name = "REJECT"
  <2>1. Reject(op.by, op.of)
    BY <1>1, <1>2, <1>10 DEF Reject, Stands, HeadOk, Write, Inserting
  <2>2. op.by \in Users
    BY <1>1, <1>10, LedgerAssumption DEF Formed
  <2>3. QED
    BY <1>5, <1>10, <2>1, <2>2 DEF Next, OnVoucher
<1>11. CASE op.name = "CANCEL"
  <2>1. CancelVoucher(op.of)
    BY <1>1, <1>2, <1>11 DEF CancelVoucher, Stands, HeadOk, LotsFine, LotsOk, Write, Inserting
  <2>2. QED
    BY <1>5, <1>11, <2>1 DEF Next, OnVoucher
<1>12. CASE op.name = "CANCEL_MIR"
  <2>1. CancelMir(op.doc) /\ op.doc \in Docs
    BY <1>1, <1>2, <1>12
       DEF CancelMir, CanCancelMir, Stands, HeadOk, LotsFine, LotsOk, Write, Inserting, Formed, Mirs
  <2>2. QED
    BY <2>1 DEF Next
<1>13. CASE op.name = "CANCEL_OPENING"
  <2>1. CancelOpening(op.doc) /\ op.doc \in Docs
    BY <1>1, <1>2, <1>13, LedgerAssumption
       DEF CancelOpening, CanCancelOpening, Stands, HeadOk, LotsFine, LotsOk, Write, Inserting, Formed
  <2>2. QED
    BY <2>1 DEF Next
<1>14. CASE op.name = "REJECTION"
  <2>1. op.lot \in Lots /\ DocOf[op.lot] \in Mirs /\ op.total >= 1 /\ op.total \in 0..MaxQty+1
    BY <1>1, <1>14 DEF Formed, Payload
  <2>2. op.total \in 1..MaxQty+1
    BY <2>1, LedgerAssumption
  <2>3. today <= doc[DocOf[op.lot]].day + RejectDays + Straddle
    <3>1. op.now <= doc[DocOf[op.lot]].day + RejectDays /\ today <= op.now + Straddle
      BY <1>1, <1>14 DEF Stands, Formed
    <3>2. doc[DocOf[op.lot]].day \in Int /\ today \in Int /\ RejectDays \in Int /\ Straddle \in Int
      BY <1>3, <2>1, LedgerAssumption DEF LedgerInv, TypeOK, DocRecord, Days
    <3>3. QED
      BY <1>3, <3>1, <3>2
  <2>4. RejectionInRange(op.lot, op.total)
    BY <1>1, <1>14, <2>1, <2>3 DEF RejectionInRange, Stands
  <2>5. RecordRejection(op.lot, op.total)
    BY <1>1, <1>2, <1>14, <2>4 DEF RecordRejection, LotsFine, LotsOk, Write, Inserting
  <2>6. QED
    BY <2>1, <2>2, <2>5 DEF Next
<1>15. QED
  BY <1>3, <1>6, <1>7, <1>8, <1>9, <1>10, <1>11, <1>12, <1>13, <1>14
     DEF OpNames, Inserting, OnVoucher, OnDocument

-----------------------------------------------------------------------------
(* The numbering. *)

RowsOf(kind) == {i \in 1..posted : voucher[i].kind = kind}

LEMMA NumberedSame ==
  ASSUME NumberedWithoutGaps, UNCHANGED <<posted, lastSeq, number>>,
         \A i \in 1..posted : voucher'[i].kind = voucher[i].kind
  PROVE  NumberedWithoutGaps'
<1>1. \A kind : RowsOf(kind)' = RowsOf(kind)
  BY DEF RowsOf
<1>2. \A kind \in Kinds : /\ {number[i] : i \in RowsOf(kind)} = 1..Cardinality(RowsOf(kind))
                          /\ lastSeq[kind] = Cardinality(RowsOf(kind))
  BY DEF NumberedWithoutGaps, RowsOf
<1>3. \A kind \in Kinds : /\ {number'[i] : i \in RowsOf(kind)'} = 1..Cardinality(RowsOf(kind)')
                          /\ lastSeq'[kind] = Cardinality(RowsOf(kind)')
  BY <1>1, <1>2
<1>4. QED
  BY <1>3 DEF NumberedWithoutGaps, RowsOf

LEMMA KindsKept ==
  ASSUME LedgerInv, NEW op \in Payload, Formed(op), op.name \notin Inserting, Write(op)
  PROVE  posted' = posted /\ \A i \in 1..posted : voucher'[i].kind = voucher[i].kind
<1>1. TypeOK /\ \A i \in 1..posted : i \in VoucherIds /\ voucher[i] \in VoucherRecord
  BY LedgerAssumption DEF LedgerInv, TypeOK, VoucherIds
<1>2. ASSUME NEW i \in 1..posted, NEW v, v.kind = voucher[i].kind, Rewrite(i, v)
      PROVE  posted' = posted /\ \A k \in 1..posted : voucher'[k].kind = voucher[k].kind
  BY <1>1, <1>2 DEF Rewrite, TypeOK
<1>3. CASE op.name \in {"APPROVE", "REJECT"}
  <2>1. op.of \in 1..posted
    BY <1>3 DEF Formed, OnVoucher
  <2>2. PICK status : Rewrite(op.of, [voucher[op.of] EXCEPT !.status = status, !.decided = TRUE])
    BY <1>3 DEF Write, Decide, Inserting
  <2>3. [voucher[op.of] EXCEPT !.status = status, !.decided = TRUE].kind = voucher[op.of].kind
    BY <1>1, <2>1 DEF VoucherRecord
  <2>4. QED
    BY <1>2, <2>1, <2>2, <2>3
<1>4. CASE op.name = "CANCEL"
  <2>1. op.of \in 1..posted
    BY <1>4 DEF Formed, OnVoucher
  <2>2. Rewrite(op.of, [voucher[op.of] EXCEPT !.status = "CANCELLED"])
    BY <1>4 DEF Write, SetVoucherCancelled, Inserting
  <2>3. [voucher[op.of] EXCEPT !.status = "CANCELLED"].kind = voucher[op.of].kind
    BY <1>1, <2>1 DEF VoucherRecord
  <2>4. QED
    BY <1>2, <2>1, <2>2, <2>3
<1>5. CASE op.name \in OnDocument \cup {"REJECTION"}
  BY <1>5 DEF Write, SetCancelled, SetRejected, OnDocument, Inserting
<1>6. QED
  BY <1>3, <1>4, <1>5 DEF Payload, OpNames, Formed, OnVoucher, Inserting

\* The next number of a kind, taken under the sequence's lock.
LEMMA NumberedInsert ==
  ASSUME LedgerInv, TxnTypeOK, NumberedWithoutGaps, NEW v \in VoucherRecord, Insert(v),
         NEW name \in Kinds, v.kind = name,
         lastSeq' = [lastSeq EXCEPT ![name] = lastSeq[name] + 1],
         number' = [number EXCEPT ![posted + 1] = lastSeq[name] + 1]
  PROVE  NumberedWithoutGaps'
<1>1. PICK n : n = posted + 1
  OBVIOUS
<1>2. /\ n \in VoucherIds /\ OnlyRow(n) /\ voucher'[n] = v /\ posted' = n
      /\ TypeOK /\ posted \in Nat
  BY <1>1, RowOfInsert DEF LedgerInv, TypeOK
<1>3. \A i \in 1..posted : i # n /\ i \in VoucherIds /\ voucher'[i] = voucher[i] /\ number'[i] = number[i]
  BY <1>1, <1>2, LedgerAssumption DEF OnlyRow, TypeOK, VoucherIds, TxnTypeOK
<1>4. \A i : i \in 1..posted' <=> i \in 1..posted \/ i = n
  BY <1>1, <1>2
<1>5. \A kind \in Kinds : /\ IsFiniteSet(RowsOf(kind)) /\ n \notin RowsOf(kind)
                          /\ RowsOf(kind)' = IF kind = name THEN RowsOf(kind) \cup {n} ELSE RowsOf(kind)
  <2> SUFFICES ASSUME NEW kind \in Kinds
               PROVE  /\ IsFiniteSet(RowsOf(kind)) /\ n \notin RowsOf(kind)
                      /\ RowsOf(kind)' = IF kind = name THEN RowsOf(kind) \cup {n} ELSE RowsOf(kind)
    OBVIOUS
  <2>1. IsFiniteSet(1..posted) /\ RowsOf(kind) \in SUBSET (1..posted)
    BY <1>2, FS_Interval DEF RowsOf
  <2>2. RowsOf(kind)' = IF kind = name THEN RowsOf(kind) \cup {n} ELSE RowsOf(kind)
    BY <1>2, <1>3, <1>4 DEF RowsOf
  <2>3. QED
    BY <1>3, <2>1, <2>2, FS_Subset
<1>6. \A kind \in Kinds : /\ {number[i] : i \in RowsOf(kind)} = 1..Cardinality(RowsOf(kind))
                          /\ lastSeq[kind] = Cardinality(RowsOf(kind))
                          /\ Cardinality(RowsOf(kind)) \in Nat
  BY <1>5, FS_CardinalityType DEF NumberedWithoutGaps, RowsOf
<1>7. number'[n] = lastSeq[name] + 1
  BY <1>1, <1>2 DEF TxnTypeOK
<1>8. ASSUME NEW kind \in Kinds
      PROVE  /\ {number'[i] : i \in RowsOf(kind)'} = 1..Cardinality(RowsOf(kind)')
             /\ lastSeq'[kind] = Cardinality(RowsOf(kind)')
  <2>1. {number'[i] : i \in RowsOf(kind)} = {number[i] : i \in RowsOf(kind)}
    BY <1>3 DEF RowsOf
  <2>2. CASE kind = name
    <3>1. Cardinality(RowsOf(kind)') = Cardinality(RowsOf(kind)) + 1
      BY <1>5, <2>2, FS_AddElement
    <3>2. {number'[i] : i \in RowsOf(kind)'} = {number'[i] : i \in RowsOf(kind)} \cup {number'[n]}
      BY <1>5, <2>2
    <3>3. {number'[i] : i \in RowsOf(kind)'}
            = 1..Cardinality(RowsOf(kind)) \cup {Cardinality(RowsOf(kind)) + 1}
      BY <1>6, <1>7, <2>1, <2>2, <3>2
    <3>4. \A c \in Nat : 1..c \cup {c + 1} = 1..(c + 1)
      OBVIOUS
    <3>5. lastSeq'[kind] = lastSeq[kind] + 1
      BY <2>2 DEF TxnTypeOK
    <3>6. QED
      BY <1>6, <3>1, <3>3, <3>4, <3>5
  <2>3. CASE kind # name
    <3>1. RowsOf(kind)' = RowsOf(kind) /\ lastSeq'[kind] = lastSeq[kind]
      BY <1>5, <2>3 DEF TxnTypeOK
    <3>2. QED
      BY <1>6, <2>1, <3>1
  <2>4. QED
    BY <2>2, <2>3
<1>9. QED
  BY <1>8 DEF NumberedWithoutGaps, RowsOf

-----------------------------------------------------------------------------
(* The steps. *)

\* A request that goes on, having locked at most rows nobody else holds.
LEMMA OwnStep ==
  ASSUME TxnInv, NEW r \in Reqs, NEW u \in Transaction, Sound(u),
         txn' = [txn EXCEPT ![r] = u], UNCHANGED <<vars, lastSeq, number>>,
         \A s \in Reqs : s # r => u.held \cap txn[s].held = {}
  PROVE  TxnInv'
<1>1. LedgerInv /\ LedgerInv' /\ TxnTypeOK /\ UNCHANGED vars
  <2>1. LedgerInv /\ [Next]_vars
    BY DEF TxnInv
  <2>2. QED
    BY <2>1, InvNext DEF TxnInv
<1>2. txn'[r] = u /\ \A s \in Reqs : s # r => txn'[s] = txn[s]
  BY <1>1 DEF TxnTypeOK
<1>3. TxnTypeOK'
  BY <1>1 DEF TxnTypeOK
<1>4. Exclusive'
  BY <1>2 DEF Exclusive, TxnInv
<1>5. NumberedWithoutGaps'
  BY <1>1, NumberedSame DEF vars, TxnInv
<1>6. ASSUME NEW s \in Reqs
      PROVE  Sound(txn[s])'
  <2>1. PICK t : t = txn'[s]
    OBVIOUS
  <2>2. t \in Transaction /\ Sound(t)
    BY <1>1, <1>2, <2>1 DEF TxnInv, TxnTypeOK
  <2>3. Undisturbed(t.held)
    BY <1>1, NothingDisturbs
  <2>4. t.stage # "idle" => today' <= t.op.now + Straddle
    BY <1>1, <2>2 DEF Sound, Formed, vars
  <2>5. Sound(t)'
    BY <1>1, <2>2, <2>3, <2>4, SoundLasts
  <2>6. QED
    BY <2>1, <2>5
<1>7. QED
  BY <1>1, <1>3, <1>4, <1>5, <1>6 DEF TxnInv

LEMMA RollbackStep ==
  ASSUME TxnInv, NEW r \in Reqs, Rollback(r)
  PROVE  TxnInv'
<1>1. Idle \in Transaction /\ Sound(Idle) /\ Idle.held = {}
  BY NoOpType DEF Sound, Idle
<1>2. txn' = [txn EXCEPT ![r] = Idle] /\ UNCHANGED <<vars, lastSeq, number>>
  BY DEF Rollback
<1>3. QED
  BY <1>1, <1>2, OwnStep

LEMMA StartStep ==
  ASSUME TxnInv, NEW r \in Reqs, NEW op \in Asked, Start(r, op)
  PROVE  TxnInv'
<1>1. PICK u : u = [Idle EXCEPT !.stage = "head", !.op = op, !.need = HeadRows(op)]
  OBVIOUS
<1>2. u \in Transaction /\ Sound(u) /\ u.held = {}
  BY <1>1, StartSound DEF TxnInv
<1>3. txn' = [txn EXCEPT ![r] = u] /\ UNCHANGED <<vars, lastSeq, number>>
  BY <1>1 DEF Start
<1>4. QED
  BY <1>2, <1>3, OwnStep

LEMMA AcquireStep ==
  ASSUME TxnInv, NEW r \in Reqs, Acquire(r)
  PROVE  TxnInv'
<1>1. PICK t, u : t = txn[r] /\ u = Taken(txn[r])
  OBVIOUS
<1>2. /\ t \in Transaction /\ Sound(t) /\ t.need # <<>> /\ LedgerInv /\ TxnTypeOK
      /\ u = Taken(t)
  BY <1>1 DEF TxnInv, TxnTypeOK, Acquire
<1>3. u \in Transaction /\ Sound(u) /\ u.held = t.held \cup {Head(t.need)}
  BY <1>2, AcquireSound
<1>4. txn' = [txn EXCEPT ![r] = u] /\ UNCHANGED <<vars, lastSeq, number>>
  BY <1>1, <1>2 DEF Acquire, Taken, TxnTypeOK
<1>5. \A s \in Reqs : s # r => u.held \cap txn[s].held = {}
  BY <1>1, <1>3 DEF Acquire, HeldByOther, TxnInv, Exclusive
<1>6. QED
  BY <1>3, <1>4, <1>5, OwnStep

LEMMA CheckHeadStep ==
  ASSUME TxnInv, NEW r \in Reqs, CheckHead(r)
  PROVE  TxnInv'
<1>1. PICK t, u : t = txn[r] /\ u = [t EXCEPT !.stage = "lots", !.need = LotRows(LotsToLock(t.op))]
  OBVIOUS
<1>2. /\ t \in Transaction /\ Sound(t) /\ LedgerInv /\ TxnTypeOK
      /\ t.stage = "head" /\ t.need = <<>>
  BY <1>1 DEF TxnInv, TxnTypeOK, CheckHead
<1>3. CASE HeadOk(t.op)
  <2>1. u \in Transaction /\ Sound(u) /\ u.held = t.held
    BY <1>1, <1>2, <1>3, CheckHeadSound
  <2>2. txn' = [txn EXCEPT ![r] = u] /\ UNCHANGED <<vars, lastSeq, number>>
    BY <1>1, <1>2, <1>3 DEF CheckHead, Advance, TxnTypeOK
  <2>3. \A s \in Reqs : s # r => u.held \cap txn[s].held = {}
    BY <1>1, <2>1 DEF TxnInv, Exclusive
  <2>4. QED
    BY <2>1, <2>2, <2>3, OwnStep
<1>4. CASE ~HeadOk(t.op)
  BY <1>1, <1>4, RollbackStep DEF CheckHead
<1>5. QED
  BY <1>3, <1>4

LEMMA CheckLotsStep ==
  ASSUME TxnInv, NEW r \in Reqs, CheckLots(r)
  PROVE  TxnInv'
<1>1. PICK t, u : t = txn[r] /\ u = [t EXCEPT !.stage = "write", !.need = SeqRows(t.op)]
  OBVIOUS
<1>2. /\ t \in Transaction /\ Sound(t) /\ LedgerInv /\ TxnTypeOK
      /\ t.stage = "lots" /\ t.need = <<>>
  BY <1>1 DEF TxnInv, TxnTypeOK, CheckLots
<1>3. CASE t.ok /\ LotsOk(t.op)
  <2>1. u \in Transaction /\ Sound(u) /\ u.held = t.held
    BY <1>1, <1>2, <1>3, CheckLotsSound
  <2>2. txn' = [txn EXCEPT ![r] = u] /\ UNCHANGED <<vars, lastSeq, number>>
    BY <1>1, <1>2, <1>3 DEF CheckLots, Advance, TxnTypeOK
  <2>3. \A s \in Reqs : s # r => u.held \cap txn[s].held = {}
    BY <1>1, <2>1 DEF TxnInv, Exclusive
  <2>4. QED
    BY <2>1, <2>2, <2>3, OwnStep
<1>4. CASE ~(t.ok /\ LotsOk(t.op))
  BY <1>1, <1>4, RollbackStep DEF CheckLots
<1>5. QED
  BY <1>3, <1>4

\* The requests that go on by themselves are as sound as before.
LEMMA OthersSound ==
  ASSUME TxnInv, LedgerInv', NEW s \in Reqs, txn'[s] = txn[s], Undisturbed(txn[s].held),
         txn[s].stage # "idle" => today' <= txn[s].op.now + Straddle
  PROVE  Sound(txn[s])'
<1>1. PICK t : t = txn[s]
  OBVIOUS
<1>2. t \in Transaction /\ Sound(t) /\ LedgerInv
  BY <1>1 DEF TxnInv, TxnTypeOK
<1>3. Sound(t)'
  BY <1>1, <1>2, SoundLasts
<1>4. QED
  BY <1>1, <1>3

LEMMA CommitStep ==
  ASSUME TxnInv, NEW r \in Reqs, Commit(r)
  PROVE  TxnInv' /\ [Next]_vars
<1>1. PICK t : t = txn[r]
  OBVIOUS
<1>2. /\ t \in Transaction /\ Sound(t) /\ LedgerInv /\ TxnTypeOK /\ TypeOK
      /\ t.stage = "write" /\ t.need = <<>>
  BY <1>1 DEF TxnInv, TxnTypeOK, Commit, LedgerInv
<1>3. CASE ~Accepted(t.op)
  <2>1. Rollback(r)
    BY <1>1, <1>3 DEF Commit
  <2>2. QED
    BY <2>1, RollbackStep DEF Rollback
<1>4. CASE Accepted(t.op)
  <2>1. /\ Write(t.op) /\ txn' = [txn EXCEPT ![r] = Idle]
        /\ IF t.op.name \in Inserting
           THEN /\ lastSeq' = [lastSeq EXCEPT ![t.op.name] = t.seq + 1]
                /\ number' = [number EXCEPT ![posted + 1] = t.seq + 1]
           ELSE UNCHANGED <<lastSeq, number>>
    BY <1>1, <1>4 DEF Commit
  <2>2. Next
    BY <1>2, <2>1, CommitIsStep
  <2>3. LedgerInv'
    BY <1>2, <2>2, InvNext
  <2>4. /\ t.op \in Payload /\ Formed(t.op) /\ Stands(t.op)
        /\ t.op.name \in Inserting => t.seq = lastSeq[t.op.name]
    BY <1>2, RowsAtCommit
  <2>5. txn'[r] = Idle /\ \A s \in Reqs : s # r => txn'[s] = txn[s]
    BY <1>2, <2>1 DEF TxnTypeOK
  <2>6. TxnTypeOK'
    <3>1. txn' \in [Reqs -> Transaction]
      BY <1>2, <2>1, NoOpType DEF TxnTypeOK
    <3>2. t.seq + 1 \in Nat
      BY <1>2 DEF Transaction
    <3>3. lastSeq' \in [Kinds -> Nat] /\ number' \in [VoucherIds -> Nat]
      BY <1>2, <2>1, <3>2 DEF TxnTypeOK
    <3>4. QED
      BY <3>1, <3>3 DEF TxnTypeOK
  <2>7. Exclusive'
    <3>1. Idle.held = {}
      BY DEF Idle
    <3>2. QED
      BY <2>5, <3>1 DEF TxnInv, Exclusive
  <2>8. UNCHANGED today
    BY <2>1, <2>4 DEF Write, Insert, Decide, SetVoucherCancelled, Rewrite, SetCancelled, SetRejected,
                      Payload, OpNames, OnVoucher, OnDocument, Inserting, Formed
  <2>9. ASSUME NEW s \in Reqs
        PROVE  Sound(txn[s])'
    <3>1. CASE s = r
      BY <2>5, <3>1 DEF Sound, Idle
    <3>2. CASE s # r
      <4>1. PICK H : H = txn[s].held
        OBVIOUS
      <4>2. H \cap t.held = {}
        BY <1>1, <3>2, <4>1 DEF TxnInv, Exclusive
      <4>3. CASE t.op.name \in Inserting
        <5>1. \A kind \in Kinds : kind # t.op.name => lastSeq'[kind] = lastSeq[kind]
          BY <1>2, <2>1, <4>3 DEF TxnTypeOK
        <5>2. QED
          BY <1>2, <2>1, <2>3, <2>5, <2>8, <3>2, <4>1, <4>2, <4>3, <5>1, InsertDisturbs,
             OthersSound DEF TxnInv, Sound, Formed
      <4>4. CASE t.op.name \in {"APPROVE", "REJECT", "CANCEL"}
        BY <1>2, <2>1, <2>3, <2>5, <2>8, <3>2, <4>1, <4>2, <4>4, DecisionDisturbs,
           OthersSound DEF TxnInv, Sound, Formed, Inserting
      <4>5. CASE t.op.name \in OnDocument \cup {"REJECTION"}
        BY <1>2, <2>1, <2>3, <2>5, <2>8, <3>2, <4>1, <4>2, <4>5, ReceiptDisturbs,
           OthersSound DEF TxnInv, Sound, Formed, Inserting, OnDocument
      <4>6. QED
        BY <2>4, <4>3, <4>4, <4>5 DEF Payload, OpNames, OnVoucher, Inserting, Formed
    <3>3. QED
      BY <3>1, <3>2
  <2>10. NumberedWithoutGaps'
    <3>1. CASE t.op.name \in Inserting
      <4> DEFINE v == NewRow(t.op)
      <4>1. v \in VoucherRecord /\ v.kind = t.op.name
        BY <2>4, <3>1, NewRowType
      <4>2. Insert(v) /\ t.op.name \in Kinds
        BY <2>1, <3>1 DEF Write, Inserting, Kinds
      <4>3. /\ lastSeq' = [lastSeq EXCEPT ![t.op.name] = lastSeq[t.op.name] + 1]
            /\ number' = [number EXCEPT ![posted + 1] = lastSeq[t.op.name] + 1]
        BY <2>1, <2>4, <3>1
      <4> HIDE DEF v
      <4>4. NumberedWithoutGaps
        BY DEF TxnInv
      <4>5. QED
        BY <1>2, <4>1, <4>2, <4>3, <4>4, NumberedInsert
    <3>2. CASE t.op.name \notin Inserting
      <4>1. posted' = posted /\ \A i \in 1..posted : voucher'[i].kind = voucher[i].kind
        BY <1>2, <2>1, <2>4, <3>2, KindsKept
      <4>2. UNCHANGED <<lastSeq, number>> /\ NumberedWithoutGaps
        BY <2>1, <3>2 DEF TxnInv
      <4>3. QED
        BY <4>1, <4>2, NumberedSame
    <3>3. QED
      BY <3>1, <3>2
  <2>11. QED
    BY <2>2, <2>3, <2>6, <2>7, <2>9, <2>10 DEF TxnInv
<1>5. QED
  BY <1>3, <1>4

LEMMA TxnInvInit == TxnInit => TxnInv
<1> SUFFICES ASSUME TxnInit PROVE TxnInv
  OBVIOUS
<1>1. LedgerInv /\ posted = 0
  BY InvInit DEF TxnInit, Init
<1>2. TxnTypeOK
  BY NoOpType DEF TxnInit, TxnTypeOK
<1>3. Exclusive /\ \A r \in Reqs : Sound(txn[r])
  BY DEF TxnInit, Exclusive, Sound, Idle
<1>4. NumberedWithoutGaps
  <2> SUFFICES ASSUME NEW kind \in Kinds
               PROVE  /\ {number[i] : i \in RowsOf(kind)} = 1..Cardinality(RowsOf(kind))
                      /\ lastSeq[kind] = Cardinality(RowsOf(kind))
    BY DEF NumberedWithoutGaps, RowsOf
  <2>1. RowsOf(kind) = {} /\ lastSeq[kind] = 0
    BY <1>1 DEF RowsOf, TxnInit
  <2>2. Cardinality(RowsOf(kind)) = 0
    BY <2>1, FS_EmptySet
  <2>3. QED
    BY <2>1, <2>2
<1>5. QED
  BY <1>1, <1>2, <1>3, <1>4 DEF TxnInv

\* A midnight or an arriving MIR, while requests are in flight.
LEMMA AroundThem ==
  ASSUME TxnInv, Next, UNCHANGED <<txnVars, voucher, posted>>, \A H : Undisturbed(H),
         \A r \in InFlight : today' <= txn[r].op.now + Straddle
  PROVE  TxnInv'
<1>1. LedgerInv'
  BY InvNext DEF TxnInv
<1>2. TxnTypeOK' /\ Exclusive'
  BY DEF TxnInv, TxnTypeOK, Exclusive, txnVars
<1>3. NumberedWithoutGaps'
  BY NumberedSame DEF TxnInv, txnVars
<1>4. ASSUME NEW s \in Reqs
      PROVE  Sound(txn[s])'
  BY <1>1, OthersSound DEF txnVars, InFlight
<1>5. QED
  BY <1>1, <1>2, <1>3, <1>4 DEF TxnInv

LEMMA TxnInvNext == TxnInv /\ [TxnNext]_allVars => TxnInv' /\ [Next]_vars
<1> SUFFICES ASSUME TxnInv, [TxnNext]_allVars PROVE TxnInv' /\ [Next]_vars
  OBVIOUS
<1>0. LedgerInv /\ TypeOK /\ today \in Int
  BY DEF TxnInv, LedgerInv, TypeOK, Days
<1>1. CASE UNCHANGED allVars
  <2>1. UNCHANGED vars /\ UNCHANGED txnVars
    BY <1>1 DEF allVars, vars, txnVars
  <2>2. CASE Reqs = {}
    <3>1. LedgerInv'
      BY <1>0, <2>1, InvNext
    <3>2. NumberedWithoutGaps'
      BY <2>1, NumberedSame DEF TxnInv, vars, txnVars
    <3>3. QED
      BY <2>1, <2>2, <3>1, <3>2 DEF TxnInv, TxnTypeOK, Exclusive, txnVars
  <2>3. CASE Reqs # {}
    <3>1. PICK r \in Reqs : TRUE
      BY <2>3
    <3>2. PICK u : u = txn[r]
      OBVIOUS
    <3>3. u \in Transaction /\ Sound(u) /\ txn' = [txn EXCEPT ![r] = u]
      BY <2>1, <3>2 DEF TxnInv, TxnTypeOK, txnVars
    <3>4. \A s \in Reqs : s # r => u.held \cap txn[s].held = {}
      BY <3>2 DEF TxnInv, Exclusive
    <3>5. QED
      BY <2>1, <3>3, <3>4, OwnStep DEF txnVars
  <2>4. QED
    BY <2>2, <2>3
<1>2. CASE TxnTick
  <2>1. Tick /\ Next /\ UNCHANGED txnVars
    BY <1>2 DEF TxnTick, Next
  <2>2. \A H : Undisturbed(H)
    BY <1>0, <2>1, NothingDisturbs DEF txnVars
  <2>3. ASSUME NEW r \in InFlight
        PROVE  today' <= txn[r].op.now + Straddle
    <3>1. today - txn[r].op.now < Straddle /\ today' = today + 1
      BY <1>2 DEF TxnTick, Tick
    <3>2. txn[r].op.now \in Int
      BY DEF InFlight, TxnInv, TxnTypeOK, Transaction, Payload, Days
    <3>3. QED
      BY <1>0, <3>1, <3>2, LedgerAssumption
  <2>4. UNCHANGED <<voucher, posted>>
    BY <2>1 DEF Tick
  <2>5. QED
    BY <2>1, <2>2, <2>3, <2>4, AroundThem
<1>3. CASE TxnReceiveMir
  <2>1. PICK m \in Docs, day \in Days : \E rows \in [LotsOf(m) -> LotRecord] : ReceiveMir(m, day, rows)
    BY <1>3 DEF TxnReceiveMir
  <2>2. PICK rows \in [LotsOf(m) -> LotRecord] : ReceiveMir(m, day, rows)
    BY <2>1
  <2>3. Next /\ UNCHANGED txnVars /\ UNCHANGED <<voucher, posted, today>>
    BY <1>3, <2>2 DEF TxnReceiveMir, Next, ReceiveMir
  <2>4. \A H : Undisturbed(H)
    BY <1>0, <2>2, <2>3, ArrivalDisturbs DEF txnVars
  <2>5. \A r \in InFlight : today' <= txn[r].op.now + Straddle
    BY <2>3 DEF InFlight, TxnInv, Sound, Formed
  <2>6. QED
    BY <2>3, <2>4, <2>5, AroundThem
<1>4. ASSUME NEW r \in Reqs, NEW op \in Asked, Start(r, op)
      PROVE  TxnInv' /\ [Next]_vars
  BY <1>4, StartStep DEF Start
<1>5. ASSUME NEW r \in Reqs, Run(r)
      PROVE  TxnInv' /\ [Next]_vars
  <2>1. CASE Acquire(r)
    BY <2>1, AcquireStep DEF Acquire
  <2>2. CASE CheckHead(r)
    BY <2>2, CheckHeadStep DEF CheckHead, Advance, Rollback
  <2>3. CASE CheckLots(r)
    BY <2>3, CheckLotsStep DEF CheckLots, Advance, Rollback
  <2>4. CASE Commit(r)
    BY <2>4, CommitStep
  <2>5. CASE DeadlockAbort(r)
    BY <2>5, RollbackStep DEF DeadlockAbort, Rollback
  <2>6. QED
    BY <1>5, <2>1, <2>2, <2>3, <2>4, <2>5 DEF Run
<1>6. QED
  BY <1>1, <1>2, <1>3, <1>4, <1>5 DEF TxnNext, Requests

-----------------------------------------------------------------------------
(* The theorems. *)

\* The inductive invariant: the books, the locks, and what each request knows.
THEOREM TransactionsSound == TxnSpec => []TxnInv
<1>1. QED
  BY TxnInvInit, TxnInvNext, PTL DEF TxnSpec

\* Concurrent postings implement one-at-a-time postings: every commit is an
\* operation of StockLedger, checked and written as if at that moment.
THEOREM CommitsRefine == TxnSpec => CommitsAreSteps
<1>1. TxnInit => Init
  BY DEF TxnInit
<1>2. QED
  BY <1>1, TxnInvInit, TxnInvNext, PTL DEF TxnSpec, CommitsAreSteps, Spec

\* So no receipt is ever short on any day in the concurrent system either.
THEOREM NeverNegativeConcurrently == TxnSpec => []NoNegativeDay
<1>1. TxnInv => NoNegativeDay
  BY DEF TxnInv, LedgerInv
<1>2. QED
  BY <1>1, TransactionsSound, PTL

\* Vouchers are numbered without gap or repetition.
THEOREM NumberedInOrder == TxnSpec => []NumberedWithoutGaps
<1>1. TxnInv => NumberedWithoutGaps
  BY DEF TxnInv
<1>2. QED
  BY <1>1, TransactionsSound, PTL

\* One step's decisions, as in DecidedOnce.
DecidesOnce ==
  \A i \in 1..posted :
    voucher'[i].status # voucher[i].status =>
      <<voucher[i].status, voucher'[i].status>> \in
        {<<"PENDING", "POSTED">>, <<"PENDING", "REJECTED">>,
         <<"PENDING", "CANCELLED">>, <<"POSTED", "CANCELLED">>}

LEMMA StepDecidesOnce ==
  ASSUME LedgerInv, [Next]_vars
  PROVE  DecidesOnce
<1>1. TypeOK /\ \A i \in 1..posted : i \in VoucherIds
  BY LedgerAssumption DEF LedgerInv, TypeOK, VoucherIds
<1>2. CASE UNCHANGED voucher
  BY <1>2 DEF DecidesOnce
<1>3. ASSUME NEW v, Insert(v)
      PROVE  DecidesOnce
  BY <1>1, <1>3 DEF Insert, DecidesOnce, TypeOK
<1>4. ASSUME NEW i \in VoucherIds, NEW status \in {"POSTED", "REJECTED"},
             IsPendingAdjust(i), Decide(i, status)
      PROVE  DecidesOnce
  <2>1. \A k \in 1..posted : k # i => voucher'[k] = voucher[k]
    BY <1>1, <1>4 DEF Decide, Rewrite, TypeOK
  <2>2. voucher'[i].status = status
    BY <1>1, <1>4 DEF Decide, Rewrite, TypeOK, VoucherRecord
  <2>3. QED
    BY <1>4, <2>1, <2>2 DEF DecidesOnce, IsPendingAdjust
<1>5. ASSUME NEW i \in VoucherIds, CancelVoucher(i)
      PROVE  DecidesOnce
  <2>1. \A k \in 1..posted : k # i => voucher'[k] = voucher[k]
    BY <1>1, <1>5 DEF CancelVoucher, SetVoucherCancelled, Rewrite, TypeOK
  <2>2. voucher'[i].status = "CANCELLED"
    BY <1>1, <1>5 DEF CancelVoucher, SetVoucherCancelled, Rewrite, TypeOK, VoucherRecord
  <2>3. voucher[i].status \in {"POSTED", "PENDING"}
    BY <1>5 DEF CancelVoucher, IsLive
  <2>4. QED
    BY <2>1, <2>2, <2>3 DEF DecidesOnce
<1>6. CASE Next
  <2>1. CASE \E day \in EntryDays :
               \/ \E move \in Lines(-MaxQty..0) : PostIssue(day, move)
               \/ \E i \in VoucherIds, move \in Lines(0..MaxQty) : PostReturn(day, i, move)
               \/ \E u \in Users, move \in Lines(-MaxQty..MaxQty) : PostAdjust(u, day, move)
    BY <1>3, <2>1 DEF PostIssue, PostReturn, PostAdjust
  <2>2. CASE \E u \in Users, i \in VoucherIds : Approve(u, i) \/ Reject(u, i)
    BY <1>4, <2>2 DEF Approve, Reject, MayApprove
  <2>3. CASE \E i \in VoucherIds : CancelVoucher(i)
    BY <1>5, <2>3
  <2>4. QED
    BY <1>2, <1>6, <2>1, <2>2, <2>3
       DEF Next, Tick, ReceiveMir, CancelMir, CancelOpening, SetCancelled, RecordRejection, SetRejected
<1>7. QED
  BY <1>2, <1>6 DEF vars

\* A voucher leaves PENDING once and POSTED once, whatever is decided about it
\* at the same time.
THEOREM DecisionsTakeEffectOnce == TxnSpec => DecidedOnce
<1>1. TxnInv /\ [Next]_vars => DecidesOnce
  BY StepDecidesOnce DEF TxnInv
<1>2. QED
  BY <1>1, TxnInvInit, TxnInvNext, PTL DEF TxnSpec, DecidedOnce, DecidesOnce

-----------------------------------------------------------------------------
(* Deadlocks. *)

\* In a circle nobody is at its sequence: whoever holds that needs no more.
LEMMA CirclesBeforeWriting ==
  ASSUME TxnInv, NEW C \in SUBSET Reqs, Circle(C), NEW r \in C
  PROVE  txn[r].need # <<>> /\ txn[r].stage \in {"head", "lots"}
<1>1. PICK s \in C : Waits(r, s)
  BY DEF Circle
<1>2. PICK s2 \in C : Waits(s, s2)
  BY DEF Circle
<1>3. /\ txn[r].need # <<>> /\ Head(txn[r].need) \in txn[s].held
      /\ txn[s].need # <<>>
  BY <1>1, <1>2 DEF Waits
<1>4. \A q \in Reqs : txn[q].need # <<>> =>
        /\ txn[q].stage \in {"head", "lots", "write"} /\ Sequenced(txn[q]) /\ Locks(txn[q])
        /\ txn[q] \in Transaction
  BY DEF TxnInv, TxnTypeOK, Transaction, Sound, Idle
<1>5. txn[r].stage # "write"
  <2> SUFFICES ASSUME txn[r].stage = "write" PROVE FALSE
    OBVIOUS
  <2>1. txn[r].need = SeqRows(txn[r].op)
    BY <1>3, <1>4 DEF Sequenced
  <2>2. txn[r].op.name \in Inserting /\ Head(txn[r].need) = SeqRow(txn[r].op.name)
    BY <1>3, <2>1 DEF SeqRows
  <2>3. PICK kind \in Kinds : SeqRow(kind) \in txn[s].held
    BY <1>3, <2>2 DEF Inserting, Kinds
  <2>4. CASE txn[s].stage = "write"
    BY <1>3, <1>4, <2>3, <2>4 DEF Sequenced
  <2>5. CASE txn[s].stage # "write"
    <3>1. txn[s].held \subseteq HeadSet(txn[s].op) \cup LotSet(txn[s].op)
      BY <1>3, <1>4, <2>5 DEF Locks, Earlier, Current
    <3>2. SeqRow(kind) \notin HeadSet(txn[s].op)
      BY RowsApart DEF HeadSet
    <3>3. SeqRow(kind) \notin LotSet(txn[s].op)
      BY RowsApart DEF LotSet
    <3>4. QED
      BY <2>3, <3>1, <3>2, <3>3
  <2>6. QED
    BY <2>4, <2>5
<1>6. QED
  BY <1>3, <1>4, <1>5

\* Rows are locked in the order of their rank by all but returns, so the one
\* that waits for the lowest row of a circle cannot hold what another waits for.
LEMMA CirclesHaveAReturn ==
  ASSUME TxnInv, NEW C \in SUBSET Reqs, C # {}, Circle(C)
  PROVE  \E s \in C : txn[s].op.name = "RETURN"
<1> SUFFICES ASSUME \A s \in C : txn[s].op.name # "RETURN" PROVE FALSE
  OBVIOUS
<1> DEFINE Wanted(r) == Rank(Head(txn[r].need))
<1>1. ASSUME NEW r \in C
      PROVE  /\ txn[r].need # <<>> /\ Wanted(r) \in Nat
             /\ \A a \in txn[r].held : Rank(a) < Wanted(r)
  <2>1. /\ txn[r].need # <<>> /\ txn[r].stage \in {"head", "lots"}
    BY CirclesBeforeWriting
  <2>2. txn[r] \in Transaction /\ InOrder(txn[r])
    BY <2>1 DEF TxnInv, TxnTypeOK, Sound
  <2>3. txn[r].need \in Seq(Rows)
    BY <2>2 DEF Transaction
  <2>4. 1 \in 1..Len(txn[r].need) /\ Head(txn[r].need) = txn[r].need[1] /\ Head(txn[r].need) \in Rows
    BY <2>1, <2>3
  <2>5. QED
    BY <2>1, <2>2, <2>4, RankType DEF InOrder
<1> DEFINE T == {Wanted(r) : r \in C}
<1>2. T \subseteq Nat /\ T # {}
  BY <1>1
<1>3. PICK m \in T : \A k \in T : m <= k
  <2> HIDE DEF T
  <2> QED BY <1>2, LeastNatural
<1>4. PICK r \in C : \A s \in C : Wanted(r) <= Wanted(s)
  BY <1>3
<1>5. PICK s \in C : Waits(s, r)
  BY DEF Circle
<1>6. Head(txn[s].need) \in txn[r].held
  BY <1>5 DEF Waits
<1>7. Wanted(s) < Wanted(r) /\ Wanted(r) <= Wanted(s)
  BY <1>1, <1>4, <1>6
<1>8. Wanted(s) \in Nat /\ Wanted(r) \in Nat
  BY <1>1
<1>9. QED
  <2> HIDE DEF Wanted
  <2> QED BY <1>7, <1>8

\* Requests other than returns never deadlock among themselves.
THEOREM DeadlocksNeedReturns == TxnSpec => []DeadlockNeedsReturn
<1>1. TxnInv => DeadlockNeedsReturn
  <2> SUFFICES ASSUME TxnInv, NEW r \in Reqs, Deadlocked(r)
               PROVE  \E s \in Reqs : Deadlocked(s) /\ txn[s].op.name = "RETURN"
    BY DEF DeadlockNeedsReturn
  <2>1. PICK C \in SUBSET Reqs : r \in C /\ Circle(C)
    BY DEF Deadlocked
  <2>2. PICK s \in C : txn[s].op.name = "RETURN"
    BY <2>1, CirclesHaveAReturn
  <2>3. Deadlocked(s)
    BY <2>1, <2>2 DEF Deadlocked
  <2>4. QED
    BY <2>2, <2>3
<1>2. QED
  BY <1>1, TransactionsSound, PTL

=============================================================================
