--------------------------- MODULE MirEntryProofs ---------------------------
(***************************************************************************)
(* Proofs about MirEntry, for any number of lines, MIRs, requests and      *)
(* projections.  The inductive invariant adds to the properties what the   *)
(* row locks are for: a line is held by one transaction at a time          *)
(* (OneHolder), it cannot be blocked (HeldOpen), over-received (HeldRoom)  *)
(* or re-pointed to a material without a category (HeldFiled) while a post *)
(* holds it, MIRs are numbered without gaps (NumberedUpTo), and what the   *)
(* projection has read still says which lines exist (SyncOK).              *)
(***************************************************************************)
EXTENDS MirEntry, StockSums, FiniteSetTheorems

SyncRows ==
  [step: {"idle", "check", "write"}, sheet: Seq(SheetRows), on: BOOLEAN,
   seen: [Lines -> LineRows], pos: 1..LineCount + 1, received: BOOLEAN,
   write: [Lines -> {"no", "plain", "flagged"}], runs: 0..MaxSyncs]

SyncOK ==
  /\ sync \in SyncRows
  /\ sync.step = "idle" => \A p \in Lines : sync.write[p] = "no"
  /\ sync.step # "idle" =>
       /\ sync.runs < MaxSyncs
       /\ \A p \in Lines : sync.seen[p].made = line[p].made
  /\ sync.step = "write" => sync.pos \in Lines /\ sync.seen[sync.pos].made
  /\ \A p \in Lines : sync.write[p] # "no" /\ ~line[p].made => Listed(p)

NumberedUpTo == \E n \in 0..MaxMirs : Numbered = 1..n

MirsOK ==
  /\ NumberedUpTo
  /\ \A m \in MirIds, p \in Lines : mir[m].rejected[p] <= mir[m].received[p]

\* Row locks exclude each other.
OneHolder ==
  /\ \A r, s \in Reqs : r # s => PostLocks(r) \intersect PostLocks(s) = {}
  /\ \A r \in Reqs : PostLocks(r) \intersect SyncLocks = {}

Open(p) == line[p].made /\ line[p].active /\ ~line[p].review /\ ~line[p].closed

HeldOpen == \A r \in Reqs : \A p \in PostLocks(r) : Open(p)

HeldRoom == \A r \in Reqs : \A p \in PostLocks(r) : post[r].open[p] <= OpenQty(p)

HeldFiled ==
  \A r \in Reqs : \A p \in PostLocks(r) :
    p \in post[r].unfiled \/ category[line[p].material] # Unfiled

IInv ==
  /\ TypeOK /\ SyncOK /\ MirsOK
  /\ MismatchesFollowMir /\ ClosureHasItsMir
  /\ OneHolder /\ HeldOpen /\ HeldRoom /\ HeldFiled
-----------------------------------------------------------------------------
(* What is accepted on a line, and the number a new MIR gets.              *)

MirRows == [status: {"NONE", "POSTED", "CANCELLED"},
            received: [Lines -> Nat], rejected: [Lines -> Nat]]
MirTable == [MirIds -> MirRows]

\* What one MIR counts on a line.
Counts(row, p) == IF row.status = "POSTED" THEN row.received[p] - row.rejected[p] ELSE 0

LEMMA CountsInt ==
  ASSUME NEW row \in MirRows, NEW p \in Lines
  PROVE  Counts(row, p) \in Int
<1>1. row.received[p] \in Nat /\ row.rejected[p] \in Nat BY DEF MirRows
<1> QED BY <1>1 DEF Counts

LEMMA AcceptedIsTotal ==
  ASSUME NEW p PROVE Accepted(p) = Total([m \in MirIds |-> Counts(mir[m], p)], MaxMirs)
  BY DEF Accepted, Counts, Posted

LEMMA CountsTyped ==
  ASSUME NEW table \in MirTable, NEW p \in Lines
  PROVE  /\ MaxMirs \in Nat
         /\ [m \in MirIds |-> Counts(table[m], p)] \in [1..MaxMirs -> Int]
         /\ Total([m \in MirIds |-> Counts(table[m], p)], MaxMirs) \in Int
<1>1. \A m \in MirIds : Counts(table[m], p) \in Int BY CountsInt DEF MirTable
<1>2. [m \in MirIds |-> Counts(table[m], p)] \in [1..MaxMirs -> Int]
  BY <1>1 DEF MirIds
<1>3. MaxMirs \in Nat BY MirAssumption
<1> QED BY <1>2, <1>3, TotalType

LEMMA AcceptedInt ==
  ASSUME mir \in MirTable, NEW p \in Lines PROVE Accepted(p) \in Int
  BY AcceptedIsTotal, CountsTyped

LEMMA AcceptedMoves ==
  ASSUME mir \in MirTable, mir' \in MirTable, NEW p \in Lines, NEW m \in MirIds,
         \A k \in MirIds \ {m} : mir'[k] = mir[k]
  PROVE  /\ Accepted(p)' \in Int
         /\ Accepted(p)' = Accepted(p) - Counts(mir[m], p) + Counts(mir'[m], p)
<1> DEFINE f == [k \in MirIds |-> Counts(mir[k], p)]
           g == [k \in MirIds |-> Counts(mir'[k], p)]
<1>1. f \in [1..MaxMirs -> Int] /\ Accepted(p) = Total(f, MaxMirs)
  BY CountsTyped, AcceptedIsTotal
<1>2. Accepted(p)' = Total(g, MaxMirs) BY DEF Accepted, Counts, Posted
<1>3. g \in [1..MaxMirs -> Int] /\ Total(g, MaxMirs) \in Int BY CountsTyped
<1>4. \A k \in 1..MaxMirs : k # m => g[k] = f[k] BY DEF MirIds
<1>5. MaxMirs \in Nat /\ m \in 1..MaxMirs BY MirAssumption DEF MirIds
<1>6. f[m] = Counts(mir[m], p) /\ g[m] = Counts(mir'[m], p) OBVIOUS
<1> HIDE DEF f, g
<1>7. Total(g, MaxMirs) = Total(f, MaxMirs) - f[m] + g[m]
  BY <1>1, <1>3, <1>4, <1>5, TotalOneChanged
<1> QED BY <1>1, <1>2, <1>3, <1>6, <1>7

LEMMA AcceptedSame ==
  ASSUME UNCHANGED mir, NEW p PROVE Accepted(p)' = Accepted(p)
  BY DEF Accepted, Posted

LEMMA NextNumber ==
  ASSUME mir \in MirTable, NumberedUpTo, NextMir <= MaxMirs
  PROVE  /\ NextMir \in MirIds
         /\ mir[NextMir].status = "NONE"
         /\ Numbered \union {NextMir} = 1..NextMir
<1>1. PICK n \in 0..MaxMirs : Numbered = 1..n BY DEF NumberedUpTo
<1>2. MaxMirs \in Nat /\ n \in Nat BY MirAssumption, <1>1
<1>3. Cardinality(1..n) = n BY <1>2, FS_Interval
<1>4. NextMir = n + 1 BY <1>1, <1>3 DEF NextMir
<1>5. NextMir \in 1..MaxMirs BY <1>2, <1>4
<1>6. NextMir \notin Numbered BY <1>1, <1>2, <1>4
<1>7. 1..n \union {n + 1} = 1..(n + 1) BY <1>2
<1> QED BY <1>1, <1>4, <1>5, <1>6, <1>7 DEF MirIds, Numbered
-----------------------------------------------------------------------------
(* What the typing says of single rows.                                    *)

LEMMA TypedMirs ==
  ASSUME TypeOK
  PROVE  /\ mir \in MirTable
         /\ \A m \in MirIds : mir[m] \in MirRows
  BY DEF TypeOK, MirTable, MirRows

LEMMA TypedLine ==
  ASSUME TypeOK, NEW p \in Lines
  PROVE  /\ line[p] \in LineRows
         /\ line[p].ordered \in Nat
         /\ line[p].material \in Materials
<1>1. line[p] \in LineRows BY DEF TypeOK
<1>2. line[p].ordered \in Quantities /\ line[p].material \in Materials BY <1>1 DEF LineRows
<1> QED BY <1>1, <1>2, MirAssumption

LEMMA TypedPost ==
  ASSUME TypeOK, NEW r \in Reqs
  PROVE  /\ post[r].open \in [Lines -> Nat]
         /\ post[r].unfiled \subseteq Lines
         /\ PostLocks(r) \subseteq Lines
  BY DEF TypeOK, PostLocks
-----------------------------------------------------------------------------
(* What a step owes, by what it leaves alone.                              *)

LEMMA SyncKept ==
  ASSUME SyncOK, UNCHANGED sync, \A p \in Lines : line'[p].made = line[p].made
  PROVE  SyncOK'
  BY DEF SyncOK, Listed, SyncRows

LEMMA HeldKept ==
  ASSUME IInv, UNCHANGED post,
         \A r \in Reqs : PostLocks(r) \intersect SyncLocks' = {},
         \A r \in Reqs : \A p \in PostLocks(r) :
           Open(p)' /\ line'[p].ordered = line[p].ordered /\ line'[p].material = line[p].material,
         \A p \in Lines : Accepted(p)' \in Int /\ Accepted(p)' <= Accepted(p),
         \A k \in Materials : category[k] # Unfiled => category'[k] # Unfiled
  PROVE  OneHolder' /\ HeldOpen' /\ HeldRoom' /\ HeldFiled'
<1>1. \A r \in Reqs : PostLocks(r)' = PostLocks(r) BY DEF PostLocks
<1>2. OneHolder' BY <1>1 DEF IInv, OneHolder
<1>3. HeldOpen' BY <1>1 DEF HeldOpen
<1>4. \A r \in Reqs : PostLocks(r) \subseteq Lines BY DEF PostLocks
<1>5. HeldRoom'
  <2>1. ASSUME NEW r \in Reqs, NEW p \in PostLocks(r) PROVE post[r].open[p] <= OpenQty(p)'
    <3>1. p \in Lines BY <1>4
    <3>2. line[p].ordered \in Nat /\ post[r].open[p] \in Nat
      BY <3>1, TypedLine, TypedPost DEF IInv
    <3>3. Accepted(p) \in Int BY <3>1, AcceptedInt, TypedMirs DEF IInv
    <3>4. post[r].open[p] <= line[p].ordered - Accepted(p) BY DEF IInv, HeldRoom, OpenQty
    <3>5. OpenQty(p)' = line[p].ordered - Accepted(p)' BY <2>1 DEF OpenQty
    <3>6. Accepted(p)' \in Int /\ Accepted(p)' <= Accepted(p) BY <3>1
    <3> HIDE DEF Accepted
    <3> QED BY <3>2, <3>3, <3>4, <3>5, <3>6
  <2> QED BY <1>1, <2>1 DEF HeldRoom
<1>6. HeldFiled'
  <2>1. \A r \in Reqs : \A p \in PostLocks(r) : line[p].material \in Materials
    BY <1>4, TypedLine DEF IInv
  <2> QED BY <1>1, <2>1 DEF IInv, HeldFiled
<1> QED BY <1>2, <1>3, <1>5, <1>6
-----------------------------------------------------------------------------
(* What people do to lines, materials and posted MIRs.                     *)

LEMMA UnlockedIsFree ==
  ASSUME NEW p, ~Locked(p)
  PROVE  p \notin SyncLocks /\ \A r \in Reqs : p \notin PostLocks(r)
  BY DEF Locked

LEMMA EditTyped == ASSUME TypeOK, Edit PROVE edits' \in 0..MaxEdits
  BY MirAssumption DEF TypeOK, Edit

LEMMA LineEdited ==
  ASSUME IInv, NEW p \in Lines, ~Locked(p), Edit, UNCHANGED <<order, mir, mismatch, category, post, sync>>,
         NEW row \in LineRows, line' = [line EXCEPT ![p] = row],
         line[p].made, row.made,
         row.closedBy # 0 => row.closed /\ row.closedBy = line[p].closedBy
  PROVE  IInv'
<1>1. /\ line' \in [Lines -> LineRows]
      /\ line'[p] = row
      /\ \A q \in Lines \ {p} : line'[q] = line[q]
  BY DEF IInv, TypeOK
<1>2. TypeOK' BY <1>1, EditTyped DEF IInv, TypeOK
<1>3. \A q \in Lines : line'[q].made = line[q].made
  BY <1>1 DEF IInv, TypeOK, LineRows
<1>4. SyncOK' BY <1>3, SyncKept DEF IInv
<1>5. MirsOK' BY DEF IInv, MirsOK, NumberedUpTo, Numbered
<1>6. MismatchesFollowMir' BY DEF IInv, MismatchesFollowMir, Posted
<1>7. ClosureHasItsMir' BY <1>1 DEF IInv, ClosureHasItsMir, Posted
<1>8. SyncLocks' = SyncLocks BY <1>3 DEF SyncLocks
<1>9. \A r \in Reqs : PostLocks(r) \intersect SyncLocks' = {} BY <1>8 DEF IInv, OneHolder
<1>10. \A r \in Reqs : \A q \in PostLocks(r) : q \in Lines /\ line'[q] = line[q]
  BY <1>1, UnlockedIsFree DEF PostLocks
<1>11. \A r \in Reqs : \A q \in PostLocks(r) : Open(q)' BY <1>10 DEF IInv, HeldOpen, Open
<1>12. \A q \in Lines : Accepted(q)' \in Int /\ Accepted(q)' <= Accepted(q)
  BY AcceptedSame, AcceptedInt, TypedMirs DEF IInv
<1>13. OneHolder' /\ HeldOpen' /\ HeldRoom' /\ HeldFiled'
  BY <1>9, <1>10, <1>11, <1>12, HeldKept
<1> QED BY <1>2, <1>4, <1>5, <1>6, <1>7, <1>13 DEF IInv

LEMMA LinesEdited ==
  ASSUME IInv, NEW p \in Lines, ClosePoLine(p) \/ ReopenPoLine(p) \/ ClearLineReview(p)
  PROVE  IInv'
<1>1. line \in [Lines -> LineRows] /\ line[p] \in LineRows BY DEF IInv, TypeOK
<1>2. CASE ClosePoLine(p)
  <2> DEFINE row == [line[p] EXCEPT !.closed = TRUE, !.closedBy = 0]
  <2>1. row \in LineRows /\ row.made = line[p].made /\ row.closedBy = 0 BY <1>1 DEF LineRows
  <2>2. line' = [line EXCEPT ![p] = row] BY <1>1, <1>2 DEF ClosePoLine
  <2> HIDE DEF row
  <2> QED BY <1>2, <2>1, <2>2, LineEdited DEF ClosePoLine
<1>3. CASE ReopenPoLine(p)
  <2> DEFINE row == Reopen(line[p])
  <2>1. row \in LineRows /\ row.made = line[p].made /\ row.closedBy = 0
    BY <1>1 DEF LineRows, Reopen
  <2>2. line' = [line EXCEPT ![p] = row] BY <1>1, <1>3 DEF ReopenPoLine
  <2> HIDE DEF row
  <2> QED BY <1>3, <2>1, <2>2, LineEdited DEF ReopenPoLine
<1>4. CASE ClearLineReview(p)
  <2> DEFINE row == [line[p] EXCEPT !.review = FALSE]
  <2>1. /\ row \in LineRows /\ row.made = line[p].made
        /\ row.closed = line[p].closed /\ row.closedBy = line[p].closedBy
    BY <1>1 DEF LineRows
  <2>2. line' = [line EXCEPT ![p] = row] BY <1>1, <1>4 DEF ClearLineReview
  <2>3. row.closedBy # 0 => row.closed BY <2>1 DEF IInv, ClosureHasItsMir
  <2> HIDE DEF row
  <2> QED BY <1>4, <2>1, <2>2, <2>3, LineEdited DEF ClearLineReview
<1> QED BY <1>2, <1>3, <1>4

(* Steps that leave the lines, the MIRs and the transactions alone.        *)
LEMMA RestKept ==
  ASSUME IInv, UNCHANGED <<line, mir, post, sync>>,
         \A k \in Materials : category[k] # Unfiled => category'[k] # Unfiled
  PROVE  SyncOK' /\ MirsOK' /\ OneHolder' /\ HeldOpen' /\ HeldRoom' /\ HeldFiled'
<1>1. SyncOK' BY SyncKept DEF IInv
<1>2. MirsOK' BY DEF IInv, MirsOK, NumberedUpTo, Numbered
<1>3. SyncLocks' = SyncLocks BY DEF SyncLocks
<1>4. \A r \in Reqs : PostLocks(r) \intersect SyncLocks' = {} BY <1>3 DEF IInv, OneHolder
<1>5. \A r \in Reqs : \A q \in PostLocks(r) : Open(q)' BY DEF IInv, HeldOpen, Open
<1>6. \A q \in Lines : Accepted(q)' \in Int /\ Accepted(q)' <= Accepted(q)
  BY AcceptedSame, AcceptedInt, TypedMirs DEF IInv
<1>7. OneHolder' /\ HeldOpen' /\ HeldRoom' /\ HeldFiled'
  BY <1>4, <1>5, <1>6, HeldKept
<1> QED BY <1>1, <1>2, <1>7

LEMMA CategoryChanged ==
  ASSUME IInv, NEW k \in Materials, ChangeCategory(k) PROVE IInv'
<1> USE DEF ChangeCategory
<1>1. PICK c \in Categories : category' = [category EXCEPT ![k] = c] OBVIOUS
<1>2. Unfiled \notin Categories BY MirAssumption
<1>3. \A j \in Materials : category[j] # Unfiled => category'[j] # Unfiled
  BY <1>1, <1>2 DEF IInv, TypeOK
<1>4. category' \in [Materials -> Categories \cup {Unfiled}] BY <1>1 DEF IInv, TypeOK
<1>5. TypeOK' BY <1>4, EditTyped DEF IInv, TypeOK
<1>6. MismatchesFollowMir' BY DEF IInv, MismatchesFollowMir, Posted
<1>7. ClosureHasItsMir' BY DEF IInv, ClosureHasItsMir, Posted
<1> QED BY <1>3, <1>5, <1>6, <1>7, RestKept DEF IInv

(* One mismatch gets another status.                                       *)
LEMMA OneMismatch ==
  ASSUME TypeOK, NEW m \in MirIds, NEW p \in Lines, NEW k \in Kinds,
         NEW status \in {"NONE", "OPEN", "RESOLVED", "VOID"},
         mismatch' = [mismatch EXCEPT ![m][p][k] = status]
  PROVE  /\ mismatch' \in [MirIds -> [Lines -> [Kinds -> {"NONE", "OPEN", "RESOLVED", "VOID"}]]]
         /\ mismatch'[m][p][k] = status
         /\ \A n \in MirIds, q \in Lines, j \in Kinds :
              <<n, q, j>> # <<m, p, k>> => mismatch'[n][q][j] = mismatch[n][q][j]
  BY DEF TypeOK

LEMMA MismatchResolved ==
  ASSUME IInv, NEW m \in MirIds, NEW p \in Lines, NEW k \in Kinds, ResolveMismatch(m, p, k)
  PROVE  IInv'
<1> USE DEF ResolveMismatch, CanResolve
<1>1. mismatch' = [mismatch EXCEPT ![m][p][k] = "RESOLVED"] /\ mismatch[m][p][k] = "OPEN" OBVIOUS
<1>2. /\ mismatch' \in [MirIds -> [Lines -> [Kinds -> {"NONE", "OPEN", "RESOLVED", "VOID"}]]]
      /\ mismatch'[m][p][k] = "RESOLVED"
      /\ \A n \in MirIds, q \in Lines, j \in Kinds :
           <<n, q, j>> # <<m, p, k>> => mismatch'[n][q][j] = mismatch[n][q][j]
  BY <1>1, OneMismatch DEF IInv
<1>3. TypeOK' BY <1>2, EditTyped DEF IInv, TypeOK
<1>4. \A n \in MirIds, q \in Lines, j \in Kinds :
        \/ mismatch'[n][q][j] = mismatch[n][q][j]
        \/ mismatch'[n][q][j] = "RESOLVED" /\ mismatch[n][q][j] = "OPEN"
  BY <1>1, <1>2
<1>5. {"QTY_SHORT", "QTY_OVER", "QTY_REJECTED"} = Kinds BY DEF Kinds
<1>6. MismatchesFollowMir' BY <1>4, <1>5 DEF IInv, MismatchesFollowMir, Posted
<1>7. ClosureHasItsMir'
  <2>1. ASSUME NEW q \in Lines, line[q].closedBy # 0
        PROVE  mismatch'[line[q].closedBy][q]["QTY_SHORT"] \in {"OPEN", "RESOLVED"}
    <3>1. line[q].closedBy \in MirIds BY <2>1, TypedLine DEF IInv, LineRows
    <3> QED BY <2>1, <3>1, <1>4, <1>5 DEF IInv, ClosureHasItsMir
  <2> QED BY <2>1 DEF IInv, ClosureHasItsMir, Posted
<1> QED BY <1>3, <1>6, <1>7, RestKept DEF IInv

(* A posted MIR counts less than it did, or nothing any more.              *)
LEMMA AcceptedFalls ==
  ASSUME IInv, NEW m \in MirIds, NEW row \in MirRows, mir' = [mir EXCEPT ![m] = row],
         \A q \in Lines : Counts(row, q) <= Counts(mir[m], q)
  PROVE  \A q \in Lines : Accepted(q)' \in Int /\ Accepted(q)' <= Accepted(q)
<1>1. mir \in MirTable /\ mir[m] \in MirRows BY TypedMirs DEF IInv
<1>2. /\ mir' \in MirTable
      /\ mir'[m] = row
      /\ \A k \in MirIds \ {m} : mir'[k] = mir[k]
  BY <1>1 DEF MirTable
<1>3. ASSUME NEW q \in Lines PROVE Accepted(q)' \in Int /\ Accepted(q)' <= Accepted(q)
  <2>1. Accepted(q)' \in Int /\ Accepted(q)' = Accepted(q) - Counts(mir[m], q) + Counts(row, q)
    BY <1>1, <1>2, AcceptedMoves
  <2>2. Accepted(q) \in Int BY <1>1, AcceptedInt
  <2>3. Counts(mir[m], q) \in Int /\ Counts(row, q) \in Int BY <1>1, CountsInt
  <2>4. Counts(row, q) <= Counts(mir[m], q) OBVIOUS
  <2> QED BY <2>1, <2>2, <2>3, <2>4
<1> QED BY <1>3

LEMMA RejectionRecorded ==
  ASSUME IInv, NEW m \in MirIds, NEW p \in Lines, RecordRejection(m, p)
  PROVE  IInv'
<1>1. PICK total \in mir[m].rejected[p] + 1 .. mir[m].received[p] :
        mir' = [mir EXCEPT ![m].rejected[p] = total]
  BY DEF RecordRejection
<1>2. /\ Posted(m)
      /\ mismatch' = [mismatch EXCEPT ![m][p]["QTY_REJECTED"] = "OPEN"]
      /\ UNCHANGED <<order, line, category, post, sync, edits>>
  BY DEF RecordRejection
<1>3. mir \in MirTable /\ mir[m] \in MirRows BY TypedMirs DEF IInv
<1> DEFINE row == [mir[m] EXCEPT !.rejected[p] = total]
<1>4. mir' = [mir EXCEPT ![m] = row] BY <1>1
<1>5. mir[m].received[p] \in Nat /\ mir[m].rejected[p] \in Nat BY <1>3 DEF MirRows
<1>6. total \in Nat /\ mir[m].rejected[p] <= total /\ total <= mir[m].received[p]
  BY <1>5
<1>7. /\ row \in MirRows
      /\ row.status = mir[m].status /\ row.received = mir[m].received
      /\ row.rejected[p] = total
      /\ \A q \in Lines \ {p} : row.rejected[q] = mir[m].rejected[q]
  BY <1>3, <1>6 DEF MirRows
<1> HIDE DEF row
<1>8. /\ mir' \in MirTable /\ mir'[m] = row
      /\ \A k \in MirIds \ {m} : mir'[k] = mir[k]
  BY <1>3, <1>4, <1>7 DEF MirTable
<1>9. \A k \in MirIds : mir'[k].status = mir[k].status BY <1>7, <1>8
<1>10. \A q \in Lines : Counts(row, q) <= Counts(mir[m], q)
  <2>1. \A q \in Lines : /\ mir[m].received[q] \in Nat /\ mir[m].rejected[q] \in Nat
                         /\ row.rejected[q] \in Nat /\ mir[m].rejected[q] <= row.rejected[q]
    BY <1>3, <1>6, <1>7 DEF MirRows
  <2> QED BY <1>7, <2>1 DEF Counts
<1>11. {"QTY_SHORT", "QTY_OVER", "QTY_REJECTED"} = Kinds BY DEF Kinds
<1>12. /\ mismatch' \in [MirIds -> [Lines -> [Kinds -> {"NONE", "OPEN", "RESOLVED", "VOID"}]]]
       /\ mismatch'[m][p]["QTY_REJECTED"] = "OPEN"
       /\ \A n \in MirIds, q \in Lines, j \in Kinds :
            <<n, q, j>> # <<m, p, "QTY_REJECTED">> => mismatch'[n][q][j] = mismatch[n][q][j]
  BY <1>2, <1>11, OneMismatch DEF IInv
<1>13. TypeOK' BY <1>2, <1>8, <1>12 DEF IInv, TypeOK, MirTable, MirRows
<1>14. SyncOK' BY <1>2, SyncKept DEF IInv
<1>15. MirsOK'
  <2>1. Numbered' = Numbered BY <1>9 DEF Numbered
  <2>2. \A k \in MirIds, q \in Lines : mir'[k].rejected[q] <= mir'[k].received[q]
    BY <1>6, <1>7, <1>8 DEF IInv, MirsOK
  <2> QED BY <2>1, <2>2 DEF IInv, MirsOK, NumberedUpTo
<1>16. MismatchesFollowMir'
  <2>1. \A k \in MirIds : Posted(k)' = Posted(k) BY <1>9 DEF Posted
  <2>2. \A k \in MirIds, q \in Lines : <<k, q>> # <<m, p>> => mir'[k].rejected[q] = mir[k].rejected[q]
    BY <1>7, <1>8
  <2>3. ASSUME NEW k \in MirIds, NEW q \in Lines
        PROVE  /\ \A j \in Kinds : mismatch'[k][q][j] = "OPEN" => Posted(k)'
               /\ \A j \in Kinds : mismatch'[k][q][j] = "VOID" => mir'[k].status = "CANCELLED"
               /\ Posted(k)' /\ mir'[k].rejected[q] > 0 => mismatch'[k][q]["QTY_REJECTED"] # "NONE"
    BY <1>2, <1>9, <1>11, <1>12, <2>1, <2>2 DEF IInv, MismatchesFollowMir
  <2> QED BY <2>3 DEF MismatchesFollowMir
<1>17. ClosureHasItsMir'
  <2>1. ASSUME NEW q \in Lines, line[q].closedBy # 0
        PROVE  /\ mir'[line[q].closedBy].status = "POSTED"
               /\ mismatch'[line[q].closedBy][q]["QTY_SHORT"] \in {"OPEN", "RESOLVED"}
    <3>1. line[q].closedBy \in MirIds BY <2>1, TypedLine DEF IInv, LineRows
    <3> QED BY <2>1, <3>1, <1>9, <1>11, <1>12 DEF IInv, ClosureHasItsMir, Posted
  <2> QED BY <1>2, <2>1 DEF IInv, ClosureHasItsMir, Posted
<1>18. \A q \in Lines : Accepted(q)' \in Int /\ Accepted(q)' <= Accepted(q)
  BY <1>4, <1>7, <1>10, AcceptedFalls
<1>19. SyncLocks' = SyncLocks BY <1>2 DEF SyncLocks
<1>20. \A r \in Reqs : PostLocks(r) \intersect SyncLocks' = {} BY <1>19 DEF IInv, OneHolder
<1>21. \A r \in Reqs : \A q \in PostLocks(r) : Open(q)' BY <1>2 DEF IInv, HeldOpen, Open
<1>22. OneHolder' /\ HeldOpen' /\ HeldRoom' /\ HeldFiled'
  BY <1>2, <1>18, <1>20, <1>21, HeldKept
<1> QED BY <1>13, <1>14, <1>15, <1>16, <1>17, <1>22 DEF IInv

LEMMA MirCancelled == ASSUME IInv, NEW m \in MirIds, CancelMir(m) PROVE IInv'
<1> USE DEF CancelMir
<1>1. mir \in MirTable /\ mir[m] \in MirRows BY TypedMirs DEF IInv
<1> DEFINE row == [mir[m] EXCEPT !.status = "CANCELLED"]
<1>2. mir' = [mir EXCEPT ![m] = row] OBVIOUS
<1>3. /\ row \in MirRows /\ row.status = "CANCELLED"
      /\ row.received = mir[m].received /\ row.rejected = mir[m].rejected
  BY <1>1 DEF MirRows
<1> HIDE DEF row
<1>4. /\ mir' \in MirTable /\ mir'[m] = row
      /\ \A k \in MirIds \ {m} : mir'[k] = mir[k]
  BY <1>1, <1>2, <1>3 DEF MirTable
<1>5. /\ \A p \in ReopenedBy(m) : line'[p] = Reopen(line[p])
      /\ \A p \in Lines \ ReopenedBy(m) : line'[p] = line[p]
      /\ line' = [p \in Lines |-> line'[p]]
  BY DEF ReopenedBy
<1>6. \A p \in Lines : /\ Reopen(line[p]) \in LineRows
                       /\ Reopen(line[p]).made = line[p].made
                       /\ Reopen(line[p]).closedBy = 0
  BY TypedLine DEF IInv, Reopen, LineRows
<1>7. \A p \in Lines : line'[p] \in LineRows /\ line'[p].made = line[p].made
  BY <1>5, <1>6, TypedLine DEF IInv
<1>8. line' \in [Lines -> LineRows] BY <1>5, <1>7
<1>9. /\ mismatch' \in [MirIds -> [Lines -> [Kinds -> {"NONE", "OPEN", "RESOLVED", "VOID"}]]]
      /\ \A q \in Lines, j \in Kinds : mismatch'[m][q][j] = Voided(mismatch[m][q][j])
      /\ \A k \in MirIds \ {m} : mismatch'[k] = mismatch[k]
  <2>1. \A q \in Lines, j \in Kinds :
          Voided(mismatch[m][q][j]) \in {"NONE", "OPEN", "RESOLVED", "VOID"}
    BY DEF IInv, TypeOK, Voided
  <2> QED BY <2>1 DEF IInv, TypeOK
<1>10. TypeOK' BY <1>4, <1>8, <1>9 DEF IInv, TypeOK, MirTable, MirRows
<1>11. SyncOK' BY <1>7, SyncKept DEF IInv
<1>12. MirsOK'
  <2>1. Numbered' = Numbered BY <1>3, <1>4 DEF Numbered, Posted
  <2>2. \A k \in MirIds, q \in Lines : mir'[k].rejected[q] <= mir'[k].received[q]
    BY <1>3, <1>4 DEF IInv, MirsOK
  <2> QED BY <2>1, <2>2 DEF IInv, MirsOK, NumberedUpTo
<1>13. MismatchesFollowMir'
  <2>1. ASSUME NEW k \in MirIds \ {m}, NEW q \in Lines
        PROVE  /\ \A j \in Kinds : mismatch'[k][q][j] = "OPEN" => Posted(k)'
               /\ \A j \in Kinds : mismatch'[k][q][j] = "VOID" => mir'[k].status = "CANCELLED"
               /\ Posted(k)' /\ mir'[k].rejected[q] > 0 => mismatch'[k][q]["QTY_REJECTED"] # "NONE"
    BY <1>4, <1>9 DEF IInv, MismatchesFollowMir, Posted
  <2>2. ASSUME NEW q \in Lines
        PROVE  /\ \A j \in Kinds : mismatch'[m][q][j] # "OPEN"
               /\ mir'[m].status = "CANCELLED" /\ ~Posted(m)'
    BY <1>3, <1>4, <1>9 DEF Voided, Posted
  <2> QED BY <2>1, <2>2 DEF MismatchesFollowMir
<1>14. ClosureHasItsMir'
  <2>1. ASSUME NEW q \in Lines, line'[q].closedBy # 0
        PROVE  /\ line'[q].closed
               /\ mir'[line'[q].closedBy].status = "POSTED"
               /\ mismatch'[line'[q].closedBy][q]["QTY_SHORT"] \in {"OPEN", "RESOLVED"}
    <3>1. q \notin ReopenedBy(m) BY <2>1, <1>5, <1>6
    <3>2. line'[q] = line[q] BY <3>1, <1>5
    <3>3. line[q].closed /\ line[q].closedBy # m
      BY <2>1, <3>1, <3>2 DEF ReopenedBy, IInv, ClosureHasItsMir
    <3>4. line[q].closedBy \in MirIds \ {m} BY <2>1, <3>2, <3>3, TypedLine DEF IInv, LineRows
    <3> QED BY <2>1, <3>2, <3>4, <1>4, <1>9 DEF IInv, ClosureHasItsMir, Posted
  <2> QED BY <2>1 DEF ClosureHasItsMir, Posted
<1>15. \A q \in Lines : Counts(row, q) <= Counts(mir[m], q)
  <2>1. \A q \in Lines : /\ mir[m].received[q] \in Nat /\ mir[m].rejected[q] \in Nat
                         /\ mir[m].rejected[q] <= mir[m].received[q]
    BY <1>1 DEF MirRows, IInv, MirsOK
  <2> QED BY <1>3, <2>1 DEF Counts
<1>16. \A q \in Lines : Accepted(q)' \in Int /\ Accepted(q)' <= Accepted(q)
  BY <1>2, <1>3, <1>15, AcceptedFalls
<1>17. SyncLocks' = SyncLocks BY <1>7 DEF SyncLocks
<1>18. \A r \in Reqs : PostLocks(r) \intersect SyncLocks' = {} BY <1>17 DEF IInv, OneHolder
<1>19. \A r \in Reqs : \A q \in PostLocks(r) : q \in Lines /\ line'[q] = line[q]
  BY <1>5, UnlockedIsFree DEF PostLocks
<1>20. \A r \in Reqs : \A q \in PostLocks(r) : Open(q)' BY <1>19 DEF IInv, HeldOpen, Open
<1>21. OneHolder' /\ HeldOpen' /\ HeldRoom' /\ HeldFiled'
  BY <1>16, <1>18, <1>19, <1>20, HeldKept
<1> QED BY <1>10, <1>11, <1>12, <1>13, <1>14, <1>21 DEF IInv
-----------------------------------------------------------------------------
(* Posting a MIR.                                                          *)

LEMMA Evaluated == ASSUME IInv, NEW r \in Reqs, PostEvaluate(r) PROVE IInv'
<1> DEFINE row(want) ==
      [busy    |-> TRUE,
       open    |-> [p \in Lines |-> IF p \in want THEN OpenQty(p) ELSE 0],
       unfiled |-> {p \in want : category[line[p].material] = Unfiled}]
<1>1. PICK want \in SUBSET Lines : /\ MayLock(want) /\ ~Refuses(want)
                                   /\ post' = [post EXCEPT ![r] = row(want)]
  BY DEF PostEvaluate
<1>2. UNCHANGED <<order, line, mir, mismatch, category, sync, edits>> BY DEF PostEvaluate
<1>3. \A p \in want : p \in Lines /\ Receivable(p) /\ ~Locked(p)
  BY <1>1 DEF MayLock, Refuses
<1>4. \A p \in want : Open(p) /\ OpenQty(p) \in Nat /\ OpenQty(p) > 0
  <2>1. ASSUME NEW p \in want PROVE OpenQty(p) \in Int
    <3>1. line[p].ordered \in Nat BY <1>3, TypedLine DEF IInv
    <3>2. Accepted(p) \in Int BY <1>3, AcceptedInt, TypedMirs DEF IInv
    <3> QED BY <3>1, <3>2 DEF OpenQty
  <2> QED BY <2>1, <1>3 DEF Receivable, Open
<1> DEFINE held == row(want)
<1>5. /\ held.busy = TRUE
      /\ held.open \in [Lines -> Nat]
      /\ \A p \in want : held.open[p] = OpenQty(p)
      /\ \A p \in Lines \ want : held.open[p] = 0
      /\ held.unfiled = {p \in want : category[line[p].material] = Unfiled}
  <2> HIDE DEF OpenQty
  <2> QED BY <1>3, <1>4
<1>6. held \in [busy: BOOLEAN, open: [Lines -> Nat], unfiled: SUBSET Lines]
  BY <1>3, <1>5
<1>7. post' = [post EXCEPT ![r] = held] BY <1>1
<1> HIDE DEF held
<1>8. /\ post' \in [Reqs -> [busy: BOOLEAN, open: [Lines -> Nat], unfiled: SUBSET Lines]]
      /\ post'[r] = held
      /\ \A s \in Reqs \ {r} : post'[s] = post[s]
  BY <1>6, <1>7 DEF IInv, TypeOK
<1>9. TypeOK' BY <1>2, <1>8 DEF IInv, TypeOK
<1>10. SyncOK' BY <1>2, SyncKept DEF IInv
<1>11. MirsOK' BY <1>2 DEF IInv, MirsOK, NumberedUpTo, Numbered
<1>12. MismatchesFollowMir' BY <1>2 DEF IInv, MismatchesFollowMir, Posted
<1>13. ClosureHasItsMir' BY <1>2 DEF IInv, ClosureHasItsMir, Posted
<1>14. PostLocks(r)' = want
  BY <1>3, <1>4, <1>5, <1>8 DEF PostLocks
<1>15. \A s \in Reqs \ {r} : PostLocks(s)' = PostLocks(s) BY <1>8 DEF PostLocks
<1>16. SyncLocks' = SyncLocks BY <1>2 DEF SyncLocks
<1>17. want \intersect SyncLocks = {} /\ \A s \in Reqs : want \intersect PostLocks(s) = {}
  BY <1>3, UnlockedIsFree
<1>18. OneHolder' BY <1>14, <1>15, <1>16, <1>17 DEF IInv, OneHolder
<1>19. HeldOpen' BY <1>2, <1>4, <1>14, <1>15 DEF IInv, HeldOpen, Open
<1>20. \A p \in Lines : OpenQty(p)' = OpenQty(p)
  BY <1>2, AcceptedSame DEF OpenQty
<1>21. HeldRoom'
  <2>1. \A p \in want : post'[r].open[p] <= OpenQty(p) BY <1>4, <1>5, <1>8
  <2>2. \A s \in Reqs \ {r} : \A p \in PostLocks(s) : post'[s].open[p] <= OpenQty(p)
    BY <1>8 DEF IInv, HeldRoom
  <2>3. \A s \in Reqs : PostLocks(s)' \subseteq Lines BY DEF PostLocks
  <2> QED BY <1>14, <1>15, <1>20, <2>1, <2>2, <2>3 DEF HeldRoom
<1>22. HeldFiled' BY <1>2, <1>5, <1>8, <1>14, <1>15 DEF IInv, HeldFiled
<1> QED BY <1>9, <1>10, <1>11, <1>12, <1>13, <1>18, <1>19, <1>21, <1>22 DEF IInv

(* The parts of a save: what a MIR is saved with, and what is written.     *)
SavedWith(r, m, received, rejected, raised, closing, pick) ==
  /\ m <= MaxMirs
  /\ \A p \in Lines : (received[p] > 0) <=> (p \in PostLocks(r))
  /\ \A p \in closing : "QTY_SHORT" \in raised[p]
  /\ mir' = [mir EXCEPT ![m] =
       [status |-> "POSTED", received |-> received, rejected |-> rejected]]
  /\ mismatch' = [mismatch EXCEPT ![m] =
       [p \in Lines |-> [k \in Kinds |-> IF k \in raised[p] THEN "OPEN" ELSE "NONE"]]]
  /\ line' = [p \in Lines |->
       IF p \in closing THEN [line[p] EXCEPT !.closed = TRUE, !.closedBy = m] ELSE line[p]]
  /\ category' = [k \in Materials |->
       IF k \in {line[p].material : p \in post[r].unfiled} THEN pick[k] ELSE category[k]]
  /\ post' = [post EXCEPT ![r] = NoPost]
  /\ UNCHANGED <<order, sync, edits>>

SaveTyped(r, m, received, rejected, raised, closing, pick) ==
  /\ m = NextMir
  /\ received \in [Lines -> Nat] /\ rejected \in [Lines -> Nat]
  /\ \A p \in Lines : rejected[p] <= received[p]
  /\ raised = [p \in Lines |-> Raised(r, received, rejected, p)]
  /\ closing \subseteq PostLocks(r)
  /\ pick \in [Materials -> Categories]

LEMMA PostSaves ==
  ASSUME NEW r \in Reqs, PostSave(r)
  PROVE  \E m, received, rejected, raised, closing, pick :
           /\ SavedWith(r, m, received, rejected, raised, closing, pick)
           /\ SaveTyped(r, m, received, rejected, raised, closing, pick)
<1>1. PICK received \in Deliveries :
        \E rejected \in Rejections(received), closing \in SUBSET PostLocks(r),
           pick \in [Materials -> Categories] :
             SavedWith(r, NextMir, received, rejected,
                       [p \in Lines |-> Raised(r, received, rejected, p)], closing, pick)
  BY Zenon DEF PostSave, SavedWith
<1>2. PICK rejected \in Rejections(received), closing \in SUBSET PostLocks(r),
           pick \in [Materials -> Categories] :
             SavedWith(r, NextMir, received, rejected,
                       [p \in Lines |-> Raised(r, received, rejected, p)], closing, pick)
  BY <1>1
<1>3. received \in [Lines -> Nat] BY MirAssumption DEF Lines
<1>4. /\ rejected \in [Lines -> UNION {0..received[p] : p \in Lines}]
      /\ \A p \in Lines : rejected[p] <= received[p]
  BY DEF Rejections
<1>5. UNION {0..received[p] : p \in Lines} \subseteq Nat BY <1>3
<1>6. rejected \in [Lines -> Nat] BY <1>4, <1>5
<1>7. SaveTyped(r, NextMir, received, rejected,
                [p \in Lines |-> Raised(r, received, rejected, p)], closing, pick)
  BY <1>3, <1>4, <1>6 DEF SaveTyped
<1> QED BY <1>2, <1>7

(* What a save is, field by field.                                         *)
LEMMA SavedFields ==
  ASSUME IInv, NEW r \in Reqs, NEW m, NEW received, NEW rejected, NEW raised, NEW closing,
         NEW pick, SavedWith(r, m, received, rejected, raised, closing, pick),
         SaveTyped(r, m, received, rejected, raised, closing, pick)
  PROVE  /\ m \in MirIds /\ mir[m].status = "NONE" /\ Numbered' = 1..m
         /\ mir' \in MirTable
         /\ mir'[m].status = "POSTED" /\ mir'[m].received = received
         /\ mir'[m].rejected = rejected
         /\ \A k \in MirIds \ {m} : mir'[k] = mir[k]
         /\ mismatch' \in [MirIds -> [Lines -> [Kinds -> {"NONE", "OPEN", "RESOLVED", "VOID"}]]]
         /\ \A p \in Lines, k \in Kinds :
              mismatch'[m][p][k] = IF k \in Raised(r, received, rejected, p) THEN "OPEN" ELSE "NONE"
         /\ \A k \in MirIds \ {m} : mismatch'[k] = mismatch[k]
         /\ line' \in [Lines -> LineRows]
         /\ \A p \in Lines :
              /\ line'[p].made = line[p].made /\ line'[p].ordered = line[p].ordered
              /\ line'[p].material = line[p].material
         /\ \A p \in Lines \ closing : line'[p] = line[p]
         /\ \A p \in closing :
              /\ p \in Lines /\ line'[p].closed /\ line'[p].closedBy = m
              /\ "QTY_SHORT" \in Raised(r, received, rejected, p)
<1> USE DEF SavedWith, SaveTyped
<1>1. mir \in MirTable BY TypedMirs DEF IInv
<1>2. m = NextMir /\ m <= MaxMirs OBVIOUS
<1>3. m \in MirIds /\ mir[m].status = "NONE" /\ Numbered \union {m} = 1..m
  BY <1>1, <1>2, NextNumber DEF IInv, MirsOK
<1> DEFINE row == [status |-> "POSTED", received |-> received, rejected |-> rejected]
<1>4. row \in MirRows BY DEF MirRows
<1>5. /\ mir' \in MirTable /\ mir'[m] = row
      /\ \A k \in MirIds \ {m} : mir'[k] = mir[k]
  BY <1>1, <1>3, <1>4 DEF MirTable
<1>6. /\ mir'[m].status = "POSTED" /\ mir'[m].received = received
      /\ mir'[m].rejected = rejected
  <2>1. row.status = "POSTED" /\ row.received = received /\ row.rejected = rejected
    OBVIOUS
  <2> HIDE DEF row, SavedWith, SaveTyped
  <2> QED BY <1>5, <2>1
<1> HIDE DEF row
<1>17. Numbered' = 1..m
  <2>1. Numbered' = Numbered \union {m} BY <1>3, <1>5, <1>6 DEF Numbered
  <2> QED BY <1>3, <2>1
<1> DEFINE opened == [p \in Lines |-> [k \in Kinds |-> IF k \in raised[p] THEN "OPEN" ELSE "NONE"]]
<1>7. opened \in [Lines -> [Kinds -> {"NONE", "OPEN", "RESOLVED", "VOID"}]] OBVIOUS
<1>8. mismatch' = [mismatch EXCEPT ![m] = opened] OBVIOUS
<1>9. \A p \in Lines, k \in Kinds :
        opened[p][k] = IF k \in Raised(r, received, rejected, p) THEN "OPEN" ELSE "NONE"
  OBVIOUS
<1> HIDE DEF opened
<1>10. /\ mismatch' \in [MirIds -> [Lines -> [Kinds -> {"NONE", "OPEN", "RESOLVED", "VOID"}]]]
       /\ mismatch'[m] = opened
       /\ \A k \in MirIds \ {m} : mismatch'[k] = mismatch[k]
  BY <1>3, <1>7, <1>8 DEF IInv, TypeOK
<1>11. closing \subseteq Lines BY DEF PostLocks
<1>12. \A p \in Lines : line'[p] =
        IF p \in closing THEN [line[p] EXCEPT !.closed = TRUE, !.closedBy = m] ELSE line[p]
  OBVIOUS
<1>13. line' = [p \in Lines |-> line'[p]] OBVIOUS
<1>14. ASSUME NEW p \in Lines
       PROVE  /\ line'[p] \in LineRows
              /\ line'[p].made = line[p].made /\ line'[p].ordered = line[p].ordered
              /\ line'[p].material = line[p].material
              /\ p \in closing => line'[p].closed /\ line'[p].closedBy = m
  <2>1. line[p] \in LineRows BY TypedLine DEF IInv
  <2> HIDE DEF SavedWith, SaveTyped
  <2> QED BY <2>1, <1>3, <1>12 DEF LineRows
<1>15. line' \in [Lines -> LineRows] BY <1>13, <1>14
<1>16. \A p \in closing : "QTY_SHORT" \in Raised(r, received, rejected, p) BY <1>11
<1> HIDE DEF SavedWith, SaveTyped
<1> QED BY <1>3, <1>5, <1>6, <1>9, <1>10, <1>11, <1>12, <1>14, <1>15, <1>16, <1>17

LEMMA Saving ==
  ASSUME IInv, NEW r \in Reqs, NEW m, NEW received, NEW rejected, NEW raised, NEW closing,
         NEW pick, SavedWith(r, m, received, rejected, raised, closing, pick),
         SaveTyped(r, m, received, rejected, raised, closing, pick)
  PROVE  IInv'
<1>1. /\ m \in MirIds /\ mir[m].status = "NONE" /\ Numbered' = 1..m
      /\ mir' \in MirTable
      /\ mir'[m].status = "POSTED" /\ mir'[m].received = received
      /\ mir'[m].rejected = rejected
      /\ \A k \in MirIds \ {m} : mir'[k] = mir[k]
  BY SavedFields
<1>2. /\ mismatch' \in [MirIds -> [Lines -> [Kinds -> {"NONE", "OPEN", "RESOLVED", "VOID"}]]]
      /\ \A p \in Lines, k \in Kinds :
           mismatch'[m][p][k] = IF k \in Raised(r, received, rejected, p) THEN "OPEN" ELSE "NONE"
      /\ \A k \in MirIds \ {m} : mismatch'[k] = mismatch[k]
  BY SavedFields
<1>3. /\ line' \in [Lines -> LineRows]
      /\ \A p \in Lines :
           /\ line'[p].made = line[p].made /\ line'[p].ordered = line[p].ordered
           /\ line'[p].material = line[p].material
      /\ \A p \in Lines \ closing : line'[p] = line[p]
      /\ \A p \in closing :
           /\ p \in Lines /\ line'[p].closed /\ line'[p].closedBy = m
           /\ "QTY_SHORT" \in Raised(r, received, rejected, p)
  BY SavedFields
<1>4. /\ UNCHANGED <<order, sync, edits>>
      /\ post' = [post EXCEPT ![r] = NoPost]
      /\ category' = [k \in Materials |->
           IF k \in {line[p].material : p \in post[r].unfiled} THEN pick[k] ELSE category[k]]
      /\ \A p \in Lines : (received[p] > 0) <=> (p \in PostLocks(r))
  BY DEF SavedWith
<1>5. /\ received \in [Lines -> Nat] /\ rejected \in [Lines -> Nat]
      /\ \A p \in Lines : rejected[p] <= received[p]
      /\ closing \subseteq PostLocks(r)
      /\ pick \in [Materials -> Categories]
  BY DEF SaveTyped
<1>6. {"QTY_SHORT", "QTY_OVER", "QTY_REJECTED"} = Kinds BY DEF Kinds
<1>7. NoPost \in [busy: BOOLEAN, open: [Lines -> Nat], unfiled: SUBSET Lines]
  BY DEF NoPost
<1>8. /\ post' \in [Reqs -> [busy: BOOLEAN, open: [Lines -> Nat], unfiled: SUBSET Lines]]
      /\ post'[r] = NoPost
      /\ \A s \in Reqs \ {r} : post'[s] = post[s]
  BY <1>4, <1>7 DEF IInv, TypeOK
<1>9. /\ category' \in [Materials -> Categories \cup {Unfiled}]
      /\ \A k \in Materials : category[k] # Unfiled => category'[k] # Unfiled
  <2>1. Unfiled \notin Categories BY MirAssumption
  <2>2. \A k \in Materials : pick[k] \in Categories BY <1>5
  <2>3. \A k \in Materials : category'[k] \in {pick[k], category[k]} BY <1>4
  <2>4. \A k \in Materials : category[k] \in Categories \cup {Unfiled} BY DEF IInv, TypeOK
  <2>5. category' = [k \in Materials |-> category'[k]] BY <1>4
  <2> QED BY <2>1, <2>2, <2>3, <2>4, <2>5
<1>10. TypeOK' BY <1>1, <1>2, <1>3, <1>4, <1>8, <1>9 DEF IInv, TypeOK, MirTable, MirRows
<1>11. SyncOK' BY <1>3, <1>4, SyncKept DEF IInv
<1>12. MirsOK'
  <2>1. m \in 0..MaxMirs BY <1>1, MirAssumption DEF MirIds
  <2>2. NumberedUpTo' BY <1>1, <2>1 DEF NumberedUpTo
  <2>3. \A k \in MirIds, q \in Lines : mir'[k].rejected[q] <= mir'[k].received[q]
    BY <1>1, <1>5 DEF IInv, MirsOK
  <2> QED BY <2>2, <2>3 DEF MirsOK
<1>13. MismatchesFollowMir'
  <2>1. ASSUME NEW k \in MirIds \ {m}, NEW q \in Lines
        PROVE  /\ \A j \in Kinds : mismatch'[k][q][j] = "OPEN" => Posted(k)'
               /\ \A j \in Kinds : mismatch'[k][q][j] = "VOID" => mir'[k].status = "CANCELLED"
               /\ Posted(k)' /\ mir'[k].rejected[q] > 0 => mismatch'[k][q]["QTY_REJECTED"] # "NONE"
    BY <1>1, <1>2 DEF IInv, MismatchesFollowMir, Posted
  <2>2. ASSUME NEW q \in Lines
        PROVE  /\ Posted(m)'
               /\ \A j \in Kinds : mismatch'[m][q][j] # "VOID"
               /\ mir'[m].rejected[q] > 0 => mismatch'[m][q]["QTY_REJECTED"] # "NONE"
    <3>1. Posted(m)' BY <1>1 DEF Posted
    <3>2. \A j \in Kinds : mismatch'[m][q][j] # "VOID" BY <1>2
    <3>3. ASSUME mir'[m].rejected[q] > 0 PROVE mismatch'[m][q]["QTY_REJECTED"] # "NONE"
      <4>1. rejected[q] \in Nat /\ received[q] \in Nat /\ rejected[q] > 0 BY <1>1, <1>5, <3>3
      <4>2. received[q] > 0 BY <4>1, <1>5
      <4>3. q \in PostLocks(r) BY <4>2, <1>4
      <4>4. "QTY_REJECTED" \in Raised(r, received, rejected, q) BY <4>1, <4>3 DEF Raised
      <4> QED BY <4>4, <1>2, <1>6
    <3> QED BY <3>1, <3>2, <3>3
  <2> QED BY <2>1, <2>2 DEF MismatchesFollowMir
<1>14. ClosureHasItsMir'
  <2>1. ASSUME NEW q \in Lines, line'[q].closedBy # 0
        PROVE  /\ line'[q].closed
               /\ mir'[line'[q].closedBy].status = "POSTED"
               /\ mismatch'[line'[q].closedBy][q]["QTY_SHORT"] \in {"OPEN", "RESOLVED"}
    <3>1. CASE q \in closing BY <3>1, <1>1, <1>2, <1>3, <1>6
    <3>2. CASE q \notin closing
      <4>1. line'[q] = line[q] BY <3>2, <1>3
      <4>2. line[q].closed /\ mir[line[q].closedBy].status = "POSTED"
        BY <2>1, <4>1 DEF IInv, ClosureHasItsMir, Posted
      <4>3. line[q].closedBy \in MirIds BY <2>1, <4>1, TypedLine DEF IInv, LineRows
      <4>4. line[q].closedBy # m BY <4>2, <1>1
      <4> QED BY <2>1, <4>1, <4>2, <4>3, <4>4, <1>1, <1>2 DEF IInv, ClosureHasItsMir
    <3> QED BY <3>1, <3>2
  <2> QED BY <2>1 DEF ClosureHasItsMir, Posted
<1>15. PostLocks(r)' = {} BY <1>8 DEF PostLocks, NoPost
<1>16. \A s \in Reqs \ {r} : PostLocks(s)' = PostLocks(s) BY <1>8 DEF PostLocks
<1>17. SyncLocks' = SyncLocks BY <1>3, <1>4 DEF SyncLocks
<1>18. OneHolder' BY <1>15, <1>16, <1>17 DEF IInv, OneHolder
<1>19. \A s \in Reqs \ {r} : \A p \in PostLocks(s) :
         p \in Lines /\ p \notin PostLocks(r) /\ line'[p] = line[p]
  BY <1>3, <1>5 DEF IInv, OneHolder, PostLocks
<1>20. HeldOpen' BY <1>15, <1>16, <1>19 DEF IInv, HeldOpen, Open
<1>21. HeldRoom'
  <2>1. ASSUME NEW s \in Reqs \ {r}, NEW p \in PostLocks(s)
        PROVE  post'[s].open[p] <= OpenQty(p)'
    <3>1. received[p] \in Nat /\ rejected[p] \in Nat BY <1>5, <1>19
    <3>2. received[p] = 0 /\ rejected[p] = 0 BY <3>1, <1>4, <1>5, <1>19
    <3>3. Counts(mir[m], p) = 0 /\ Counts(mir'[m], p) = 0 BY <1>1, <3>2 DEF Counts
    <3>4. mir \in MirTable BY TypedMirs DEF IInv
    <3>5. Accepted(p) \in Int BY <3>4, <1>19, AcceptedInt
    <3>6. Accepted(p)' = Accepted(p)
      <4>1. Accepted(p)' = Accepted(p) - Counts(mir[m], p) + Counts(mir'[m], p)
        BY <1>1, <1>19, <3>4, AcceptedMoves
      <4> QED BY <4>1, <3>3, <3>5
    <3>7. OpenQty(p)' = OpenQty(p) BY <3>6, <1>19 DEF OpenQty
    <3> QED BY <3>7, <1>8 DEF IInv, HeldRoom
  <2> QED BY <1>15, <1>16, <2>1 DEF HeldRoom
<1>22. HeldFiled'
  <2>1. \A s \in Reqs \ {r} : \A p \in PostLocks(s) :
          line[p].material \in Materials /\ line'[p].material = line[p].material
    BY <1>19, TypedLine DEF IInv
  <2>2. ASSUME NEW s \in Reqs \ {r}, NEW p \in PostLocks(s)
        PROVE  p \in post'[s].unfiled \/ category'[line'[p].material] # Unfiled
    <3>1. p \in post[s].unfiled \/ category[line[p].material] # Unfiled
      BY DEF IInv, HeldFiled
    <3> QED BY <3>1, <2>1, <1>8, <1>9
  <2> QED BY <1>15, <1>16, <2>2 DEF HeldFiled
<1> QED BY <1>10, <1>11, <1>12, <1>13, <1>14, <1>18, <1>20, <1>21, <1>22 DEF IInv
-----------------------------------------------------------------------------
(* The projection.                                                         *)

(* Its steps up to the commit change nothing but what it has read and      *)
(* locked.                                                                 *)
LEMMA SyncStepped ==
  ASSUME IInv, UNCHANGED <<order, line, mir, mismatch, category, post, edits>>,
         SyncOK', \A p \in SyncLocks' \ SyncLocks : ~Locked(p)
  PROVE  IInv'
<1>1. TypeOK' BY DEF IInv, TypeOK, SyncOK, SyncRows
<1>2. MirsOK' BY DEF IInv, MirsOK, NumberedUpTo, Numbered
<1>3. MismatchesFollowMir' BY DEF IInv, MismatchesFollowMir, Posted
<1>4. ClosureHasItsMir' BY DEF IInv, ClosureHasItsMir, Posted
<1>5. \A r \in Reqs : PostLocks(r) \intersect SyncLocks' = {}
  BY UnlockedIsFree DEF IInv, OneHolder
<1>6. \A r \in Reqs : \A q \in PostLocks(r) : Open(q)' BY DEF IInv, HeldOpen, Open
<1>7. \A q \in Lines : Accepted(q)' \in Int /\ Accepted(q)' <= Accepted(q)
  BY AcceptedSame, AcceptedInt, TypedMirs DEF IInv
<1>8. OneHolder' /\ HeldOpen' /\ HeldRoom' /\ HeldFiled' BY <1>5, <1>6, <1>7, HeldKept
<1> QED BY <1>1, <1>2, <1>3, <1>4, <1>8 DEF IInv

LEMMA SyncStarted == ASSUME IInv, SyncStart PROVE IInv'
<1> USE DEF SyncStart
<1>1. PICK sheet \in Sheets, on \in BOOLEAN :
        sync' = [sync EXCEPT !.step = "check", !.sheet = sheet, !.on = on, !.seen = line]
  OBVIOUS
<1>2. sheet \in Seq(SheetRows) BY MirAssumption DEF Sheets, Lines
<1>3. sync \in SyncRows /\ line \in [Lines -> LineRows] BY DEF IInv, SyncOK, TypeOK
<1>4. /\ sync' \in SyncRows
      /\ sync'.step = "check" /\ sync'.seen = line /\ sync'.write = sync.write
      /\ sync'.runs = sync.runs
  BY <1>1, <1>2, <1>3 DEF SyncRows
<1>5. \A p \in Lines : sync.write[p] = "no" BY DEF IInv, SyncOK
<1>6. SyncOK'
  <2>1. sync'.runs < MaxSyncs BY <1>4
  <2>2. \A p \in Lines : sync'.seen[p].made = line'[p].made BY <1>4
  <2> QED BY <1>4, <1>5, <2>1, <2>2 DEF SyncOK
<1>7. SyncLocks' = SyncLocks BY <1>4 DEF SyncLocks
<1> QED BY <1>6, <1>7, SyncStepped

LEMMA SyncChecked == ASSUME IInv, SyncCheck PROVE IInv'
<1> USE DEF SyncCheck
<1> DEFINE p == sync.pos
<1>1. p \in Lines /\ sync.step = "check" OBVIOUS
<1>2. /\ sync \in SyncRows
      /\ sync.runs < MaxSyncs
      /\ \A q \in Lines : sync.seen[q].made = line[q].made
      /\ \A q \in Lines : sync.write[q] # "no" /\ ~line[q].made => Listed(q)
  BY <1>1 DEF IInv, SyncOK
<1>3. p + 1 \in 1..LineCount + 1 BY <1>1, MirAssumption DEF Lines
<1>4. CASE sync' = [sync EXCEPT !.step = "write", !.received = HasReceipts(p)] /\ sync.seen[p].made
  <2>1. HasReceipts(p) \in BOOLEAN BY DEF HasReceipts
  <2>2. /\ sync' \in SyncRows
        /\ sync'.step = "write" /\ sync'.pos = p /\ sync'.seen = sync.seen
        /\ sync'.write = sync.write /\ sync'.runs = sync.runs /\ sync'.sheet = sync.sheet
    BY <1>2, <1>4, <2>1 DEF SyncRows
  <2>3. SyncOK' BY <1>1, <1>2, <1>4, <2>2 DEF SyncOK, Listed
  <2>4. SyncLocks' = SyncLocks BY <2>2 DEF SyncLocks
  <2> QED BY <2>3, <2>4, SyncStepped
<1>5. CASE sync' = [sync EXCEPT !.write[p] = "plain", !.pos = p + 1] /\ Listed(p) /\ ~sync.seen[p].made
  <2> DEFINE w == [sync.write EXCEPT ![p] = "plain"]
  <2>5. /\ w \in [Lines -> {"no", "plain", "flagged"}]
        /\ \A q \in Lines \ {p} : w[q] = sync.write[q]
    BY <1>2 DEF SyncRows
  <2>6. sync' = [sync EXCEPT !.write = w, !.pos = p + 1] BY <1>5
  <2> HIDE DEF w
  <2>1. /\ sync' \in SyncRows
        /\ sync'.step = "check" /\ sync'.seen = sync.seen
        /\ \A q \in Lines \ {p} : sync'.write[q] = sync.write[q]
        /\ sync'.runs = sync.runs /\ sync'.sheet = sync.sheet
    BY <1>1, <1>2, <1>3, <2>5, <2>6 DEF SyncRows
  <2>2. SyncOK' BY <1>2, <1>5, <2>1 DEF SyncOK, Listed
  <2>3. ~line[p].made BY <1>1, <1>2, <1>5
  <2>4. SyncLocks' = SyncLocks BY <2>1, <2>3 DEF SyncLocks
  <2> QED BY <2>2, <2>4, SyncStepped
<1>6. CASE sync' = [sync EXCEPT !.pos = p + 1]
  <2>1. /\ sync' \in SyncRows
        /\ sync'.step = "check" /\ sync'.seen = sync.seen /\ sync'.write = sync.write
        /\ sync'.runs = sync.runs /\ sync'.sheet = sync.sheet
    BY <1>1, <1>2, <1>3, <1>6 DEF SyncRows
  <2>2. SyncOK' BY <1>2, <2>1 DEF SyncOK, Listed
  <2>3. SyncLocks' = SyncLocks BY <2>1 DEF SyncLocks
  <2> QED BY <2>2, <2>3, SyncStepped
<1> QED BY <1>4, <1>5, <1>6

LEMMA SyncWritten == ASSUME IInv, SyncWrite PROVE IInv'
<1> USE DEF SyncWrite
<1> DEFINE p == sync.pos
<1>1. p \in Lines /\ sync.step = "write" /\ ~Locked(p) /\ sync.seen[p].made
  BY DEF IInv, SyncOK
<1>2. /\ sync \in SyncRows
      /\ sync.runs < MaxSyncs
      /\ \A q \in Lines : sync.seen[q].made = line[q].made
      /\ \A q \in Lines : sync.write[q] # "no" /\ ~line[q].made => Listed(q)
  BY <1>1 DEF IInv, SyncOK
<1>3. p + 1 \in 1..LineCount + 1 BY <1>1, MirAssumption DEF Lines
<1>4. PICK how \in {"flagged", "plain"} :
        sync' = [sync EXCEPT !.step = "check", !.pos = p + 1, !.received = FALSE, !.write[p] = how]
  OBVIOUS
<1> DEFINE w == [sync.write EXCEPT ![p] = how]
<1>8. /\ w \in [Lines -> {"no", "plain", "flagged"}]
      /\ \A q \in Lines \ {p} : w[q] = sync.write[q]
  BY <1>2 DEF SyncRows
<1>9. sync' = [sync EXCEPT !.step = "check", !.pos = p + 1, !.received = FALSE, !.write = w]
  BY <1>4
<1> HIDE DEF w
<1>5. /\ sync' \in SyncRows
      /\ sync'.step = "check" /\ sync'.seen = sync.seen
      /\ \A q \in Lines \ {p} : sync'.write[q] = sync.write[q]
      /\ sync'.runs = sync.runs /\ sync'.sheet = sync.sheet
  BY <1>1, <1>2, <1>3, <1>8, <1>9 DEF SyncRows
<1>6. SyncOK' BY <1>1, <1>2, <1>5 DEF SyncOK, Listed
<1>7. SyncLocks' \subseteq SyncLocks \union {p} BY <1>5 DEF SyncLocks
<1> QED BY <1>1, <1>6, <1>7, SyncStepped

(* What the commit does to a line.                                         *)
LEMMA CommittedLine ==
  ASSUME IInv, SyncCommit, NEW p \in Lines
  PROVE  /\ line'[p] \in LineRows
         /\ line[p].made => /\ line'[p].made /\ line'[p].closed = line[p].closed
                            /\ line'[p].closedBy = line[p].closedBy
         /\ ~line[p].made => line'[p] = line[p] \/ line'[p].closedBy = 0
         /\ sync.write[p] = "no" => line'[p] = line[p]
<1> DEFINE row == line[p]
<1>1. row \in LineRows BY TypedLine DEF IInv
<1>2. sync \in SyncRows /\ sync.write[p] # "no" /\ ~row.made => Listed(p)
  BY DEF IInv, SyncOK
<1>3. sync \in SyncRows BY DEF IInv, SyncOK
<1>4. Listed(p) => sync.sheet[p] \in SheetRows
  <2>1. sync.sheet \in Seq(SheetRows) BY <1>3 DEF SyncRows
  <2>2. p \in Nat \ {0} BY MirAssumption DEF Lines
  <2> QED BY <2>1, <2>2 DEF Listed
<1>5. Listed(p) => sync.sheet[p].material \in Materials /\ sync.sheet[p].ordered \in Quantities
  BY <1>4 DEF SheetRows
<1>6. sync.seen[p] \in LineRows BY <1>3 DEF SyncRows
<1>7. line'[p] = CASE sync.write[p] = "no" -> line[p]
                   [] sync.write[p] # "no" /\ ~line[p].made -> Created(p)
                   [] sync.write[p] # "no" /\ line[p].made /\ Listed(p) -> Updated(p)
                   [] OTHER -> Retired(p)
  BY DEF SyncCommit
<1>8. CASE sync.write[p] = "no" BY <1>1, <1>7, <1>8
<1>9. CASE sync.write[p] # "no" /\ ~line[p].made
  <2>1. line'[p] = Created(p) BY <1>7, <1>9
  <2>2. Created(p) \in LineRows /\ Created(p).closedBy = 0
    BY <1>2, <1>3, <1>5, <1>9 DEF Created, LineRows, IInv, SyncOK
  <2> QED BY <1>9, <2>1, <2>2
<1>10. CASE sync.write[p] # "no" /\ line[p].made /\ Listed(p)
  <2>1. line'[p] = Updated(p) BY <1>7, <1>10
  <2>2. /\ Updated(p) \in LineRows /\ Updated(p).made = row.made
        /\ Updated(p).closed = row.closed /\ Updated(p).closedBy = row.closedBy
    BY <1>1, <1>5, <1>10 DEF Updated, LineRows
  <2> QED BY <1>10, <2>1, <2>2
<1>11. CASE sync.write[p] # "no" /\ line[p].made /\ ~Listed(p)
  <2>1. line'[p] = Retired(p) BY <1>7, <1>11
  <2>2. /\ Retired(p) \in LineRows /\ Retired(p).made = row.made
        /\ Retired(p).closed = row.closed /\ Retired(p).closedBy = row.closedBy
    BY <1>1, <1>6 DEF Retired, LineRows
  <2> QED BY <1>11, <2>1, <2>2
<1> QED BY <1>8, <1>9, <1>10, <1>11

LEMMA SyncCommitted == ASSUME IInv, SyncCommit PROVE IInv'
<1>1. \A p \in Lines :
        /\ line'[p] \in LineRows
        /\ line[p].made => /\ line'[p].made /\ line'[p].closed = line[p].closed
                           /\ line'[p].closedBy = line[p].closedBy
        /\ ~line[p].made => line'[p] = line[p] \/ line'[p].closedBy = 0
        /\ sync.write[p] = "no" => line'[p] = line[p]
  BY CommittedLine
<1>2. /\ sync.step = "check" /\ order' = sync.on
      /\ line' = [p \in Lines |-> line'[p]]
      /\ sync' = [NoSync(sync.runs + 1) EXCEPT !.seen = line']
      /\ UNCHANGED <<mir, mismatch, category, post, edits>>
  BY DEF SyncCommit
<1>3. line' \in [Lines -> LineRows] BY <1>1, <1>2
<1>4. sync \in SyncRows /\ sync.runs < MaxSyncs BY <1>2 DEF IInv, SyncOK
<1>5. /\ sync' \in SyncRows /\ sync'.step = "idle"
      /\ \A p \in Lines : sync'.write[p] = "no"
  <2>1. sync.runs + 1 \in 0..MaxSyncs BY <1>4, MirAssumption DEF SyncRows
  <2>2. 1 \in 1..LineCount + 1 BY MirAssumption
  <2>3. <<>> \in Seq(SheetRows) OBVIOUS
  <2>4. sync' = [step |-> "idle", sheet |-> <<>>, on |-> TRUE, seen |-> line', pos |-> 1,
                 received |-> FALSE, write |-> [p \in Lines |-> "no"], runs |-> sync.runs + 1]
    BY <1>2 DEF NoSync
  <2> QED BY <1>3, <2>1, <2>2, <2>3, <2>4 DEF SyncRows
<1>6. SyncOK' BY <1>5 DEF SyncOK
<1>7. order' \in BOOLEAN BY <1>2, <1>4 DEF SyncRows
<1>8. TypeOK' BY <1>2, <1>3, <1>5, <1>7 DEF IInv, TypeOK, SyncRows
<1>9. MirsOK' BY <1>2 DEF IInv, MirsOK, NumberedUpTo, Numbered
<1>10. MismatchesFollowMir' BY <1>2 DEF IInv, MismatchesFollowMir, Posted
<1>11. ClosureHasItsMir'
  <2>1. ASSUME NEW q \in Lines, line'[q].closedBy # 0
        PROVE  line'[q].closed = line[q].closed /\ line'[q].closedBy = line[q].closedBy
    BY <1>1, <2>1, TypedLine DEF IInv, LineRows
  <2> QED BY <1>2, <2>1 DEF IInv, ClosureHasItsMir, Posted
<1>12. SyncLocks' = {} BY <1>5 DEF SyncLocks
<1>13. \A r \in Reqs : \A q \in PostLocks(r) : q \in Lines /\ line'[q] = line[q]
  BY <1>1 DEF IInv, OneHolder, HeldOpen, Open, PostLocks, SyncLocks
<1>14. \A r \in Reqs : \A q \in PostLocks(r) : Open(q)' BY <1>13 DEF IInv, HeldOpen, Open
<1>15. \A q \in Lines : Accepted(q)' \in Int /\ Accepted(q)' <= Accepted(q)
  BY <1>2, AcceptedSame, AcceptedInt, TypedMirs DEF IInv
<1>16. OneHolder' /\ HeldOpen' /\ HeldRoom' /\ HeldFiled'
  BY <1>2, <1>12, <1>13, <1>14, <1>15, HeldKept
<1> QED BY <1>6, <1>8, <1>9, <1>10, <1>11, <1>16 DEF IInv
-----------------------------------------------------------------------------
LEMMA InitIInv == ASSUME Init PROVE IInv
<1> USE DEF Init
<1>1. PICK sheet \in Sheets : line = [p \in Lines |->
         [made |-> p <= Len(sheet), active |-> p <= Len(sheet),
          material |-> IF p <= Len(sheet) THEN sheet[p].material ELSE sheet[1].material,
          ordered |-> IF p <= Len(sheet) THEN sheet[p].ordered ELSE sheet[1].ordered,
          review |-> FALSE, closed |-> FALSE, closedBy |-> 0]]
  OBVIOUS
<1>2. PICK n \in Lines : sheet \in [1..n -> SheetRows] BY DEF Sheets
<1>3. n \in Nat \ {0} /\ Len(sheet) = n BY <1>2, MirAssumption DEF Lines
<1>4. \A p \in 1..n : sheet[p].material \in Materials /\ sheet[p].ordered \in Quantities
  BY <1>2 DEF SheetRows
<1>5. ASSUME NEW p \in Lines
      PROVE  line[p] \in LineRows /\ line[p].closedBy = 0
  <2>1. p \in Nat \ {0} BY MirAssumption DEF Lines
  <2>2. 1 \in 1..n /\ (p <= Len(sheet) => p \in 1..n) BY <1>3, <2>1
  <2> DEFINE listed == p <= Len(sheet)
             material == IF listed THEN sheet[p].material ELSE sheet[1].material
             ordered == IF listed THEN sheet[p].ordered ELSE sheet[1].ordered
  <2>3. material \in Materials /\ ordered \in Quantities /\ listed \in BOOLEAN
    BY <1>3, <1>4, <2>1, <2>2
  <2>4. line[p] = [made |-> listed, active |-> listed, material |-> material,
                   ordered |-> ordered, review |-> FALSE, closed |-> FALSE, closedBy |-> 0]
    BY <1>1
  <2> HIDE DEF material, ordered, listed
  <2> QED BY <2>3, <2>4 DEF LineRows
<1>6. line \in [Lines -> LineRows] BY <1>1, <1>5
<1>7. NoMir \in MirRows /\ NoMir.status = "NONE"
      /\ \A p \in Lines : NoMir.rejected[p] <= NoMir.received[p]
  BY DEF NoMir, MirRows
<1>8. mir \in MirTable /\ \A m \in MirIds : mir[m] = NoMir BY <1>7 DEF MirTable
<1>9. NoPost \in [busy: BOOLEAN, open: [Lines -> Nat], unfiled: SUBSET Lines]
  BY DEF NoPost
<1>10. post \in [Reqs -> [busy: BOOLEAN, open: [Lines -> Nat], unfiled: SUBSET Lines]]
       /\ \A r \in Reqs : PostLocks(r) = {}
  BY <1>9 DEF PostLocks, NoPost
<1>11. mismatch \in [MirIds -> [Lines -> [Kinds -> {"NONE", "OPEN", "RESOLVED", "VOID"}]]]
       /\ \A m \in MirIds, p \in Lines, k \in Kinds : mismatch[m][p][k] = "NONE"
  BY DEF NoMismatch
<1>12. category \in [Materials -> Categories \cup {Unfiled}] OBVIOUS
<1>13. /\ sync \in SyncRows /\ sync.step = "idle"
       /\ \A p \in Lines : sync.write[p] = "no"
  <2>1. 0 \in 0..MaxSyncs /\ 1 \in 1..LineCount + 1 BY MirAssumption
  <2>2. <<>> \in Seq(SheetRows) OBVIOUS
  <2>3. sync = [step |-> "idle", sheet |-> <<>>, on |-> TRUE, seen |-> line, pos |-> 1,
                received |-> FALSE, write |-> [p \in Lines |-> "no"], runs |-> 0]
    BY DEF NoSync
  <2> HIDE DEF Init
  <2> QED BY <1>6, <2>1, <2>2, <2>3 DEF SyncRows
<1>14. edits \in 0..MaxEdits /\ order \in BOOLEAN BY MirAssumption
<1>15. TypeOK BY <1>6, <1>8, <1>10, <1>11, <1>12, <1>13, <1>14 DEF TypeOK, MirTable, MirRows, SyncRows
<1>16. SyncOK BY <1>13 DEF SyncOK
<1>17. MirsOK
  <2>1. Numbered = {} BY <1>7, <1>8 DEF Numbered
  <2>2. 0 \in 0..MaxMirs /\ 1..0 = {} BY MirAssumption
  <2>3. NumberedUpTo BY <2>1, <2>2 DEF NumberedUpTo
  <2> QED BY <1>7, <1>8, <2>3 DEF MirsOK
<1>18. MismatchesFollowMir BY <1>7, <1>8, <1>11 DEF MismatchesFollowMir, Posted
<1>19. ClosureHasItsMir BY <1>5 DEF ClosureHasItsMir
<1>20. OneHolder /\ HeldOpen /\ HeldRoom /\ HeldFiled
  BY <1>10 DEF OneHolder, HeldOpen, HeldRoom, HeldFiled
<1> QED BY <1>15, <1>16, <1>17, <1>18, <1>19, <1>20 DEF IInv

LEMMA StutterKeeps == ASSUME IInv, UNCHANGED vars PROVE IInv'
<1> USE DEF vars
<1>1. TypeOK' BY DEF IInv, TypeOK
<1>2. MismatchesFollowMir' BY DEF IInv, MismatchesFollowMir, Posted
<1>3. ClosureHasItsMir' BY DEF IInv, ClosureHasItsMir, Posted
<1> QED BY <1>1, <1>2, <1>3, RestKept DEF IInv

LEMMA NextIInv == ASSUME IInv, [Next]_vars PROVE IInv'
<1>1. ASSUME NEW r \in Reqs, PostEvaluate(r) PROVE IInv' BY <1>1, Evaluated
<1>2. ASSUME NEW r \in Reqs, PostSave(r) PROVE IInv' BY <1>2, PostSaves, Saving
<1>3. ASSUME NEW m \in MirIds, CancelMir(m) PROVE IInv' BY <1>3, MirCancelled
<1>4. ASSUME NEW m \in MirIds, NEW p \in Lines, RecordRejection(m, p) PROVE IInv'
  BY <1>4, RejectionRecorded
<1>5. ASSUME NEW m \in MirIds, NEW p \in Lines, NEW k \in Kinds, ResolveMismatch(m, p, k)
      PROVE  IInv'
  BY <1>5, MismatchResolved
<1>6. ASSUME NEW p \in Lines, ClosePoLine(p) \/ ReopenPoLine(p) \/ ClearLineReview(p)
      PROVE  IInv'
  BY <1>6, LinesEdited
<1>7. ASSUME NEW k \in Materials, ChangeCategory(k) PROVE IInv' BY <1>7, CategoryChanged
<1>8. CASE SyncStart BY <1>8, SyncStarted
<1>9. CASE SyncCheck BY <1>9, SyncChecked
<1>10. CASE SyncWrite BY <1>10, SyncWritten
<1>11. CASE SyncCommit BY <1>11, SyncCommitted
<1>12. CASE UNCHANGED vars BY <1>12, StutterKeeps
<1> QED BY <1>1, <1>2, <1>3, <1>4, <1>5, <1>6, <1>7, <1>8, <1>9, <1>10, <1>11, <1>12 DEF Next

LEMMA AlwaysIInv == Spec => []IInv
<1>1. Init => IInv BY InitIInv
<1>2. IInv /\ [Next]_vars => IInv' BY NextIInv
<1> QED BY <1>1, <1>2, PTL DEF Spec

(* The rows of the order, its MIRs and their mismatches always hold what   *)
(* their columns can hold: what evaluate finds open is never negative.     *)
THEOREM EntryTyped == Spec => []TypeOK
<1>1. IInv => TypeOK BY DEF IInv
<1> QED BY <1>1, AlwaysIInv, PTL

(* No mismatch outlives its MIR, none is void before its MIR is cancelled, *)
(* and rejected goods always have one, however posts, cancellations,       *)
(* rejections and answers interleave.                                      *)
THEOREM MismatchesLiveWithMir == Spec => []MismatchesFollowMir
<1>1. IInv => MismatchesFollowMir BY DEF IInv
<1> QED BY <1>1, AlwaysIInv, PTL

(* A line closed in a MIR's name is reopened when that MIR is cancelled,   *)
(* also while projections rewrite the line and others close and reopen it. *)
THEOREM ClosuresHaveTheirMir == Spec => []ClosureHasItsMir
<1>1. IInv => ClosureHasItsMir BY DEF IInv
<1> QED BY <1>1, AlwaysIInv, PTL
-----------------------------------------------------------------------------
(* What one step may do.                                                   *)

(* A MIR is saved by post_mir only.                                        *)
LEMMA SavedByPost ==
  ASSUME IInv, [Next]_vars, NEW m \in MirIds, Saves(m)
  PROVE  \E r \in Reqs : PostSave(r)
<1>1. mir \in [MirIds -> MirRows] BY TypedMirs DEF IInv, MirTable
<1>2. mir[m].status = "NONE" /\ mir'[m].status = "POSTED" BY DEF Saves
<1>3. mir' # mir BY <1>2
<1>4. ASSUME NEW k \in MirIds, CancelMir(k) PROVE FALSE
  <2>1. Posted(k) /\ mir' = [mir EXCEPT ![k].status = "CANCELLED"] BY <1>4 DEF CancelMir
  <2>2. k # m BY <1>2, <2>1 DEF Posted
  <2>3. mir'[m] = mir[m] BY <1>1, <2>1, <2>2
  <2> QED BY <1>2, <2>3
<1>5. ASSUME NEW k \in MirIds, NEW p \in Lines, RecordRejection(k, p) PROVE FALSE
  <2>1. Posted(k) /\ \E total : mir' = [mir EXCEPT ![k].rejected[p] = total]
    BY <1>5 DEF RecordRejection
  <2>2. k # m BY <1>2, <2>1 DEF Posted
  <2>3. mir'[m] = mir[m] BY <1>1, <2>1, <2>2
  <2> QED BY <1>2, <2>3
<1> QED
  BY <1>3, <1>4, <1>5
  DEF Next, vars, PostEvaluate, ResolveMismatch, ClosePoLine, ReopenPoLine, ClearLineReview,
      ChangeCategory, SyncStart, SyncCheck, SyncWrite, SyncCommit

(* What is booked to a line is saved by the request that holds the line.   *)
LEMMA SavedByHolder ==
  ASSUME IInv, [Next]_vars, NEW m \in MirIds, NEW p \in Lines, Saves(m),
         mir'[m].received[p] > 0
  PROVE  \E r, received, rejected, raised, closing, pick :
           /\ r \in Reqs
           /\ SavedWith(r, m, received, rejected, raised, closing, pick)
           /\ SaveTyped(r, m, received, rejected, raised, closing, pick)
           /\ p \in PostLocks(r)
<1>1. PICK r \in Reqs : PostSave(r) BY SavedByPost
<1>2. PICK n, received, rejected, raised, closing, pick :
        /\ SavedWith(r, n, received, rejected, raised, closing, pick)
        /\ SaveTyped(r, n, received, rejected, raised, closing, pick)
  BY <1>1, PostSaves
<1>3. /\ mir'[n].received = received
      /\ \A k \in MirIds \ {n} : mir'[k] = mir[k]
  BY <1>2, SavedFields
<1>4. n = m BY <1>3 DEF Saves
<1>5. p \in PostLocks(r) BY <1>2, <1>3, <1>4 DEF SavedWith
<1> QED BY <1>2, <1>4, <1>5

LEMMA OnlyOpenLines ==
  ASSUME IInv, [Next]_vars, NEW m \in MirIds, NEW p \in Lines, Saves(m),
         mir'[m].received[p] > 0
  PROVE  line[p].made /\ line[p].active /\ ~line[p].review /\ ~line[p].closed
<1>1. PICK r \in Reqs : p \in PostLocks(r) BY SavedByHolder
<1> QED BY <1>1 DEF IInv, HeldOpen, Open

LEMMA OnlyFiledMaterials ==
  ASSUME IInv, [Next]_vars, NEW m \in MirIds, NEW p \in Lines, Saves(m),
         mir'[m].received[p] > 0
  PROVE  category'[line[p].material] # Unfiled
<1>1. PICK r, received, rejected, raised, closing, pick :
        /\ r \in Reqs
        /\ SavedWith(r, m, received, rejected, raised, closing, pick)
        /\ SaveTyped(r, m, received, rejected, raised, closing, pick)
        /\ p \in PostLocks(r)
  BY SavedByHolder
<1>2. line[p].material \in Materials BY TypedLine DEF IInv
<1>3. /\ p \in post[r].unfiled => category'[line[p].material] = pick[line[p].material]
      /\ category'[line[p].material] \in {pick[line[p].material], category[line[p].material]}
  BY <1>1, <1>2 DEF SavedWith
<1>4. pick[line[p].material] # Unfiled BY <1>1, <1>2, MirAssumption DEF SaveTyped
<1>5. p \in post[r].unfiled \/ category[line[p].material] # Unfiled
  BY <1>1 DEF IInv, HeldFiled
<1> QED BY <1>3, <1>4, <1>5

LEMMA OverIsFlagged ==
  ASSUME IInv, [Next]_vars, NEW m \in MirIds, NEW p \in Lines, Saves(m),
         mir'[m].received[p] > 0, Accepted(p)' > line[p].ordered
  PROVE  mismatch'[m][p]["QTY_OVER"] = "OPEN"
<1>1. PICK r, received, rejected, raised, closing, pick :
        /\ r \in Reqs
        /\ SavedWith(r, m, received, rejected, raised, closing, pick)
        /\ SaveTyped(r, m, received, rejected, raised, closing, pick)
        /\ p \in PostLocks(r)
  BY SavedByHolder
<1>2. /\ mir[m].status = "NONE" /\ mir' \in MirTable
      /\ mir'[m].status = "POSTED" /\ mir'[m].received = received
      /\ mir'[m].rejected = rejected
      /\ \A k \in MirIds \ {m} : mir'[k] = mir[k]
      /\ \A q \in Lines, k \in Kinds :
           mismatch'[m][q][k] = IF k \in Raised(r, received, rejected, q) THEN "OPEN" ELSE "NONE"
  BY <1>1, SavedFields
<1>3. mir \in MirTable BY TypedMirs DEF IInv
<1>4. received[p] \in Nat /\ rejected[p] \in Nat BY <1>1 DEF SaveTyped
<1>5. Counts(mir[m], p) = 0 /\ Counts(mir'[m], p) = received[p] - rejected[p]
  BY <1>2 DEF Counts
<1>6. Accepted(p)' = Accepted(p) - Counts(mir[m], p) + Counts(mir'[m], p)
  BY <1>2, <1>3, AcceptedMoves
<1>7. Accepted(p) \in Int /\ line[p].ordered \in Nat /\ post[r].open[p] \in Nat
  <2>1. Accepted(p) \in Int BY <1>3, AcceptedInt
  <2>2. line[p].ordered \in Nat BY TypedLine DEF IInv
  <2>3. post[r].open \in [Lines -> Nat] BY <1>1, TypedPost DEF IInv
  <2> QED BY <2>1, <2>2, <2>3
<1>8. post[r].open[p] <= line[p].ordered - Accepted(p)
  BY <1>1 DEF IInv, HeldRoom, OpenQty
<1>9. received[p] - rejected[p] > post[r].open[p]
  <2> DEFINE before == Accepted(p)
  <2>1. Accepted(p)' = before + (received[p] - rejected[p]) BY <1>4, <1>5, <1>6, <1>7
  <2>2. before + (received[p] - rejected[p]) > line[p].ordered BY <2>1
  <2>3. before \in Int /\ post[r].open[p] <= line[p].ordered - before BY <1>7, <1>8
  <2> HIDE DEF before
  <2> QED BY <1>4, <1>7, <2>2, <2>3
<1>10. "QTY_OVER" \in Raised(r, received, rejected, p)
  BY <1>1, <1>4, <1>7, <1>9 DEF Raised, QtyMismatch
<1> QED BY <1>2, <1>10 DEF Kinds

LEMMA PublishedByCommit ==
  ASSUME IInv, [Next]_vars, Publishes PROVE SyncCommit
<1>1. sync \in SyncRows BY DEF IInv, SyncOK
<1>2. sync.runs \in Int BY <1>1, MirAssumption DEF SyncRows
<1>3. sync'.runs # sync.runs BY <1>2 DEF Publishes
<1>4. ASSUME SyncStart PROVE FALSE
  <2>1. sync'.runs = sync.runs BY <1>1, <1>4 DEF SyncStart, SyncRows
  <2> QED BY <1>3, <2>1
<1>5. ASSUME SyncCheck PROVE FALSE
  <2>1. sync'.runs = sync.runs BY <1>1, <1>5 DEF SyncCheck, SyncRows
  <2> QED BY <1>3, <2>1
<1>6. ASSUME SyncWrite PROVE FALSE
  <2>1. sync'.runs = sync.runs BY <1>1, <1>6 DEF SyncWrite, SyncRows
  <2> QED BY <1>3, <2>1
<1> QED
  BY <1>3, <1>4, <1>5, <1>6
  DEF Next, vars, PostEvaluate, PostSave, CancelMir, RecordRejection, ResolveMismatch,
      ClosePoLine, ReopenPoLine, ClearLineReview, ChangeCategory

(* Goods are booked only to a line that can take them when the MIR         *)
(* commits: what evaluate saw under its lock cannot be closed, retired or  *)
(* put in review before the save.                                          *)
THEOREM OpenLinesOnly == Spec => NothingOnBlockedLine
<1>1. IInv /\ [Next]_vars =>
        [\A m \in MirIds, p \in Lines : Saves(m) /\ mir'[m].received[p] > 0 =>
           line[p].made /\ line[p].active /\ ~line[p].review /\ ~line[p].closed]_vars
  BY OnlyOpenLines
<1> QED BY <1>1, AlwaysIInv, PTL DEF Spec, NothingOnBlockedLine

(* No receipt takes a line over what was ordered without a mismatch for    *)
(* somebody to answer, whatever was cancelled or rejected since its check. *)
THEOREM OverReceiptsFlagged == Spec => OverReceiptFlagged
<1>1. IInv /\ [Next]_vars =>
        [\A m \in MirIds, p \in Lines :
           Saves(m) /\ mir'[m].received[p] > 0 /\ Accepted(p)' > line[p].ordered =>
             mismatch'[m][p]["QTY_OVER"] = "OPEN"]_vars
  BY OverIsFlagged
<1> QED BY <1>1, AlwaysIInv, PTL DEF Spec, OverReceiptFlagged

(* Goods are never booked to a material without a category, though the     *)
(* sheet re-points lines while a receipt is being entered.                 *)
THEOREM FiledMaterialsOnly == Spec => ReceivedIsFiled
<1>1. IInv /\ [Next]_vars =>
        [\A m \in MirIds, p \in Lines : Saves(m) /\ mir'[m].received[p] > 0 =>
           category'[line[p].material] # Unfiled]_vars
  BY OnlyFiledMaterials
<1> QED BY <1>1, AlwaysIInv, PTL DEF Spec, ReceivedIsFiled

(* A projection publishes lines as closed as it finds them when it         *)
(* commits, not as it read them.                                           *)
THEOREM ClosuresSurviveSync == Spec => SyncKeepsClosures
<1>1. IInv /\ [Next]_vars =>
        [Publishes => \A p \in Lines : line[p].made =>
           line'[p].closed = line[p].closed /\ line'[p].closedBy = line[p].closedBy]_vars
  BY PublishedByCommit, CommittedLine
<1> QED BY <1>1, AlwaysIInv, PTL DEF Spec, SyncKeepsClosures
=============================================================================
