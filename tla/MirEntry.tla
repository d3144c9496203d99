------------------------------ MODULE MirEntry ------------------------------
(***************************************************************************)
(* Material receipts against one purchase order, and the projection that   *)
(* rewrites that order's lines from the PO sheet underneath them           *)
(* (apps/services/mir_service.py, procurement_sync.py, materials.py).      *)
(*                                                                         *)
(* A post row-locks its PO lines, reads what is open on them, and saves in *)
(* a later step; a projection reads the lines and their receipts without a *)
(* lock and locks a line only when it writes it.  Both are transactions:   *)
(* nobody sees their writes before the commit.  The other operations take  *)
(* their locks, decide and write with nothing in between, so each is one   *)
(* step.  Whether RM stock lets a MIR be cancelled or a rejection be       *)
(* recorded is StockLedger's subject: here either may be refused at will,  *)
(* by not being taken.                                                     *)
(***************************************************************************)
EXTENDS StockRules

CONSTANTS
  LineCount,   \* positions on the purchase order
  Materials,   \* what a line can be for: description, item code and unit
  Categories,  \* the material categories of the reference list
  Unfiled,     \* a material with no category yet
  Quantities,  \* what the PO sheet can say was ordered; 0: it gives none
  Deliveries,  \* bound: what one MIR may bring, by position
  Reqs,        \* posts that may be in flight together
  MaxMirs,     \* bound: MIRs posted in a behaviour
  MaxSyncs,    \* bound: projections in a behaviour
  MaxEdits     \* bound: resolutions and changes to lines and materials people make

ASSUME MirAssumption ==
  /\ LineCount \in Nat \ {0}
  /\ Deliveries \subseteq [1..LineCount -> Nat]
  /\ MaxMirs \in Nat /\ MaxSyncs \in Nat /\ MaxEdits \in Nat
  /\ Quantities \subseteq Nat
  /\ Unfiled \notin Categories

Lines  == 1..LineCount
MirIds == 1..MaxMirs
Kinds  == {"QTY_SHORT", "QTY_OVER", "QTY_REJECTED"}

VARIABLES
  order,     \* PurchaseOrder.is_active
  line,      \* the PurchaseOrderLine rows, by position
  mir,       \* the Mir rows with their MirLines, by number
  mismatch,  \* the MirMismatch rows' status, by MIR, position and kind
  category,  \* Material.category
  post,      \* each request's post_mir transaction
  sync,      \* the projection's transaction
  edits      \* bound: how many of the steps MaxEdits counts have been taken

vars == <<order, line, mir, mismatch, category, post, sync, edits>>

LineRows == [made: BOOLEAN, material: Materials, ordered: Quantities, active: BOOLEAN,
             review: BOOLEAN, closed: BOOLEAN, closedBy: {0} \cup MirIds]
SheetRows == [material: Materials, ordered: Quantities]
\* The rows of an order in the sheet, in order.
Sheets == UNION {[1..n -> SheetRows] : n \in Lines}

\* `open` is what evaluate found open on the lines of the MIR, 0 on the others.
NoPost == [busy |-> FALSE, open |-> [p \in Lines |-> 0], unfiled |-> {}]
NoMir  == [status |-> "NONE", received |-> [p \in Lines |-> 0], rejected |-> [p \in Lines |-> 0]]
NoMismatch == [p \in Lines |-> [k \in Kinds |-> "NONE"]]

TypeOK ==
  /\ order \in BOOLEAN
  /\ line \in [Lines -> LineRows]
  /\ mir \in [MirIds -> [status: {"NONE", "POSTED", "CANCELLED"},
                         received: [Lines -> Nat], rejected: [Lines -> Nat]]]
  /\ mismatch \in [MirIds -> [Lines -> [Kinds -> {"NONE", "OPEN", "RESOLVED", "VOID"}]]]
  /\ category \in [Materials -> Categories \cup {Unfiled}]
  /\ post \in [Reqs -> [busy: BOOLEAN, open: [Lines -> Nat], unfiled: SUBSET Lines]]
  /\ sync.step \in {"idle", "check", "write"}
  /\ sync.pos \in 1..LineCount + 1
  /\ sync.write \in [Lines -> {"no", "plain", "flagged"}]
  /\ sync.runs \in 0..MaxSyncs
  /\ edits \in 0..MaxEdits

-----------------------------------------------------------------------------
(* Reading. *)

Posted(m) == mir[m].status = "POSTED"

\* accepted_by_line: summed from posted MIRs each time, stored nowhere.
Accepted(p) ==
  Total([m \in MirIds |-> IF Posted(m) THEN mir[m].received[p] - mir[m].rejected[p] ELSE 0],
        MaxMirs)

OpenQty(p) == line[p].ordered - Accepted(p)

\* line_state: what blocks a line, for a domestic order at its own plant.
Receivable(p) ==
  /\ line[p].made
  /\ order
  /\ line[p].active
  /\ ~line[p].review
  /\ ~line[p].closed
  /\ line[p].ordered > 0
  /\ OpenQty(p) > 0

\* _has_receipts.
HasReceipts(p) == \E m \in MirIds : Posted(m) /\ mir[m].received[p] > 0

Numbered == {m \in MirIds : mir[m].status # "NONE"}
NextMir  == Cardinality(Numbered) + 1

-----------------------------------------------------------------------------
(* Row locks on PO lines. *)

PostLocks(r) == {p \in Lines : post[r].open[p] > 0}
SyncLocks    == {p \in Lines : sync.write[p] # "no" /\ line[p].made}
Locked(p)    == p \in SyncLocks \/ \E r \in Reqs : p \in PostLocks(r)

-----------------------------------------------------------------------------
(* Posting a MIR. *)

\* Mutant: evaluate without the lock, on lines another request holds.
MayLock_Always(want) == TRUE

\* The rows evaluate(lock=True) waits for.
MayLock(want) == \A p \in want : ~Locked(p)

\* Mutant: a line is not checked before it is received against.
Refuses_Never(want) == FALSE

\* evaluate's refusal of a line that cannot take a receipt.
Refuses(want) == \E p \in want : ~Receivable(p)

\* post_mir up to evaluate: lock the lines, read them, what is accepted on
\* them, and which of their materials have a category.  A refusal changes nothing.
PostEvaluate(r) ==
  /\ ~post[r].busy
  /\ NextMir <= MaxMirs
  /\ \E want \in SUBSET Lines \ {{}} :
       /\ MayLock(want)
       /\ ~Refuses(want)
       /\ post' = [post EXCEPT ![r] =
            [busy    |-> TRUE,
             open    |-> [p \in Lines |-> IF p \in want THEN OpenQty(p) ELSE 0],
             unfiled |-> {p \in want : category[line[p].material] = Unfiled}]]
  /\ UNCHANGED <<order, line, mir, mismatch, category, sync, edits>>

\* The quantity mismatch a line raises.
QtyMismatch(accepted, open) ==
  CASE accepted < open -> {"QTY_SHORT"}
    [] accepted > open -> {"QTY_OVER"}
    [] OTHER -> {}

Raised(r, received, rejected, p) ==
  IF p \notin PostLocks(r) THEN {}
  ELSE QtyMismatch(received[p] - rejected[p], post[r].open[p])
         \cup IF rejected[p] > 0 THEN {"QTY_REJECTED"} ELSE {}

\* What the gate may reject of a delivery.
Rejections(received) ==
  {f \in [Lines -> UNION {0..received[p] : p \in Lines}] : \A p \in Lines : f[p] <= received[p]}

\* The rest of post_mir, to its commit: the MIR and its lines, set_category on
\* each line whose material evaluate saw unfiled (the last one stays), the
\* mismatches against the open quantity evaluate read, and the lines a short
\* receipt closes.  What was received and why is the payload's: evaluate's
\* checks of it read no state, so it is chosen here.
PostSave(r) ==
  LET m    == NextMir
      want == PostLocks(r)
  IN
  /\ post[r].busy
  /\ m <= MaxMirs
  /\ \E received \in Deliveries : \E rejected \in Rejections(received), closing \in SUBSET want,
        pick \in [Materials -> Categories] :
       LET raised == [p \in Lines |-> Raised(r, received, rejected, p)]
           files  == {line[p].material : p \in post[r].unfiled}
       IN
       /\ \A p \in Lines : (received[p] > 0) <=> (p \in want)
       /\ \A p \in closing : "QTY_SHORT" \in raised[p]
       /\ mir' = [mir EXCEPT ![m] =
            [status |-> "POSTED", received |-> received, rejected |-> rejected]]
       /\ mismatch' = [mismatch EXCEPT ![m] =
            [p \in Lines |-> [k \in Kinds |-> IF k \in raised[p] THEN "OPEN" ELSE "NONE"]]]
       /\ line' = [p \in Lines |->
            IF p \in closing THEN [line[p] EXCEPT !.closed = TRUE, !.closedBy = m]
            ELSE line[p]]
       /\ category' = [k \in Materials |-> IF k \in files THEN pick[k] ELSE category[k]]
  /\ post' = [post EXCEPT ![r] = NoPost]
  /\ UNCHANGED <<order, sync, edits>>

-----------------------------------------------------------------------------
(* What people do to posted MIRs and to lines. *)

\* Mutant: the lines the MIR closed stay closed.
ReopenedBy_None(m) == {}

\* The lines cancel_mir reopens.
ReopenedBy(m) == {p \in Lines : line[p].closed /\ line[p].closedBy = m}

\* Mutant: a cancelled MIR's open mismatches are left for somebody to answer.
Voided_Kept(status) == status

\* The status a mismatch of a cancelled MIR is left with.
Voided(status) == IF status = "OPEN" THEN "VOID" ELSE status

Reopen(row) == [row EXCEPT !.closed = FALSE, !.closedBy = 0]

\* cancel_mir.  It locks the MIR, and the lines it reopens; not the others.
CancelMir(m) ==
  /\ Posted(m)
  /\ \A p \in ReopenedBy(m) : ~Locked(p)
  /\ mir' = [mir EXCEPT ![m].status = "CANCELLED"]
  /\ mismatch' = [mismatch EXCEPT ![m] =
       [p \in Lines |-> [k \in Kinds |-> Voided(mismatch[m][p][k])]]]
  /\ line' = [p \in Lines |-> IF p \in ReopenedBy(m) THEN Reopen(line[p]) ELSE line[p]]
  /\ UNCHANGED <<order, category, post, sync, edits>>

\* record_rejection: a new, higher total; its mismatch opens, or opens again.
RecordRejection(m, p) ==
  /\ Posted(m)
  /\ \E total \in mir[m].rejected[p] + 1 .. mir[m].received[p] :
       mir' = [mir EXCEPT ![m].rejected[p] = total]
  /\ mismatch' = [mismatch EXCEPT ![m][p]["QTY_REJECTED"] = "OPEN"]
  /\ UNCHANGED <<order, line, category, post, sync, edits>>

Edit == edits < MaxEdits /\ edits' = edits + 1

\* resolve_mismatch's guard.
CanResolve(status) == status = "OPEN"

ResolveMismatch(m, p, k) ==
  /\ CanResolve(mismatch[m][p][k])
  /\ mismatch' = [mismatch EXCEPT ![m][p][k] = "RESOLVED"]
  /\ Edit
  /\ UNCHANGED <<order, line, mir, category, post, sync>>

\* close_po_line.
ClosePoLine(p) ==
  /\ line[p].made /\ ~Locked(p)
  /\ ~line[p].closed
  /\ line' = [line EXCEPT ![p].closed = TRUE, ![p].closedBy = 0]
  /\ Edit
  /\ UNCHANGED <<order, mir, mismatch, category, post, sync>>

\* reopen_po_line: whoever closed it.
ReopenPoLine(p) ==
  /\ line[p].made /\ ~Locked(p)
  /\ line[p].closed
  /\ line' = [line EXCEPT ![p] = Reopen(@)]
  /\ Edit
  /\ UNCHANGED <<order, mir, mismatch, category, post, sync>>

\* clear_line_review.
ClearLineReview(p) ==
  /\ line[p].made /\ ~Locked(p)
  /\ line[p].review
  /\ line' = [line EXCEPT ![p].review = FALSE]
  /\ Edit
  /\ UNCHANGED <<order, mir, mismatch, category, post, sync>>

\* change_category.
ChangeCategory(k) ==
  /\ \E c \in Categories \ {category[k]} : category' = [category EXCEPT ![k] = c]
  /\ Edit
  /\ UNCHANGED <<order, line, mir, mismatch, post, sync>>

-----------------------------------------------------------------------------
(* The projection of the PO sheet. *)

NoSync(runs) == [step |-> "idle", sheet |-> <<>>, on |-> TRUE, seen |-> line, pos |-> 1,
                 received |-> FALSE, write |-> [p \in Lines |-> "no"], runs |-> runs]

Listed(p)  == p <= Len(sync.sheet)
Changes(p) ==
  /\ Listed(p)
  /\ \/ sync.seen[p].material # sync.sheet[p].material
     \/ sync.seen[p].ordered # sync.sheet[p].ordered
     \/ ~sync.seen[p].active
Retires(p) == ~Listed(p) /\ sync.seen[p].made /\ sync.seen[p].active

\* What write_lines flags: the line becomes something else, or goes, after receipts.
Flags(p) ==
  /\ sync.received
  /\ Listed(p) => sync.seen[p].material # sync.sheet[p].material

\* project_plant_orders reads the order and its lines: no lock.
SyncStart ==
  /\ sync.step = "idle"
  /\ sync.runs < MaxSyncs
  /\ \E sheet \in Sheets, on \in BOOLEAN :
       sync' = [sync EXCEPT !.step = "check", !.sheet = sheet, !.on = on, !.seen = line]
  /\ UNCHANGED <<order, line, mir, mismatch, category, post, edits>>

\* write_lines at one position: nothing to do, a new line, or a change, for
\* which it reads whether the line has receipts: no lock.
SyncCheck ==
  LET p == sync.pos IN
  /\ sync.step = "check"
  /\ p \in Lines
  /\ sync' =
       IF sync.seen[p].made /\ (Changes(p) \/ Retires(p))
         THEN [sync EXCEPT !.step = "write", !.received = HasReceipts(p)]
       ELSE IF Listed(p) /\ ~sync.seen[p].made
         THEN [sync EXCEPT !.write[p] = "plain", !.pos = p + 1]
       ELSE [sync EXCEPT !.pos = p + 1]
  /\ UNCHANGED <<order, line, mir, mismatch, category, post, edits>>

\* line.save(update_fields=...): the UPDATE waits for the row's lock and keeps it.
SyncWrite ==
  LET p == sync.pos IN
  /\ sync.step = "write"
  /\ ~Locked(p)
  /\ sync' = [sync EXCEPT !.step = "check", !.pos = p + 1, !.received = FALSE,
                          !.write[p] = IF Flags(p) THEN "flagged" ELSE "plain"]
  /\ UNCHANGED <<order, line, mir, mismatch, category, post, edits>>

\* Mutant: the row is saved as it was read.
Updated_WholeRow(p) ==
  [sync.seen[p] EXCEPT !.material = sync.sheet[p].material, !.ordered = sync.sheet[p].ordered,
                       !.active = TRUE, !.review = @ \/ sync.write[p] = "flagged"]

\* A changed line: only the fields the sheet changed, and the flag when it is raised.
Updated(p) ==
  [line[p] EXCEPT !.material = sync.sheet[p].material, !.ordered = sync.sheet[p].ordered,
                  !.active = TRUE, !.review = @ \/ sync.write[p] = "flagged"]

\* A retired line: the review flag is written too, as it was read.
Retired(p) ==
  [line[p] EXCEPT !.active = FALSE, !.review = sync.seen[p].review \/ sync.write[p] = "flagged"]

Created(p) ==
  [made |-> TRUE, material |-> sync.sheet[p].material, ordered |-> sync.sheet[p].ordered,
   active |-> TRUE, review |-> FALSE, closed |-> FALSE, closedBy |-> 0]

SyncCommit ==
  /\ sync.step = "check"
  /\ sync.pos = LineCount + 1
  /\ order' = sync.on
  /\ line' = [p \in Lines |->
       CASE sync.write[p] = "no"  -> line[p]
         [] sync.write[p] # "no" /\ ~line[p].made -> Created(p)
         [] sync.write[p] # "no" /\ line[p].made /\ Listed(p) -> Updated(p)
         [] OTHER -> Retired(p)]
  /\ sync' = [NoSync(sync.runs + 1) EXCEPT !.seen = line']
  /\ UNCHANGED <<mir, mismatch, category, post, edits>>

-----------------------------------------------------------------------------

\* An order of the sheet as its first projection leaves it.
Init ==
  /\ order = TRUE
  /\ \E sheet \in Sheets :
       line = [p \in Lines |->
         [made |-> p <= Len(sheet), active |-> p <= Len(sheet),
          material |-> IF p <= Len(sheet) THEN sheet[p].material ELSE sheet[1].material,
          ordered |-> IF p <= Len(sheet) THEN sheet[p].ordered ELSE sheet[1].ordered,
          review |-> FALSE, closed |-> FALSE, closedBy |-> 0]]
  /\ mir = [m \in MirIds |-> NoMir]
  /\ mismatch = [m \in MirIds |-> NoMismatch]
  /\ category = [k \in Materials |-> Unfiled]
  /\ post = [r \in Reqs |-> NoPost]
  /\ sync = NoSync(0)
  /\ edits = 0

Next ==
  \/ \E r \in Reqs : PostEvaluate(r) \/ PostSave(r)
  \/ \E m \in MirIds : CancelMir(m)
  \/ \E m \in MirIds, p \in Lines : RecordRejection(m, p)
  \/ \E m \in MirIds, p \in Lines, k \in Kinds : ResolveMismatch(m, p, k)
  \/ \E p \in Lines : ClosePoLine(p) \/ ReopenPoLine(p) \/ ClearLineReview(p)
  \/ \E k \in Materials : ChangeCategory(k)
  \/ SyncStart \/ SyncCheck \/ SyncWrite \/ SyncCommit

Spec == Init /\ [][Next]_vars

-----------------------------------------------------------------------------
(* Properties. *)

\* The steps that post a MIR, and the ones that publish a projection.
Saves(m)  == mir[m].status = "NONE" /\ mir'[m].status = "POSTED"
Publishes == sync'.runs > sync.runs

\* A line closed in a MIR's name is closed by a posted MIR that really was
\* short on it: cancelling the MIR reopens the line, and nobody is left
\* waiting for a manager to reopen a line that no receipt closes (post_mir,
\* cancel_mir, close_po_line, reopen_po_line).
ClosureHasItsMir ==
  \A p \in Lines : line[p].closedBy # 0 =>
    /\ line[p].closed
    /\ Posted(line[p].closedBy)
    /\ mismatch[line[p].closedBy][p]["QTY_SHORT"] \in {"OPEN", "RESOLVED"}

\* Mismatches live and die with their MIR: none waits for an answer on a
\* cancelled MIR, none is void on a posted one, and goods rejected, at the
\* gate or weeks later, are never without one (post_mir, cancel_mir,
\* resolve_mismatch, record_rejection).
MismatchesFollowMir ==
  \A m \in MirIds, p \in Lines :
    /\ \A k \in Kinds : mismatch[m][p][k] = "OPEN" => Posted(m)
    /\ \A k \in Kinds : mismatch[m][p][k] = "VOID" => mir[m].status = "CANCELLED"
    /\ Posted(m) /\ mir[m].rejected[p] > 0 => mismatch[m][p]["QTY_REJECTED"] # "NONE"

\* A MIR is saved only on lines that can still be received against when it
\* commits: no line closed, retired or put in review after evaluate looked
\* has goods booked to it (post_mir's lock against close_po_line and write_lines).
NothingOnBlockedLine ==
  [][\A m \in MirIds, p \in Lines : Saves(m) /\ mir'[m].received[p] > 0 =>
       line[p].made /\ line[p].active /\ ~line[p].review /\ ~line[p].closed]_vars

\* A receipt that takes a line's accepted quantity over what was ordered is
\* saved with an open QTY_OVER mismatch, whatever other posts, cancellations,
\* rejections and sheet changes came between its check and its save (post_mir).
OverReceiptFlagged ==
  [][\A m \in MirIds, p \in Lines :
       Saves(m) /\ mir'[m].received[p] > 0 /\ Accepted(p)' > line[p].ordered =>
         mismatch'[m][p]["QTY_OVER"] = "OPEN"]_vars

\* Goods are never booked to a material without a category: what evaluate
\* saw filed, or the clerk filed, is what the line is for when the MIR commits,
\* though the sheet re-points lines and categories are read without a lock
\* (evaluate, set_category).
ReceivedIsFiled ==
  [][\A m \in MirIds, p \in Lines : Saves(m) /\ mir'[m].received[p] > 0 =>
       category'[line[p].material] # Unfiled]_vars

\* Publishing the sheet never closes or reopens a line: a short-close
\* committed while the projection ran is still there after it (write_lines).
SyncKeepsClosures ==
  [][Publishes => \A p \in Lines : line[p].made =>
       line'[p].closed = line[p].closed /\ line'[p].closedBy = line[p].closedBy]_vars
=============================================================================
