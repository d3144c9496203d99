----------------------------- MODULE PlantMatch -----------------------------
(***************************************************************************)
(* One plant's PO lines, its MIR rows and run_full_match(), with the       *)
(* decisions people make about which receipts a line counts: a pin, or     *)
(* receipts added to and removed from the line by hand.                    *)
(*                                                                         *)
(* run_full_match() is one transaction under a lock of its plant.  It      *)
(* reads the sheets and the decisions first and writes the match rows      *)
(* last, so its stages are steps over local variables; sheets and receipt  *)
(* decisions that change meanwhile are for the next run and change here    *)
(* between runs.  A line is its row id, which is also its place in its     *)
(* order: rows are updated in place and only the last ones of an order are *)
(* ever deleted (sync_line_items).                                         *)
(***************************************************************************)
EXTENDS Assignment

(* world is a record of what the sheets say: of a line its order, desc,    *)
(* qty, rate, and for imports its Bill of Entry (boe) and Bill of Lading   *)
(* (bill); of an order its vendor; of a row its doc, the order it cites,   *)
(* party, material, received quantity, price and the Bill of Entry it is   *)
(* booked on; fabrics are materials that name a fabric specification,      *)
(* twoOfThree is the plant whose rows need any two of the three votes,     *)
(* oneUnit says whether the quantities can be split at all.                *)

CONSTANTS
  Docs, NoDoc,     \* MIR numbers; NoDoc is the blank one: "not received"
  Orders, Nothing, \* PO numbers; Nothing is an empty field, or no line at all
  Materials,       \* descriptions
  Worlds,          \* the sheets a behaviour may start from
  MaxChanges       \* bound on decisions and sheet changes together

ASSUME WorldAssumption ==
  NoDoc \notin Docs /\ \A w \in Worlds : w.doc \in [Rows -> Docs]

VARIABLES
  world,           \* what the sheets say and never changes here
  desc,            \* description of each line, Nothing where there is no line
  active,          \* orders with PurchaseOrder.is_active
  sheets,
  pins, edits,     \* ManualMirMatch per line, ManualReceiptEdit per line and MIR
  clock,           \* orders the decisions by their updated_at
  stage, todo,     \* where run_full_match() stands
  assigned, claimed, pinned, duePins, dueAdds, added, sharedPins, sharedAdds,
  byBoe, byOrder, demoted, unfilled    \* its locals, by their names there

sheetVars == <<world, desc, active, sheets>>
decisionVars == <<pins, edits, clock>>
runVars == <<assigned, claimed, pinned, duePins, dueAdds, added, sharedPins,
             sharedAdds, byBoe, byOrder, demoted, unfilled>>
vars == <<sheetVars, decisionVars, stage, todo, runVars>>

\* A match: its primary row, every row it counts, and whether it counts only a
\* share of them (receipt_share).
Counting(main, rows, part) == [main |-> main, rows |-> rows, part |-> part]
NoMatch == Counting(NoRow, {}, FALSE)
NoPin == [at |-> 0, doc |-> NoDoc, shared |-> FALSE, desc |-> Nothing]
NoEdit == [at |-> 0, act |-> "none", shared |-> FALSE, desc |-> Nothing]
-----------------------------------------------------------------------------
(* The evidence for a line and a row.                                      *)

OrderOf(l) == world.order[l]
LinesOf(o) == {l \in Lines : OrderOf(l) = o}
Active == {l \in Lines : desc[l] # Nothing /\ OrderOf(l) \in active}
RowsOf(d) == {r \in Rows : world.doc[r] = d}

Cites(l, r) == world.cites[r] = OrderOf(l)
SameParty(l, r) == world.party[r] = world.vendor[OrderOf(l)]
SameMaterial(l, r) == world.material[r] = desc[l]
SameMoney(l, r) == world.qty[l] = world.received[r]
Contradicts(l, r) == ~Cites(l, r) /\ world.cites[r] \in active
FabricContradicts(l, r) ==
  /\ \E k \in Active \ {l} : OrderOf(k) = OrderOf(l)
  /\ {desc[l], world.material[r]} \subseteq world.fabrics /\ ~SameMaterial(l, r)

\* _identification_pool: the vendor and one of the other two, or any two.
Identified(l, r) ==
  /\ ~Contradicts(l, r)
  /\ \/ SameParty(l, r) /\ (SameMaterial(l, r) \/ Cites(l, r))
     \/ world.twoOfThree /\ SameMaterial(l, r) /\ Cites(l, r)

\* _pair_weight: the evidence tier decides, money and material break ties
\* within it.  A row a person named ranks above every automatic tier.
WithinTier(l, r) ==
  (IF SameMoney(l, r) THEN 5 ELSE 0) + (IF SameMaterial(l, r) THEN 2 ELSE 0)
Tier(l, r) ==
  IF Cites(l, r) THEN (IF world.twoOfThree /\ SameParty(l, r) THEN 4 ELSE 3)
  ELSE IF SameMoney(l, r) THEN 2 ELSE 0
PairWeight(l, r) == 1 + 10 * Tier(l, r) + WithinTier(l, r)
ForcedWeight(l, r) == 41 + WithinTier(l, r)

Weights == [l \in Lines |-> [r \in Rows |-> PairWeight(l, r)]]
ForcedWeights == [l \in Lines |-> [r \in Rows |-> ForcedWeight(l, r)]]

\* The heaviest row of a set, the first of equals (_best_by_evidence) or the
\* last (claim_pin, claim_add).
FirstBest(weight, rows) ==
  CHOOSE r \in rows : \A s \in rows \ {r} :
    weight[r] > weight[s] \/ (weight[r] = weight[s] /\ r < s)
IsLastBest(weight, rows, r) ==
  \A s \in rows \ {r} : weight[r] > weight[s] \/ (weight[r] = weight[s] /\ r > s)

\* The line a row identifies with best: material first, then weight, then id.
BestLine(weight, lines, r) ==
  CHOOSE l \in lines : \A k \in lines \ {l} :
    LET m(x) == IF SameMaterial(x, r) THEN 1 ELSE 0 IN
    \/ m(l) > m(k)
    \/ m(l) = m(k) /\ weight[l][r] > weight[k][r]
    \/ m(l) = m(k) /\ weight[l][r] = weight[k][r] /\ l < k
-----------------------------------------------------------------------------
(* The decisions in force: a line whose description changed since is stale *)
(* and its decisions are ignored, not deleted (_load_pins,                 *)
(* _load_receipt_edits).                                                   *)

LivePin(l) == l \in Active /\ pins[l].at > 0 /\ pins[l].desc = desc[l]
LiveEdit(l, d) == l \in Active /\ edits[l][d].at > 0 /\ edits[l][d].desc = desc[l]
LiveAdd(l, d) == LiveEdit(l, d) /\ edits[l][d].act = "add"
Removed(l) == {r \in Rows : LiveEdit(l, world.doc[r]) /\ edits[l][world.doc[r]].act = "remove"}
Edited(l) == \E d \in Docs : LiveEdit(l, d)

\* collect(): the candidates of a line, those removed from it by hand left out.
Found(l) == {r \in Rows \ Removed(l) : Identified(l, r) /\ ~FabricContradicts(l, r)}

\* _shipment_group: the candidates at the line's own rate, unless they are
\* fewer than two or overshoot the order by more than half.
RateGroup(l) ==
  LET same == {r \in Found(l) : world.price[r] = world.rate[l]}
      total == MapThenSumSet(LAMBDA r : world.received[r], same)
  IN  IF Cardinality(same) > 1 /\ 2 * total <= 3 * world.qty[l] THEN same ELSE {}
-----------------------------------------------------------------------------
Init ==
  /\ world \in Worlds
  /\ desc = world.desc
  /\ active = Orders
  /\ sheets = 0
  /\ pins = [l \in Lines |-> NoPin]
  /\ edits = [l \in Lines |-> [d \in Docs |-> NoEdit]]
  /\ clock = 0
  /\ stage = "idle" /\ todo = {}
  /\ assigned = [l \in Lines |-> NoMatch]
  /\ added = [l \in Lines |-> {}]
  /\ claimed = {} /\ pinned = {} /\ duePins = {} /\ dueAdds = {}
  /\ sharedPins = {} /\ sharedAdds = {} /\ byBoe = {} /\ byOrder = {}
  /\ demoted = {} /\ unfilled = {}

(* apply_change(): one receipt decision on one line. *)
Decide(l) ==
  /\ stage = "idle" /\ clock + sheets < MaxChanges /\ l \in Active
  /\ clock' = clock + 1
  /\ UNCHANGED <<sheetVars, stage, todo, runVars>>

PinTo(l, d, shared) == [at |-> clock + 1, doc |-> d, shared |-> shared, desc |-> desc[l]]
EditTo(l, act, shared) == [at |-> clock + 1, act |-> act, shared |-> shared, desc |-> desc[l]]

Add(l, d, shared) ==
  /\ Decide(l)
  /\ RowsOf(d) # {} /\ ~(pins[l].at > 0 /\ pins[l].doc = d)
  /\ pins' = IF pins[l].doc = NoDoc THEN [pins EXCEPT ![l] = NoPin] ELSE pins
  /\ edits' = [edits EXCEPT ![l][d] = EditTo(l, "add", shared)]

Remove(l, d) ==
  /\ Decide(l)
  /\ RowsOf(d) # {}
  /\ pins' = IF pins[l].doc = d THEN [pins EXCEPT ![l] = NoPin] ELSE pins
  /\ edits' = [edits EXCEPT ![l][d] = EditTo(l, "remove", FALSE)]

NotReceived(l) ==
  /\ Decide(l)
  /\ pins' = [pins EXCEPT ![l] = PinTo(l, NoDoc, FALSE)]
  /\ edits' = [edits EXCEPT ![l] =
                 [d \in Docs |-> IF @[d].act = "add" THEN NoEdit ELSE @[d]]]

\* The older "this document is the line's receipt"; without a document it
\* says "not received" too, but leaves the added receipts.
SetPin(l, d, shared) ==
  /\ Decide(l)
  /\ RowsOf(d) # {} \/ d = NoDoc
  /\ pins' = [pins EXCEPT ![l] = PinTo(l, d, shared /\ d # NoDoc)]
  /\ edits' = [edits EXCEPT ![l] = [e \in Docs |-> IF e = d THEN NoEdit ELSE @[e]]]

BackToAuto(l) ==
  /\ Decide(l)
  /\ pins' = [pins EXCEPT ![l] = NoPin]
  /\ edits' = [edits EXCEPT ![l] = [d \in Docs |-> NoEdit]]

UndoPin(l) ==
  /\ Decide(l)
  /\ pins[l].at > 0
  /\ pins' = [pins EXCEPT ![l] = NoPin]
  /\ UNCHANGED edits

UndoEdit(l, d) ==
  /\ Decide(l)
  /\ edits[l][d].at > 0
  /\ edits' = [edits EXCEPT ![l][d] = NoEdit]
  /\ UNCHANGED pins

(* The PO sheet: sync_line_items() writes the new lines over the old ones by *)
(* their place and deletes what is left over; an order that leaves the     *)
(* sheet is retired and comes back later.                                  *)
NewSheet(o, new) ==
  /\ stage = "idle" /\ clock + sheets < MaxChanges /\ o \in active
  /\ \A l, k \in LinesOf(o) : l < k /\ new[l] = Nothing => new[k] = Nothing
  /\ desc' = [l \in Lines |-> IF l \in LinesOf(o) THEN new[l] ELSE desc[l]]
  /\ desc' # desc
  /\ sheets' = sheets + 1
  /\ UNCHANGED <<world, active, decisionVars, stage, todo, runVars>>

RetireOrReturn(o) ==
  /\ stage = "idle" /\ clock + sheets < MaxChanges
  /\ active' = IF o \in active THEN active \ {o} ELSE active \union {o}
  /\ sheets' = sheets + 1
  /\ UNCHANGED <<world, desc, decisionVars, stage, todo, runVars>>
-----------------------------------------------------------------------------
(* run_full_match().  Each stage works through todo and hands on.          *)

At(s) == stage = s /\ UNCHANGED <<sheetVars, decisionVars>>
Done(x) == todo' = todo \ {x} /\ UNCHANGED stage
NextStage(s, work) == stage' = s /\ todo' = work

StartMatch ==
  /\ At("idle")
  /\ NextStage("pins", {l \in Lines : LivePin(l)})
  /\ UNCHANGED runVars

\* Pins and receipt edits that name the receipt of the line's own Bill of
\* Entry wait for the settlement of that bill (_pin_defers_to_boe).
Defers(l, d) ==
  /\ l \in world.imports /\ world.boe[l] # Nothing
  /\ \A r \in RowsOf(d) : world.booked[r] = world.boe[l]

\* claim_pin: the document's best row that is still free; a "keep both" pin
\* takes it whoever holds it and claims nothing.
TakePin(l) ==
  LET free == {r \in RowsOf(pins[l].doc) : pins[l].shared \/ r \notin claimed}
  IN  \/ /\ free = {}
         /\ unfilled' = unfilled \union {<<l, pins[l].doc>>}
         /\ UNCHANGED <<assigned, claimed, sharedPins>>
      \/ \E best \in free :
           /\ IsLastBest(ForcedWeights[l], free, best)
           /\ assigned' = [assigned EXCEPT ![l] = Counting(best, {best}, FALSE)]
           /\ claimed' = IF pins[l].shared THEN claimed ELSE claimed \union {best}
           /\ sharedPins' = IF pins[l].shared THEN sharedPins \union {l} ELSE sharedPins
           /\ UNCHANGED unfilled

\* Newest decision first (_load_pins).
IsNewest(l) == \A k \in todo : pins[k].at <= pins[l].at

ClaimPin ==
  /\ At("pins")
  /\ \E l \in todo :
     /\ IsNewest(l) /\ Done(l)
     /\ \/ /\ pins[l].doc = NoDoc
           /\ pinned' = pinned \union {l}
           /\ UNCHANGED <<assigned, claimed, sharedPins, unfilled, duePins>>
        \/ /\ pins[l].doc # NoDoc /\ Defers(l, pins[l].doc)
           /\ duePins' = duePins \union {l}
           /\ UNCHANGED <<assigned, claimed, sharedPins, unfilled, pinned>>
        \/ /\ pins[l].doc # NoDoc /\ ~Defers(l, pins[l].doc)
           /\ TakePin(l)
           /\ pinned' = pinned \union {l}
           /\ UNCHANGED duePins
  /\ UNCHANGED <<dueAdds, added, sharedAdds, byBoe, byOrder, demoted>>

PinsDone ==
  /\ At("pins") /\ todo = {}
  /\ NextStage("adds", {p \in Lines \X Docs : LiveAdd(p[1], p[2])})
  /\ UNCHANGED runVars

\* claim_add: one more row for the line, beside what it matches by itself.
TakeAdd(l, d) ==
  LET shared == edits[l][d].shared
      free == {r \in RowsOf(d) \ added[l] : shared \/ r \notin claimed}
  IN  \/ /\ free = {}
         /\ unfilled' = unfilled \union {<<l, d>>}
         /\ UNCHANGED <<added, claimed, sharedAdds>>
      \/ \E best \in free :
           /\ IsLastBest(ForcedWeights[l], free, best)
           /\ added' = [added EXCEPT ![l] = @ \union {best}]
           /\ claimed' = IF shared THEN claimed ELSE claimed \union {best}
           /\ sharedAdds' = IF shared THEN sharedAdds \union {l} ELSE sharedAdds
           /\ UNCHANGED unfilled

\* receipt_edits is keyed in line order, domestic lines first; only the edits
\* of one line are newest first.
EditBefore(p, q) ==
  IF p[1] = q[1] THEN edits[p[1]][p[2]].at > edits[q[1]][q[2]].at
  ELSE \/ p[1] \notin world.imports /\ q[1] \in world.imports
       \/ (p[1] \in world.imports <=> q[1] \in world.imports) /\ p[1] < q[1]
IsFirstEdit(p) == \A q \in todo \ {p} : EditBefore(p, q)

\* Mutant: every added receipt waits for the Bills of Entry.
ClaimAdd_AllLate ==
  /\ At("adds")
  /\ \E p \in todo :
     /\ IsFirstEdit(p) /\ Done(p)
     /\ dueAdds' = dueAdds \union {p}
     /\ UNCHANGED <<added, claimed, sharedAdds, unfilled>>
  /\ UNCHANGED <<assigned, pinned, duePins, sharedPins, byBoe, byOrder, demoted>>

ClaimAdd ==
  /\ At("adds")
  /\ \E p \in todo :
     /\ IsFirstEdit(p) /\ Done(p)
     /\ \/ /\ Defers(p[1], p[2])
           /\ dueAdds' = dueAdds \union {p}
           /\ UNCHANGED <<added, claimed, sharedAdds, unfilled>>
        \/ ~Defers(p[1], p[2]) /\ TakeAdd(p[1], p[2]) /\ UNCHANGED dueAdds
  /\ UNCHANGED <<assigned, pinned, duePins, sharedPins, byBoe, byOrder, demoted>>

AddsDone ==
  /\ At("adds") /\ todo = {}
  /\ NextStage("boe", {world.boe[l] : l \in (Active \intersect world.imports) \ pinned} \ {Nothing})
  /\ UNCHANGED runVars
-----------------------------------------------------------------------------
(* _boe_settlement, one Bill of Entry at a time.                           *)

BoeLines(b) == {l \in (Active \intersect world.imports) \ pinned : world.boe[l] = b}
BoeRows(b) == {r \in Rows \ claimed : world.booked[r] = b}

\* Lines on different Bills of Lading are trusted only when the receipts meet
\* their quantities exactly.
Trusted(b) ==
  \/ Cardinality({world.bill[l] : l \in BoeLines(b)} \ {Nothing}) <= 1
  \/ \E meets \in [BoeLines(b) -> BoeRows(b)] :
       /\ \A l \in BoeLines(b) : SameMoney(l, meets[l])
       /\ \A l, k \in BoeLines(b) : meets[l] = meets[k] => l = k

AddedHere(l, r) == <<l, world.doc[r]>> \in dueAdds

\* Mutant: a removed receipt is offered again by its Bill of Entry.
Offered_Again(l, b) ==
  {r \in BoeRows(b) :
     IF l \in duePins THEN world.doc[r] = pins[l].doc
     ELSE AddedHere(l, r) \/ (~Contradicts(l, r) /\ (SameParty(l, r) \/ SameMaterial(l, r)))}

\* A pinned line is offered its document only; a receipt added by hand needs no
\* vote and passes the contradiction gate; one removed is never offered.
Offered(l, b) ==
  {r \in BoeRows(b) \ Removed(l) :
     IF l \in duePins THEN world.doc[r] = pins[l].doc
     ELSE \/ AddedHere(l, r)
          \/ ~Contradicts(l, r) /\ (SameParty(l, r) \/ SameMaterial(l, r))}
Usable(b) == UNION {Offered(l, b) : l \in BoeLines(b)}

\* At least as many receipts as lines: what was added by hand stays with its
\* line, the rest is assigned one to a line, and what is left over joins the
\* line it identifies with best.
ByHand(b) == {r \in Usable(b) : \E l \in BoeLines(b) : r \in Offered(l, b) /\ AddedHere(l, r)}
HandLine(b, r) == Min({l \in BoeLines(b) : r \in Offered(l, b) /\ AddedHere(l, r)})
HandLines(b) == {HandLine(b, r) : r \in ByHand(b)}
OneEach(b) ==
  Heaviest([l \in Lines |-> IF l \in BoeLines(b) \ HandLines(b)
                            THEN Offered(l, b) \ ByHand(b) ELSE {}], ForcedWeights)
RowsWith(b, given, l) ==
  {r \in Offered(l, b) :
     IF r \in ByHand(b) THEN HandLine(b, r) = l
     ELSE IF \E k \in Lines : given[k] = r THEN given[l] = r
     ELSE BestLine(ForcedWeights, {k \in BoeLines(b) : r \in Offered(k, b)}, r) = l}

Settles(b, rows, part) ==
  LET got == {l \in BoeLines(b) : rows[l] # {}} IN
  /\ assigned' = [l \in Lines |->
       IF l \in got THEN Counting(FirstBest(ForcedWeights[l], rows[l]), rows[l], part)
       ELSE assigned[l]]
  /\ claimed' = claimed \union UNION {rows[l] : l \in got}
  /\ byBoe' = byBoe \union got

SettleBoe ==
  /\ At("boe")
  /\ \E b \in todo :
     /\ Done(b)
     /\ \/ /\ Trusted(b) /\ Cardinality(Usable(b)) >= Cardinality(BoeLines(b))
           /\ \E given \in OneEach(b) :
                Settles(b, [l \in Lines |-> RowsWith(b, given, l)], FALSE)
        \* Fewer receipts than lines: every line counts its share of them all.
        \/ /\ Trusted(b) /\ Cardinality(Usable(b)) < Cardinality(BoeLines(b))
           /\ world.oneUnit
           /\ Settles(b, [l \in Lines |-> Offered(l, b)], TRUE)
        \/ /\ \/ ~Trusted(b)
              \/ Cardinality(Usable(b)) < Cardinality(BoeLines(b)) /\ ~world.oneUnit
           /\ UNCHANGED <<assigned, claimed, byBoe>>
  /\ UNCHANGED <<pinned, duePins, dueAdds, added, sharedPins, sharedAdds, byOrder, demoted, unfilled>>

BoeDone ==
  /\ At("boe") /\ todo = {}
  /\ NextStage("late pins", duePins)
  /\ UNCHANGED runVars

\* What the settlement did not carry out is claimed the ordinary way after all.
LatePin ==
  /\ At("late pins")
  /\ \E l \in todo :
     /\ IsNewest(l) /\ Done(l)
     /\ pinned' = pinned \union {l}
     /\ \/ assigned[l].rows # {} /\ UNCHANGED <<assigned, claimed, sharedPins, unfilled>>
        \/ assigned[l].rows = {} /\ TakePin(l)
  /\ UNCHANGED <<duePins, dueAdds, added, sharedAdds, byBoe, byOrder, demoted>>

LatePinsDone ==
  /\ At("late pins") /\ todo = {}
  /\ NextStage("late adds", dueAdds)
  /\ UNCHANGED runVars

LateAdd ==
  /\ At("late adds")
  /\ \E p \in todo :
     LET held == IF p[1] \in byBoe THEN assigned[p[1]].rows ELSE {} IN
     /\ IsFirstEdit(p) /\ Done(p)
     /\ \/ RowsOf(p[2]) \intersect held # {} /\ UNCHANGED <<added, claimed, sharedAdds, unfilled>>
        \/ RowsOf(p[2]) \intersect held = {} /\ TakeAdd(p[1], p[2])
  /\ UNCHANGED <<assigned, pinned, duePins, dueAdds, sharedPins, byBoe, byOrder, demoted>>

LateAddsDone ==
  /\ At("late adds") /\ todo = {}
  /\ NextStage("orders", {})
  /\ UNCHANGED runVars
-----------------------------------------------------------------------------
(* The automatic stages.                                                   *)

\* The rows that name a line's own order.  A pinned line that holds its row
\* competes for what is left over; a Bill of Entry has settled its lines.
CitedRows(l) == {r \in Found(l) : Cites(l, r)}
Takers ==
  {l \in Active \ byBoe :
     /\ CitedRows(l) # {}
     /\ l \in pinned => assigned[l].rows # {} /\ l \notin sharedPins}

\* Mutant: rows that are taken are offered again.
Open_Any(l) == IF l \in Takers THEN CitedRows(l) ELSE {}

\* What is still free of them.
Open(l) == IF l \in Takers THEN CitedRows(l) \ claimed ELSE {}

\* One row for each line, then every other row to the line it fits best.
ByOrderNumber(given) ==
  LET won == [l \in Lines |->
        {r \in Open(l) :
           IF \E k \in Lines : given[k] = r THEN given[l] = r
           ELSE BestLine(Weights, {k \in Takers : r \in Open(k)}, r) = l}]
      winners == {l \in Lines : won[l] # {}}
  IN  /\ assigned' = [l \in Lines |->
           IF l \notin winners THEN assigned[l]
           ELSE IF l \in pinned
           THEN Counting(assigned[l].main, {assigned[l].main} \union won[l], FALSE)
           ELSE Counting(FirstBest(Weights[l], won[l]), won[l], FALSE)]
      /\ claimed' = claimed \union UNION {won[l] : l \in winners}
      /\ byOrder' = winners \ pinned

SettleOrders ==
  /\ At("orders")
  /\ \E given \in Heaviest([l \in Lines |-> IF l \in pinned THEN {} ELSE Open(l)], Weights) :
       ByOrderNumber(given)
  /\ NextStage("groups", {l \in Active \ (pinned \union byBoe \union byOrder') : RateGroup(l) # {}})
  /\ UNCHANGED <<pinned, duePins, dueAdds, added, sharedPins, sharedAdds, byBoe, demoted, unfilled>>

\* Groups settle heaviest first; one that lost a row falls back to single rows.
GroupBest(l) == FirstBest(Weights[l], RateGroup(l))
GroupBefore(l, k) ==
  \/ Weights[l][GroupBest(l)] > Weights[k][GroupBest(k)]
  \/ /\ Weights[l][GroupBest(l)] = Weights[k][GroupBest(k)]
     /\ \/ l \in world.imports /\ k \notin world.imports
        \/ (l \in world.imports <=> k \in world.imports) /\ l < k

SettleGroup ==
  /\ At("groups")
  /\ \E l \in todo :
     /\ \A k \in todo \ {l} : GroupBefore(l, k)
     /\ Done(l)
     /\ \/ /\ RateGroup(l) \intersect claimed = {}
           /\ assigned' = [assigned EXCEPT ![l] = Counting(GroupBest(l), RateGroup(l), FALSE)]
           /\ claimed' = claimed \union RateGroup(l)
           /\ UNCHANGED demoted
        \/ /\ RateGroup(l) \intersect claimed # {}
           /\ demoted' = demoted \union {l}
           /\ UNCHANGED <<assigned, claimed>>
  /\ UNCHANGED <<pinned, duePins, dueAdds, added, sharedPins, sharedAdds, byBoe, byOrder, unfilled>>

GroupsDone ==
  /\ At("groups") /\ todo = {}
  /\ NextStage("rest", {})
  /\ UNCHANGED runVars

\* Everyone else competes for one free row each.
Competes(l) ==
  /\ l \in Active \ (pinned \union byBoe \union byOrder)
  /\ RateGroup(l) = {} \/ l \in demoted

AssignRest ==
  /\ At("rest")
  /\ \E given \in Heaviest([l \in Lines |-> IF Competes(l) THEN Found(l) \ claimed ELSE {}], Weights) :
       assigned' = [l \in Lines |-> IF given[l] = NoRow THEN assigned[l]
                                    ELSE Counting(given[l], {given[l]}, FALSE)]
  /\ NextStage("join", {})
  /\ UNCHANGED <<claimed, pinned, duePins, dueAdds, added, sharedPins, sharedAdds, byBoe,
                 byOrder, demoted, unfilled>>

\* The added receipts join what the line matched by itself; a line that counted
\* a share counts everything in full from then on.
JoinAdded ==
  /\ At("join")
  /\ assigned' = [l \in Lines |->
       IF added[l] \subseteq assigned[l].rows THEN assigned[l]
       ELSE IF assigned[l].rows = {}
       THEN Counting(CHOOSE r \in added[l] : IsLastBest(ForcedWeights[l], added[l], r), added[l], FALSE)
       ELSE Counting(assigned[l].main, assigned[l].rows \union added[l], FALSE)]
  /\ NextStage("share", {})
  /\ UNCHANGED <<claimed, pinned, duePins, dueAdds, added, sharedPins, sharedAdds, byBoe,
                 byOrder, demoted, unfilled>>

\* _split_shared_rows: everyone who holds the row of a "keep both" decision
\* counts its share of it, if that row is all that each of them counts.
Holders(r) == {l \in Lines : r \in assigned[l].rows}
Grouped(l) == assigned[l].part \/ Cardinality(assigned[l].rows) > 1
Splits(r) ==
  /\ world.oneUnit
  /\ \E l \in sharedPins \union sharedAdds : assigned[l].main = r
  /\ Cardinality(Holders(r)) > 1 /\ \A l \in Holders(r) : ~Grouped(l)

SplitShared ==
  /\ At("share")
  /\ assigned' = [l \in Lines |-> IF \E r \in assigned[l].rows : Splits(r)
                                  THEN [assigned[l] EXCEPT !.part = TRUE] ELSE assigned[l]]
  /\ NextStage("pool", {})
  /\ UNCHANGED <<claimed, pinned, duePins, dueAdds, added, sharedPins, sharedAdds, byBoe,
                 byOrder, demoted, unfilled>>

\* _pool_duplicate_lines: the identical lines of an order share what any of them
\* won, by quantity when all of it arrived, line by line while it has not.
Poolable == {l \in Active \ (pinned \union byBoe) : ~Edited(l) /\ ~assigned[l].part}
Twins(l) ==
  {k \in Poolable : /\ OrderOf(k) = OrderOf(l) /\ desc[k] = desc[l]
                    /\ world.rate[k] = world.rate[l]}
PoolRows(l) == UNION {assigned[k].rows : k \in Twins(l)}
Members(l) == {k \in Twins(l) : Found(k) \intersect PoolRows(l) # {}}
Pools(l) == l \in Poolable /\ l \in Members(l) /\ Cardinality(Members(l)) > 1 /\ world.oneUnit

Ordered(lines) == MapThenSumSet(LAMBDA k : world.qty[k], lines)
Arrived(rows) == MapThenSumSet(LAMBDA r : world.received[r], rows)
Reached(l) ==
  \/ Arrived(PoolRows(l)) >= Ordered(Members(l))
  \/ Arrived(PoolRows(l)) > Ordered({k \in Members(l) : k < l})

PoolTwins ==
  /\ At("pool")
  /\ assigned' = [l \in Lines |->
       IF ~Pools(l) THEN assigned[l]
       ELSE IF Reached(l)
       THEN Counting(FirstBest(Weights[l], Found(l) \intersect PoolRows(l)), PoolRows(l), TRUE)
       ELSE NoMatch]
  /\ NextStage("save", {})
  /\ UNCHANGED <<claimed, pinned, duePins, dueAdds, added, sharedPins, sharedAdds, byBoe,
                 byOrder, demoted, unfilled>>

\* The match rows are written and the transaction ends, its locals with it.
SaveMatches ==
  /\ At("save")
  /\ assigned' = [l \in Lines |-> NoMatch]
  /\ added' = [l \in Lines |-> {}]
  /\ claimed' = {} /\ pinned' = {} /\ duePins' = {} /\ dueAdds' = {}
  /\ sharedPins' = {} /\ sharedAdds' = {} /\ byBoe' = {} /\ byOrder' = {}
  /\ demoted' = {} /\ unfilled' = {}
  /\ NextStage("idle", {})

MatchStep ==
  \/ StartMatch
  \/ ClaimPin \/ PinsDone
  \/ ClaimAdd \/ AddsDone
  \/ SettleBoe \/ BoeDone
  \/ LatePin \/ LatePinsDone
  \/ LateAdd \/ LateAddsDone
  \/ SettleOrders
  \/ SettleGroup \/ GroupsDone
  \/ AssignRest \/ JoinAdded \/ SplitShared \/ PoolTwins \/ SaveMatches

Next ==
  \/ MatchStep
  \/ \E l \in Lines, d \in Docs, shared \in BOOLEAN : Add(l, d, shared)
  \/ \E l \in Lines, d \in Docs \union {NoDoc}, shared \in BOOLEAN : SetPin(l, d, shared)
  \/ \E l \in Lines, d \in Docs : Remove(l, d) \/ UndoEdit(l, d)
  \/ \E l \in Lines : NotReceived(l) \/ BackToAuto(l) \/ UndoPin(l)
  \/ \E o \in Orders : \E new \in [LinesOf(o) -> Materials \union {Nothing}] : NewSheet(o, new)
  \/ \E o \in Orders : RetireOrReturn(o)

Spec == Init /\ [][Next]_vars
-----------------------------------------------------------------------------
Worked == stage = "save"
FullHolders(r) == {l \in Holders(r) : ~assigned[l].part}

\* A receipt removed from a line by hand never comes back to it, through any
\* stage: its Bill of Entry, its order's number, its rate group, its twins.
RemovedStaysOff ==
  Worked => \A l \in Lines : assigned[l].rows \intersect Removed(l) = {}

\* No receipt is counted in full by two lines, or in full by one and in part by
\* another, unless a person asked to keep both.  The exception is a line of a
\* shared Bill of Entry that got one more receipt by hand: it counts all of its
\* rows in full while its siblings go on counting their shares.
KeptByBoth(r) ==
  \E l \in Lines : \/ LivePin(l) /\ pins[l].shared /\ pins[l].doc = world.doc[r]
                   \/ LiveAdd(l, world.doc[r]) /\ edits[l][world.doc[r]].shared
ToppedUp(r) == \E l \in Holders(r) \intersect byBoe : added[l] # {}
ReceiptCountedOnce ==
  Worked => \A r \in Rows :
    Cardinality(Holders(r)) > 1 /\ ~KeptByBoth(r) /\ ~ToppedUp(r) => FullHolders(r) = {}

\* matching_core.py:4031: "a row a human named can never be taken out from under
\* them by a better-scoring automatic pair".  A decision is unfilled only when
\* every row of its document is held by a line whose own decision names that
\* document - or when it waits for the settlement of its Bill of Entry
\* (_pin_defers_to_boe), where a sibling line may take the row first.
NamedBy(l, d) == (LivePin(l) /\ pins[l].doc = d) \/ LiveAdd(l, d)
LostToPeople(d) == \A r \in RowsOf(d) : \E l \in Holders(r) : NamedBy(l, d)
OrdinaryDecisionsKept ==
  Worked => \A p \in unfilled : Defers(p[1], p[2]) \/ LostToPeople(p[2])
=============================================================================
