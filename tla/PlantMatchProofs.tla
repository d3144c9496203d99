-------------------------- MODULE PlantMatchProofs --------------------------
(***************************************************************************)
(* Three results about run_full_match(), for any sheets and any number of  *)
(* decisions.                                                              *)
(*                                                                         *)
(* A receipt removed by hand stays off its line.  The inductive invariant  *)
(* IInv says it of every state of a run, of the rows a line holds and of   *)
(* the receipts added to it (Off), and adds what the stages rely on: no    *)
(* pin names a receipt its line has removed (PinsKept), what a stage has   *)
(* left to do are decisions in force (Work), and until the order numbers   *)
(* are settled a line that no Bill of Entry settled counts its primary row *)
(* (MainCounted).                                                          *)
(*                                                                         *)
(* No receipt is counted twice, and no pairing takes a row away from the   *)
(* line it was named for.  HeldInv, inductive beside IInv, follows a row   *)
(* from the claim to the pool: Once says who may hold it, Kept which line  *)
(* it was named for, Own what a line without a decision holds, and Queued  *)
(* what is left of the decisions.                                          *)
(***************************************************************************)
EXTENDS PlantMatch, FiniteSetTheorems, TLAPS

IsMatch(m) == m = Counting(m.main, m.rows, m.part)

Shaped ==
  /\ world \in Worlds
  /\ assigned = [l \in Lines |-> assigned[l]]
  /\ \A l \in Lines : IsMatch(assigned[l])
  /\ added = [l \in Lines |-> added[l]]
  /\ pins = [l \in Lines |-> pins[l]]
  /\ edits = [l \in Lines |-> [d \in Docs |-> edits[l][d]]]

PinsKept ==
  \A l \in Lines : pins[l].doc \in Docs => edits[l][pins[l].doc].act # "remove"

Off ==
  \A l \in Lines : /\ assigned[l].rows \intersect Removed(l) = {}
                   /\ added[l] \intersect Removed(l) = {}

\* Line-and-document pairs whose edit adds the document to the line.
Additions == {p \in Lines \X Docs : edits[p[1]][p[2]].act = "add"}

Work ==
  /\ stage \in {"pins", "late pins"} => todo \subseteq Lines
  /\ stage \in {"adds", "late adds"} => todo \subseteq Additions
  /\ duePins \subseteq Lines
  /\ dueAdds \subseteq Additions

Early == {"pins", "adds", "boe", "late pins", "late adds", "orders"}

MainCounted ==
  stage \in Early => \A l \in Lines :
    assigned[l].rows # {} => l \in byBoe \/ assigned[l].main \in assigned[l].rows

AtRest == \A l \in Lines : assigned[l].rows = {} /\ added[l] = {}

IInv ==
  /\ Shaped /\ PinsKept /\ Off /\ Work /\ MainCounted
  /\ stage = "idle" => AtRest /\ duePins = {} /\ dueAdds = {}
-----------------------------------------------------------------------------
(* Removed receipts do not change during a run, and no candidate and no    *)
(* document a decision names is one of them.                               *)

LEMMA SameRemoved ==
  ASSUME UNCHANGED <<sheetVars, decisionVars>>
  PROVE  /\ \A l : Removed(l)' = Removed(l)
         /\ Additions' = Additions
  BY DEF Removed, LiveEdit, Active, OrderOf, Additions, sheetVars, decisionVars

LEMMA FoundKept == \A l : Found(l) \intersect Removed(l) = {}
  BY DEF Found

LEMMA NamedKept ==
  ASSUME NEW l, NEW d, edits[l][d].act # "remove", NEW r \in RowsOf(d)
  PROVE  r \notin Removed(l)
  BY DEF RowsOf, Removed

LEMMA CountingFields ==
  ASSUME NEW main, NEW rows, NEW part
  PROVE  /\ Counting(main, rows, part).main = main
         /\ Counting(main, rows, part).rows = rows
         /\ IsMatch(Counting(main, rows, part))
  BY DEF Counting, IsMatch

(* What a step of a run has to show.                                       *)
LEMMA Running ==
  ASSUME IInv, UNCHANGED <<sheetVars, decisionVars>>,
         assigned' = [l \in Lines |-> assigned'[l]],
         added' = [l \in Lines |-> added'[l]],
         \A l \in Lines : /\ IsMatch(assigned'[l])
                          /\ assigned'[l].rows \intersect Removed(l) = {}
                          /\ added'[l] \intersect Removed(l) = {},
         Work', MainCounted', stage' # "idle"
  PROVE  IInv'
<1>1. Shaped' BY DEF IInv, Shaped, sheetVars, decisionVars
<1>2. PinsKept' BY DEF IInv, PinsKept, sheetVars, decisionVars
<1>3. Off' BY SameRemoved DEF Off
<1> QED BY <1>1, <1>2, <1>3 DEF IInv

(* A stage that hands on to the next one.                                  *)
LEMMA Handed ==
  ASSUME IInv, UNCHANGED <<sheetVars, decisionVars, assigned, added, byBoe>>,
         Work', stage' \in Early => stage \in Early, stage' # "idle"
  PROVE  IInv'
<1>1. MainCounted' BY DEF IInv, MainCounted
<1>2. /\ assigned' = [l \in Lines |-> assigned'[l]]
      /\ added' = [l \in Lines |-> added'[l]]
      /\ \A l \in Lines : IsMatch(assigned'[l])
  BY DEF IInv, Shaped
<1>3. \A l \in Lines : /\ assigned'[l].rows \intersect Removed(l) = {}
                       /\ added'[l] \intersect Removed(l) = {}
  BY DEF IInv, Off
<1> QED BY <1>1, <1>2, <1>3, Running
-----------------------------------------------------------------------------
(* The stages.                                                             *)

LEMMA HandsOn ==
  ASSUME IInv, \/ StartMatch \/ PinsDone \/ AddsDone \/ BoeDone \/ LatePinsDone
               \/ LateAddsDone \/ GroupsDone
  PROVE  IInv'
<1>1. CASE StartMatch
  <2> USE <1>1 DEF StartMatch, At, NextStage, runVars
  <2>1. Additions' = Additions BY SameRemoved
  <2>2. Work' BY <2>1 DEF IInv, Work
  <2>3. AtRest BY DEF IInv
  <2>4. MainCounted' BY <2>3 DEF AtRest, MainCounted
  <2>5. /\ assigned' = [l \in Lines |-> assigned'[l]]
        /\ added' = [l \in Lines |-> added'[l]]
        /\ \A l \in Lines : IsMatch(assigned'[l])
    BY DEF IInv, Shaped
  <2>6. \A l \in Lines : /\ assigned'[l].rows \intersect Removed(l) = {}
                         /\ added'[l] \intersect Removed(l) = {}
    BY DEF IInv, Off
  <2> QED BY <2>2, <2>4, <2>5, <2>6, Running
<1>2. CASE PinsDone
  <2> USE <1>2 DEF PinsDone, At, NextStage, runVars
  <2>1. Additions' = Additions BY SameRemoved
  <2>2. todo' \subseteq Additions BY DEF Additions, LiveAdd
  <2>3. Work' BY <2>1, <2>2 DEF IInv, Work
  <2> QED BY <2>3, Handed DEF Early
<1>3. CASE AddsDone
  <2> USE <1>3 DEF AddsDone, At, NextStage, runVars
  <2>1. Additions' = Additions BY SameRemoved
  <2>2. Work' BY <2>1 DEF IInv, Work
  <2> QED BY <2>2, Handed DEF Early
<1>4. CASE BoeDone
  <2> USE <1>4 DEF BoeDone, At, NextStage, runVars
  <2>1. Additions' = Additions BY SameRemoved
  <2>2. Work' BY <2>1 DEF IInv, Work
  <2> QED BY <2>2, Handed DEF Early
<1>5. CASE LatePinsDone
  <2> USE <1>5 DEF LatePinsDone, At, NextStage, runVars
  <2>1. Additions' = Additions BY SameRemoved
  <2>2. Work' BY <2>1 DEF IInv, Work
  <2> QED BY <2>2, Handed DEF Early
<1>6. CASE LateAddsDone
  <2> USE <1>6 DEF LateAddsDone, At, NextStage, runVars
  <2>1. Additions' = Additions BY SameRemoved
  <2>2. Work' BY <2>1 DEF IInv, Work
  <2> QED BY <2>2, Handed DEF Early
<1>7. CASE GroupsDone
  <2> USE <1>7 DEF GroupsDone, At, NextStage, runVars
  <2>1. Additions' = Additions BY SameRemoved
  <2>2. Work' BY <2>1 DEF IInv, Work
  <2> QED BY <2>2, Handed DEF Early
<1> QED BY <1>1, <1>2, <1>3, <1>4, <1>5, <1>6, <1>7

(* A pin gives its line a row of its document, or nothing.                 *)
LEMMA PinTaken ==
  ASSUME IInv, NEW l \in Lines, TakePin(l)
  PROVE  /\ assigned' = [k \in Lines |-> assigned'[k]]
         /\ \A k \in Lines :
              \/ assigned'[k] = assigned[k]
              \/ /\ IsMatch(assigned'[k])
                 /\ assigned'[k].rows \intersect Removed(k) = {}
                 /\ assigned'[k].main \in assigned'[k].rows
<1>1. CASE UNCHANGED assigned BY <1>1 DEF IInv, Shaped
<1>2. ASSUME NEW best \in RowsOf(pins[l].doc),
             assigned' = [assigned EXCEPT ![l] = Counting(best, {best}, FALSE)]
      PROVE  /\ assigned' = [k \in Lines |-> assigned'[k]]
             /\ \A k \in Lines \ {l} : assigned'[k] = assigned[k]
             /\ assigned'[l] = Counting(best, {best}, FALSE)
             /\ best \notin Removed(l)
  <2>1. assigned = [k \in Lines |-> assigned[k]] BY DEF IInv, Shaped
  <2>2. best \in Rows /\ world.doc[best] = pins[l].doc BY <1>2 DEF RowsOf
  <2>3. pins[l].doc \in Docs BY <2>2, WorldAssumption DEF IInv, Shaped
  <2>4. best \notin Removed(l) BY <2>3, <1>2, NamedKept DEF IInv, PinsKept
  <2> QED BY <1>2, <2>1, <2>4
<1>3. \/ UNCHANGED assigned
      \/ \E best \in RowsOf(pins[l].doc) :
           assigned' = [assigned EXCEPT ![l] = Counting(best, {best}, FALSE)]
  BY DEF TakePin
<1>4. CASE \E best \in RowsOf(pins[l].doc) :
             assigned' = [assigned EXCEPT ![l] = Counting(best, {best}, FALSE)]
  <2>1. PICK best \in RowsOf(pins[l].doc) :
          assigned' = [assigned EXCEPT ![l] = Counting(best, {best}, FALSE)]
    BY <1>4
  <2>2. /\ assigned' = [k \in Lines |-> assigned'[k]]
        /\ \A k \in Lines \ {l} : assigned'[k] = assigned[k]
        /\ assigned'[l] = Counting(best, {best}, FALSE)
        /\ best \notin Removed(l)
    BY <2>1, <1>2
  <2>3. /\ assigned'[l].main = best
        /\ assigned'[l].rows = {best}
        /\ IsMatch(assigned'[l])
    BY <2>2 DEF Counting, IsMatch
  <2>4. /\ assigned'[l].rows \intersect Removed(l) = {}
        /\ assigned'[l].main \in assigned'[l].rows
    BY <2>2, <2>3
  <2> QED BY <2>2, <2>3, <2>4
<1> QED BY <1>1, <1>3, <1>4

LEMMA Pinning ==
  ASSUME IInv, UNCHANGED <<sheetVars, decisionVars, added, byBoe, stage>>,
         stage \in Early, Work',
         NEW l \in Lines, UNCHANGED assigned \/ TakePin(l)
  PROVE  IInv'
<1>1. /\ assigned' = [k \in Lines |-> assigned'[k]]
      /\ \A k \in Lines :
           \/ assigned'[k] = assigned[k]
           \/ /\ IsMatch(assigned'[k])
              /\ assigned'[k].rows \intersect Removed(k) = {}
              /\ assigned'[k].main \in assigned'[k].rows
  BY PinTaken DEF IInv, Shaped
<1>2. MainCounted' BY <1>1 DEF IInv, MainCounted
<1>3. \A k \in Lines : /\ IsMatch(assigned'[k])
                       /\ assigned'[k].rows \intersect Removed(k) = {}
                       /\ added'[k] \intersect Removed(k) = {}
  BY <1>1 DEF IInv, Shaped, Off
<1>4. added' = [k \in Lines |-> added'[k]] BY DEF IInv, Shaped
<1>5. stage' # "idle" BY DEF Early
<1> QED BY <1>1, <1>2, <1>3, <1>4, <1>5, Running

LEMMA Pins == ASSUME IInv, ClaimPin \/ LatePin PROVE IInv'
<1>1. CASE ClaimPin
  <2> USE <1>1 DEF ClaimPin, At, Done
  <2>1. PICK l \in todo :
          /\ todo' = todo \ {l}
          /\ UNCHANGED assigned \/ TakePin(l)
          /\ duePins' \subseteq duePins \union {l}
    OBVIOUS
  <2>2. l \in Lines BY DEF IInv, Work
  <2>3. Additions' = Additions BY SameRemoved
  <2>4. Work' BY <2>1, <2>2, <2>3 DEF IInv, Work
  <2> QED BY <2>1, <2>2, <2>4, Pinning DEF Early
<1>2. CASE LatePin
  <2> USE <1>2 DEF LatePin, At, Done
  <2>1. PICK l \in todo :
          todo' = todo \ {l} /\ (UNCHANGED assigned \/ TakePin(l))
    OBVIOUS
  <2>2. l \in Lines BY DEF IInv, Work
  <2>3. Additions' = Additions BY SameRemoved
  <2>4. Work' BY <2>1, <2>3 DEF IInv, Work
  <2> QED BY <2>1, <2>2, <2>4, Pinning DEF Early
<1> QED BY <1>1, <1>2

(* A receipt added by hand gives its line a row of its document, or        *)
(* nothing.                                                                *)
LEMMA Adding ==
  ASSUME IInv, UNCHANGED <<sheetVars, decisionVars, assigned, byBoe, stage>>,
         stage \in Early, Work',
         NEW l \in Lines, NEW d \in Docs, edits[l][d].act = "add",
         UNCHANGED added \/ TakeAdd(l, d)
  PROVE  IInv'
<1>1. \/ UNCHANGED added
      \/ \E best \in RowsOf(d) : added' = [added EXCEPT ![l] = @ \union {best}]
  BY DEF TakeAdd
<1>2. \A best \in RowsOf(d) : best \notin Removed(l)
  BY NamedKept
<1>3. added = [k \in Lines |-> added[k]] BY DEF IInv, Shaped
<1>4. \A k \in Lines : added[k] \intersect Removed(k) = {} BY DEF IInv, Off
<1>5. /\ added' = [k \in Lines |-> added'[k]]
      /\ \A k \in Lines : added'[k] \intersect Removed(k) = {}
  <2>1. CASE UNCHANGED added BY <2>1, <1>3, <1>4
  <2>2. CASE \E best \in RowsOf(d) : added' = [added EXCEPT ![l] = @ \union {best}]
    <3>1. PICK best \in RowsOf(d) : added' = [added EXCEPT ![l] = @ \union {best}]
      BY <2>2
    <3>2. /\ added' = [k \in Lines |-> added'[k]]
          /\ added'[l] = added[l] \union {best}
          /\ \A k \in Lines \ {l} : added'[k] = added[k]
      BY <3>1, <1>3
    <3> QED BY <3>2, <1>2, <1>4
  <2> QED BY <1>1, <2>1, <2>2
<1>6. MainCounted' BY DEF IInv, MainCounted
<1>7. /\ assigned' = [k \in Lines |-> assigned'[k]]
      /\ \A k \in Lines : /\ IsMatch(assigned'[k])
                          /\ assigned'[k].rows \intersect Removed(k) = {}
  BY DEF IInv, Shaped, Off
<1>8. stage' # "idle" BY DEF Early
<1> QED BY <1>5, <1>6, <1>7, <1>8, Running

LEMMA Adds == ASSUME IInv, ClaimAdd \/ LateAdd PROVE IInv'
<1>1. CASE ClaimAdd
  <2> USE <1>1 DEF ClaimAdd, At, Done
  <2>1. PICK p \in todo :
          /\ todo' = todo \ {p}
          /\ UNCHANGED added \/ TakeAdd(p[1], p[2])
          /\ dueAdds' \subseteq dueAdds \union {p}
    BY DEF TakeAdd
  <2>2. p \in Additions BY DEF IInv, Work
  <2>3. p[1] \in Lines /\ p[2] \in Docs /\ edits[p[1]][p[2]].act = "add"
    BY <2>2 DEF Additions
  <2>4. Additions' = Additions BY SameRemoved
  <2>5. Work' BY <2>1, <2>2, <2>4 DEF IInv, Work
  <2> QED BY <2>1, <2>3, <2>5, Adding DEF Early
<1>2. CASE LateAdd
  <2> USE <1>2 DEF LateAdd, At, Done
  <2>1. PICK p \in todo :
          todo' = todo \ {p} /\ (UNCHANGED added \/ TakeAdd(p[1], p[2]))
    OBVIOUS
  <2>2. p \in Additions BY DEF IInv, Work
  <2>3. p[1] \in Lines /\ p[2] \in Docs /\ edits[p[1]][p[2]].act = "add"
    BY <2>2 DEF Additions
  <2>4. Additions' = Additions BY SameRemoved
  <2>5. Work' BY <2>1, <2>4 DEF IInv, Work
  <2> QED BY <2>1, <2>3, <2>5, Adding DEF Early
<1> QED BY <1>1, <1>2

(* A step that gives lines new matches and adds nothing by hand.           *)
LEMMA Matched ==
  ASSUME IInv, UNCHANGED <<sheetVars, decisionVars, added, duePins, dueAdds>>,
         stage' \notin {"pins", "late pins", "adds", "late adds", "idle"},
         NEW new, assigned' = [l \in Lines |-> new[l]],
         \A l \in Lines : /\ IsMatch(new[l])
                          /\ new[l].rows \intersect Removed(l) = {},
         MainCounted'
  PROVE  IInv'
<1>1. Additions' = Additions BY SameRemoved
<1>2. Work' BY <1>1 DEF IInv, Work
<1>3. \A l \in Lines : assigned'[l] = new[l] OBVIOUS
<1>4. \A l \in Lines : added'[l] \intersect Removed(l) = {} BY DEF IInv, Off
<1>5. assigned' = [l \in Lines |-> assigned'[l]] BY <1>3
<1>6. added' = [l \in Lines |-> added'[l]] BY DEF IInv, Shaped
<1> QED BY <1>2, <1>3, <1>4, <1>5, <1>6, Running

(* A Bill of Entry settles its lines with rows they were offered.          *)
LEMMA Settled ==
  ASSUME IInv, UNCHANGED <<sheetVars, decisionVars, added, duePins, dueAdds, stage>>,
         stage = "boe", NEW b, NEW rows, NEW part, Settles(b, rows, part),
         \A l \in Lines : rows[l] \subseteq Offered(l, b)
  PROVE  IInv'
<1> DEFINE got == {l \in BoeLines(b) : rows[l] # {}}
           new == [l \in Lines |->
                     IF l \in got
                     THEN Counting(FirstBest(ForcedWeights[l], rows[l]), rows[l], part)
                     ELSE assigned[l]]
<1>1. assigned' = new /\ byBoe' = byBoe \union got BY DEF Settles
<1>2. \A l \in Lines : /\ l \in got => IsMatch(new[l]) /\ new[l].rows = rows[l]
                       /\ l \notin got => new[l] = assigned[l]
  BY CountingFields
<1>3. \A l \in Lines : Offered(l, b) \intersect Removed(l) = {} BY DEF Offered
<1>4. \A l \in Lines : /\ IsMatch(new[l])
                       /\ new[l].rows \intersect Removed(l) = {}
  BY <1>2, <1>3 DEF IInv, Shaped, Off
<1>5. MainCounted' BY <1>1, <1>2 DEF IInv, MainCounted, Early
<1>6. assigned' = [l \in Lines |-> new[l]] BY <1>1
<1> HIDE DEF new, got
<1> QED BY <1>4, <1>5, <1>6, Matched

LEMMA Bills == ASSUME IInv, SettleBoe PROVE IInv'
<1> USE DEF SettleBoe, At, Done
<1>1. PICK b \in todo :
        \/ \E given \in OneEach(b) :
             Settles(b, [l \in Lines |-> RowsWith(b, given, l)], FALSE)
        \/ Settles(b, [l \in Lines |-> Offered(l, b)], TRUE)
        \/ UNCHANGED <<assigned, byBoe>>
  OBVIOUS
<1>2. CASE \E given \in OneEach(b) :
             Settles(b, [l \in Lines |-> RowsWith(b, given, l)], FALSE)
  <2>1. PICK given \in OneEach(b) :
          Settles(b, [l \in Lines |-> RowsWith(b, given, l)], FALSE)
    BY <1>2
  <2> DEFINE rows == [l \in Lines |-> RowsWith(b, given, l)]
  <2>2. \A l \in Lines : rows[l] \subseteq Offered(l, b) BY DEF RowsWith
  <2>3. Settles(b, rows, FALSE) BY <2>1
  <2> HIDE DEF rows
  <2> QED BY <2>2, <2>3, Settled
<1>3. CASE Settles(b, [l \in Lines |-> Offered(l, b)], TRUE)
  <2> DEFINE rows == [l \in Lines |-> Offered(l, b)]
  <2>1. \A l \in Lines : rows[l] \subseteq Offered(l, b) OBVIOUS
  <2>2. Settles(b, rows, TRUE) BY <1>3
  <2> HIDE DEF rows
  <2> QED BY <2>1, <2>2, Settled
<1>4. CASE UNCHANGED <<assigned, byBoe>>
  <2>1. Additions' = Additions BY SameRemoved
  <2>2. Work' BY <2>1 DEF IInv, Work
  <2> QED BY <1>4, <2>2, Handed
<1> QED BY <1>1, <1>2, <1>3, <1>4

(* The automatic stages give a line only candidates of its own.            *)
LEMMA OrdersSettled == ASSUME IInv, SettleOrders PROVE IInv'
<1> USE DEF SettleOrders, At, NextStage
<1>1. PICK given : ByOrderNumber(given) OBVIOUS
<1> DEFINE won == [l \in Lines |->
             {r \in Open(l) :
                IF \E k \in Lines : given[k] = r THEN given[l] = r
                ELSE BestLine(Weights, {k \in Takers : r \in Open(k)}, r) = l}]
           winners == {l \in Lines : won[l] # {}}
           new == [l \in Lines |->
             IF l \notin winners THEN assigned[l]
             ELSE IF l \in pinned
             THEN Counting(assigned[l].main, {assigned[l].main} \union won[l], FALSE)
             ELSE Counting(FirstBest(Weights[l], won[l]), won[l], FALSE)]
<1>2. assigned' = new BY <1>1 DEF ByOrderNumber
<1>3. \A l \in Lines : won[l] \subseteq Open(l) OBVIOUS
<1>4. \A l \in Lines : Open(l) \intersect Removed(l) = {}
  BY FoundKept DEF Open, CitedRows
<1>5. \A l \in winners : l \in Takers BY <1>3 DEF Open
<1>6. \A l \in winners \intersect pinned : assigned[l].main \notin Removed(l)
  <2>1. \A l \in winners \intersect pinned : assigned[l].rows # {} /\ l \notin byBoe
    BY <1>5 DEF Takers
  <2>2. \A l \in winners \intersect pinned : assigned[l].main \in assigned[l].rows
    BY <2>1 DEF IInv, MainCounted, Early
  <2> QED BY <2>2 DEF IInv, Off
<1>7. \A l \in Lines :
        \/ new[l] = assigned[l]
        \/ /\ l \in winners \intersect pinned
           /\ new[l] = Counting(assigned[l].main, {assigned[l].main} \union won[l], FALSE)
        \/ new[l] = Counting(FirstBest(Weights[l], won[l]), won[l], FALSE)
  OBVIOUS
<1> HIDE DEF won, winners, new
<1>8. ASSUME NEW l \in Lines
      PROVE  IsMatch(new[l]) /\ new[l].rows \intersect Removed(l) = {}
  <2>1. CASE new[l] = assigned[l] BY <2>1 DEF IInv, Shaped, Off
  <2>2. CASE /\ l \in winners \intersect pinned
             /\ new[l] = Counting(assigned[l].main, {assigned[l].main} \union won[l], FALSE)
    <3>1. IsMatch(new[l]) /\ new[l].rows = {assigned[l].main} \union won[l]
      BY <2>2 DEF Counting, IsMatch
    <3> QED BY <2>2, <3>1, <1>3, <1>4, <1>6
  <2>3. CASE new[l] = Counting(FirstBest(Weights[l], won[l]), won[l], FALSE)
    <3>1. IsMatch(new[l]) /\ new[l].rows = won[l] BY <2>3 DEF Counting, IsMatch
    <3> QED BY <3>1, <1>3, <1>4
  <2> QED BY <1>7, <2>1, <2>2, <2>3
<1>9. MainCounted' BY DEF MainCounted, Early
<1>10. assigned' = [l \in Lines |-> new[l]] BY <1>2 DEF new
<1> QED BY <1>8, <1>9, <1>10, Matched

LEMMA Groups == ASSUME IInv, SettleGroup PROVE IInv'
<1> USE DEF SettleGroup, At, Done
<1>1. PICK l \in todo :
        \/ assigned' = [assigned EXCEPT ![l] = Counting(GroupBest(l), RateGroup(l), FALSE)]
        \/ UNCHANGED assigned
  OBVIOUS
<1>2. assigned = [k \in Lines |-> assigned[k]] BY DEF IInv, Shaped
<1> DEFINE new == [k \in Lines |-> assigned'[k]]
<1>3. assigned' = new BY <1>1, <1>2
<1>4. \A k \in Lines : \/ new[k] = assigned[k]
                       \/ new[k] = Counting(GroupBest(k), RateGroup(k), FALSE)
  BY <1>1, <1>2
<1> HIDE DEF new
<1>5. ASSUME NEW k \in Lines
      PROVE  IsMatch(new[k]) /\ new[k].rows \intersect Removed(k) = {}
  <2>1. CASE new[k] = assigned[k] BY <2>1 DEF IInv, Shaped, Off
  <2>2. CASE new[k] = Counting(GroupBest(k), RateGroup(k), FALSE)
    <3>1. IsMatch(new[k]) /\ new[k].rows = RateGroup(k) BY <2>2 DEF Counting, IsMatch
    <3>2. RateGroup(k) \subseteq Found(k) BY DEF RateGroup
    <3> QED BY <3>1, <3>2, FoundKept
  <2> QED BY <1>4, <2>1, <2>2
<1>6. MainCounted' BY DEF MainCounted, Early
<1>7. assigned' = [k \in Lines |-> new[k]] BY <1>3 DEF new
<1> QED BY <1>5, <1>6, <1>7, Matched

(* Whoever is given a row by an assignment was offered it.                 *)
LEMMA HeaviestOffered ==
  ASSUME NEW options, NEW weight, NEW given \in Heaviest(options, weight),
         NEW l \in Lines, given[l] # NoRow
  PROVE  given[l] \in options[l]
<1>1. given \in OneToOne(options) BY DEF Heaviest
<1>2. <<l, given[l]>> \in UNION {{<<k, r>> : r \in options[k]} : k \in Lines}
  BY <1>1 DEF OneToOne
<1>3. PICK k \in Lines : <<l, given[l]>> \in {<<k, r>> : r \in options[k]} BY <1>2
<1>4. PICK r \in options[k] : <<l, given[l]>> = <<k, r>> BY <1>3
<1> QED BY <1>4

LEMMA Rest == ASSUME IInv, AssignRest PROVE IInv'
<1> USE DEF AssignRest, At, NextStage
<1> DEFINE options == [l \in Lines |-> IF Competes(l) THEN Found(l) \ claimed ELSE {}]
<1>1. PICK given \in Heaviest(options, Weights) :
        assigned' = [l \in Lines |-> IF given[l] = NoRow THEN assigned[l]
                                     ELSE Counting(given[l], {given[l]}, FALSE)]
  OBVIOUS
<1>2. \A l \in Lines : options[l] \subseteq Found(l) OBVIOUS
<1> HIDE DEF options
<1>3. \A l \in Lines : given[l] # NoRow => given[l] \in options[l] BY HeaviestOffered
<1> DEFINE new == [l \in Lines |-> IF given[l] = NoRow THEN assigned[l]
                                   ELSE Counting(given[l], {given[l]}, FALSE)]
<1>4. ASSUME NEW l \in Lines
      PROVE  IsMatch(new[l]) /\ new[l].rows \intersect Removed(l) = {}
  <2>1. CASE given[l] = NoRow
    <3>1. new[l] = assigned[l] BY <2>1
    <3> QED BY <3>1 DEF IInv, Shaped, Off
  <2>2. CASE given[l] # NoRow
    <3>1. new[l] = Counting(given[l], {given[l]}, FALSE) BY <2>2
    <3> HIDE DEF new
    <3>2. IsMatch(new[l]) /\ new[l].rows = {given[l]} BY <3>1 DEF Counting, IsMatch
    <3>3. given[l] \in Found(l) BY <2>2, <1>2, <1>3
    <3> QED BY <3>2, <3>3, FoundKept
  <2> QED BY <2>1, <2>2
<1>5. MainCounted' BY DEF MainCounted, Early
<1>6. assigned' = [l \in Lines |-> new[l]] BY <1>1
<1> HIDE DEF new
<1> QED BY <1>4, <1>5, <1>6, Matched

LEMMA AddedJoined == ASSUME IInv, JoinAdded PROVE IInv'
<1> USE DEF JoinAdded, At, NextStage
<1> DEFINE new == [l \in Lines |->
             IF added[l] \subseteq assigned[l].rows THEN assigned[l]
             ELSE IF assigned[l].rows = {}
             THEN Counting(CHOOSE r \in added[l] : IsLastBest(ForcedWeights[l], added[l], r),
                           added[l], FALSE)
             ELSE Counting(assigned[l].main, assigned[l].rows \union added[l], FALSE)]
<1>1. assigned' = new OBVIOUS
<1>2. \A l \in Lines :
        \/ new[l] = assigned[l]
        \/ \E main : new[l] = Counting(main, added[l], FALSE)
        \/ \E main : new[l] = Counting(main, assigned[l].rows \union added[l], FALSE)
  OBVIOUS
<1>3. assigned' = [l \in Lines |-> new[l]] BY <1>1
<1> HIDE DEF new
<1>4. ASSUME NEW l \in Lines
      PROVE  IsMatch(new[l]) /\ new[l].rows \intersect Removed(l) = {}
  <2>1. CASE new[l] = assigned[l] BY <2>1 DEF IInv, Shaped, Off
  <2>2. ASSUME NEW main, new[l] = Counting(main, added[l], FALSE)
        PROVE  IsMatch(new[l]) /\ new[l].rows \intersect Removed(l) = {}
    <3>1. IsMatch(new[l]) /\ new[l].rows = added[l] BY <2>2 DEF Counting, IsMatch
    <3> QED BY <3>1 DEF IInv, Off
  <2>3. ASSUME NEW main, new[l] = Counting(main, assigned[l].rows \union added[l], FALSE)
        PROVE  IsMatch(new[l]) /\ new[l].rows \intersect Removed(l) = {}
    <3>1. IsMatch(new[l]) /\ new[l].rows = assigned[l].rows \union added[l]
      BY <2>3 DEF Counting, IsMatch
    <3> QED BY <3>1 DEF IInv, Off
  <2> QED BY <1>2, <2>1, <2>2, <2>3
<1>5. MainCounted' BY DEF MainCounted, Early
<1> QED BY <1>3, <1>4, <1>5, Matched

LEMMA Shares == ASSUME IInv, SplitShared PROVE IInv'
<1> USE DEF SplitShared, At, NextStage
<1> DEFINE new == [l \in Lines |-> IF \E r \in assigned[l].rows : Splits(r)
                                   THEN [assigned[l] EXCEPT !.part = TRUE] ELSE assigned[l]]
<1>1. assigned' = [l \in Lines |-> new[l]] OBVIOUS
<1>2. \A l \in Lines : \/ new[l] = assigned[l]
                       \/ new[l] = [assigned[l] EXCEPT !.part = TRUE]
  OBVIOUS
<1> HIDE DEF new
<1>3. ASSUME NEW l \in Lines
      PROVE  IsMatch(new[l]) /\ new[l].rows \intersect Removed(l) = {}
  <2>1. IsMatch(assigned[l]) BY DEF IInv, Shaped
  <2>2. IsMatch(new[l]) /\ new[l].rows = assigned[l].rows
    BY <1>2, <2>1 DEF IsMatch, Counting
  <2> QED BY <2>2 DEF IInv, Off
<1>4. MainCounted' BY DEF MainCounted, Early
<1> QED BY <1>1, <1>3, <1>4, Matched

(* Only a line without decisions of its own joins a pool.                  *)
LEMMA UneditedKeepsAll ==
  ASSUME IInv, NEW l, ~Edited(l) PROVE Removed(l) = {}
  BY WorldAssumption DEF IInv, Shaped, Edited, Removed

LEMMA Twinned == ASSUME IInv, PoolTwins PROVE IInv'
<1> USE DEF PoolTwins, At, NextStage
<1> DEFINE new == [l \in Lines |->
             IF ~Pools(l) THEN assigned[l]
             ELSE IF Reached(l)
             THEN Counting(FirstBest(Weights[l], Found(l) \intersect PoolRows(l)), PoolRows(l), TRUE)
             ELSE NoMatch]
<1>1. assigned' = [l \in Lines |-> new[l]] OBVIOUS
<1>2. \A l \in Lines : \/ new[l] = assigned[l]
                       \/ Pools(l) /\ \E main, rows, part : new[l] = Counting(main, rows, part)
  BY DEF NoMatch
<1> HIDE DEF new
<1>3. ASSUME NEW l \in Lines
      PROVE  IsMatch(new[l]) /\ new[l].rows \intersect Removed(l) = {}
  <2>1. CASE new[l] = assigned[l] BY <2>1 DEF IInv, Shaped, Off
  <2>2. ASSUME Pools(l), NEW main, NEW rows, NEW part, new[l] = Counting(main, rows, part)
        PROVE  IsMatch(new[l]) /\ new[l].rows \intersect Removed(l) = {}
    <3>1. ~Edited(l) BY <2>2 DEF Pools, Poolable
    <3>2. Removed(l) = {} BY <3>1, UneditedKeepsAll
    <3>3. IsMatch(new[l]) BY <2>2 DEF Counting, IsMatch
    <3> QED BY <3>2, <3>3
  <2> QED BY <1>2, <2>1, <2>2
<1>4. MainCounted' BY DEF MainCounted, Early
<1> QED BY <1>1, <1>3, <1>4, Matched

LEMMA Saved == ASSUME IInv, SaveMatches PROVE IInv'
<1> USE DEF SaveMatches, At, NextStage
<1>1. \A l \in Lines : assigned'[l] = NoMatch /\ added'[l] = {} OBVIOUS
<1>2. IsMatch(NoMatch) /\ NoMatch.rows = {} BY DEF NoMatch, Counting, IsMatch
<1>3. AtRest' BY <1>1, <1>2 DEF AtRest
<1>4. Shaped' BY <1>1, <1>2 DEF IInv, Shaped, sheetVars, decisionVars
<1>5. PinsKept' BY DEF IInv, PinsKept, sheetVars, decisionVars
<1>6. Off' BY <1>3 DEF Off, AtRest
<1>7. Work' BY DEF Work
<1>8. MainCounted' BY DEF MainCounted, Early
<1> QED BY <1>3, <1>4, <1>5, <1>6, <1>7, <1>8 DEF IInv

LEMMA MatchStepKeeps == ASSUME IInv, MatchStep PROVE IInv'
  BY HandsOn, Pins, Adds, Bills, OrdersSettled, Groups, Rest, AddedJoined, Shares, Twinned, Saved
  DEF MatchStep
-----------------------------------------------------------------------------
(* Between runs only the decisions and the sheets change; what is to show  *)
(* is that a pin and a removal of the same receipt never stand together.   *)

LEMMA BetweenRuns ==
  ASSUME IInv, stage = "idle", UNCHANGED <<world, stage, todo, runVars>>,
         pins' = [l \in Lines |-> pins'[l]],
         edits' = [l \in Lines |-> [d \in Docs |-> edits'[l][d]]],
         PinsKept'
  PROVE  IInv'
<1> USE DEF runVars
<1>1. AtRest' BY DEF IInv, AtRest
<1>2. Shaped' BY DEF IInv, Shaped
<1>3. Off' BY <1>1 DEF Off, AtRest
<1>4. Work' BY DEF IInv, Work
<1>5. MainCounted' BY DEF MainCounted, Early
<1> QED BY <1>1, <1>2, <1>3, <1>4, <1>5 DEF IInv

LEMMA SheetsChange ==
  ASSUME IInv, \/ \E o \in Orders : \E new : NewSheet(o, new)
               \/ \E o \in Orders : RetireOrReturn(o)
  PROVE  IInv'
<1>1. stage = "idle" /\ UNCHANGED <<world, decisionVars, stage, todo, runVars>>
  BY DEF NewSheet, RetireOrReturn
<1>2. PinsKept' BY <1>1 DEF IInv, PinsKept, decisionVars
<1>3. pins' = [l \in Lines |-> pins'[l]] BY <1>1 DEF IInv, Shaped, decisionVars
<1>4. edits' = [l \in Lines |-> [d \in Docs |-> edits'[l][d]]]
  BY <1>1 DEF IInv, Shaped, decisionVars
<1> QED BY <1>1, <1>2, <1>3, <1>4, BetweenRuns

(* A decision replaces the pin and the edits of its own line.              *)
LEMMA Decided ==
  ASSUME IInv, NEW l \in Lines, Decide(l), NEW pin, NEW act,
         pins' = [pins EXCEPT ![l] = pin],
         act = [d \in Docs |-> act[d]], edits' = [edits EXCEPT ![l] = act],
         pin.doc \in Docs => act[pin.doc].act # "remove"
  PROVE  IInv'
<1>1. stage = "idle" /\ UNCHANGED <<world, stage, todo, runVars>>
  BY DEF Decide, sheetVars
<1>2. pins = [k \in Lines |-> pins[k]] /\ edits = [k \in Lines |-> [d \in Docs |-> edits[k][d]]]
  BY DEF IInv, Shaped
<1>3. /\ pins' = [k \in Lines |-> pins'[k]]
      /\ pins'[l] = pin
      /\ \A k \in Lines \ {l} : pins'[k] = pins[k]
  BY <1>2
<1>4. /\ DOMAIN edits' = Lines
      /\ edits'[l] = act
      /\ \A k \in Lines \ {l} : edits'[k] = edits[k]
  BY <1>2
<1>5. edits' = [k \in Lines |-> edits'[k]] BY <1>2
<1>6. \A k \in Lines : edits[k] = [d \in Docs |-> edits[k][d]] BY <1>2
<1>7. \A k \in Lines : edits'[k] = [d \in Docs |-> edits'[k][d]] BY <1>4, <1>6
<1>8. edits' = [k \in Lines |-> [d \in Docs |-> edits'[k][d]]] BY <1>5, <1>7
<1>9. PinsKept'
  <2>1. ASSUME NEW k \in Lines, pins'[k].doc \in Docs
        PROVE  edits'[k][pins'[k].doc].act # "remove"
    <3>1. CASE k = l BY <3>1, <2>1, <1>3, <1>4
    <3>2. CASE k # l BY <3>2, <2>1, <1>3, <1>4 DEF IInv, PinsKept
    <3> QED BY <3>1, <3>2
  <2> QED BY <2>1 DEF PinsKept
<1> QED BY <1>1, <1>3, <1>8, <1>9, BetweenRuns

OneEdit(l, d, edit) == [c \in Docs |-> IF c = d THEN edit ELSE edits[l][c]]

\* An edit of one document of a line that keeps or clears its pin.
LEMMA OneEditDecided ==
  ASSUME IInv, NEW l \in Lines, NEW d \in Docs, NEW edit, NEW pin, Decide(l),
         pin \in {NoPin, pins[l]}, pins' = [pins EXCEPT ![l] = pin],
         edits' = [edits EXCEPT ![l][d] = edit],
         pin.doc = d => edit.act # "remove"
  PROVE  IInv'
<1> DEFINE act == OneEdit(l, d, edit)
<1>1. edits' = [edits EXCEPT ![l] = act]
  <2>1. edits[l] = [c \in Docs |-> edits[l][c]] BY DEF IInv, Shaped
  <2>2. [edits[l] EXCEPT ![d] = edit] = act BY <2>1 DEF OneEdit
  <2> QED BY <2>2
<1>2. /\ act = [c \in Docs |-> act[c]]
      /\ act[d] = edit
      /\ \A c \in Docs \ {d} : act[c] = edits[l][c]
  BY DEF OneEdit
<1>3. NoPin.doc \notin Docs BY WorldAssumption DEF NoPin
<1> HIDE DEF act
<1>4. ASSUME pin.doc \in Docs PROVE act[pin.doc].act # "remove"
  <2>1. CASE pin.doc = d BY <2>1, <1>2
  <2>2. CASE pin.doc # d
    <3>1. pin = pins[l] BY <1>3, <1>4
    <3> QED BY <2>2, <3>1, <1>2, <1>4 DEF IInv, PinsKept
  <2> QED BY <2>1, <2>2
<1> QED BY <1>1, <1>2, <1>4, Decided

LEMMA PinAsItWas ==
  ASSUME IInv, NEW l \in Lines PROVE pins = [pins EXCEPT ![l] = pins[l]]
  BY DEF IInv, Shaped

LEMMA AddRemoveUndo ==
  ASSUME IInv, NEW l \in Lines, NEW d \in Docs, NEW shared,
         Add(l, d, shared) \/ Remove(l, d) \/ UndoEdit(l, d)
  PROVE  IInv'
<1>1. pins = [pins EXCEPT ![l] = pins[l]] BY PinAsItWas
<1>2. NoPin.doc # d BY WorldAssumption DEF NoPin
<1>3. CASE Add(l, d, shared)
  <2> DEFINE pin == IF pins[l].doc = NoDoc THEN NoPin ELSE pins[l]
             edit == EditTo(l, "add", shared)
  <2>1. Decide(l) /\ edits' = [edits EXCEPT ![l][d] = edit] BY <1>3 DEF Add
  <2>2. pin \in {NoPin, pins[l]} /\ pins' = [pins EXCEPT ![l] = pin]
    BY <1>1, <1>3 DEF Add
  <2>3. edit.act # "remove" BY DEF EditTo
  <2> HIDE DEF pin, edit
  <2> QED BY <2>1, <2>2, <2>3, OneEditDecided
<1>4. CASE Remove(l, d)
  <2> DEFINE pin == IF pins[l].doc = d THEN NoPin ELSE pins[l]
             edit == EditTo(l, "remove", FALSE)
  <2>1. Decide(l) /\ edits' = [edits EXCEPT ![l][d] = edit] BY <1>4 DEF Remove
  <2>2. pin \in {NoPin, pins[l]} /\ pins' = [pins EXCEPT ![l] = pin]
    BY <1>1, <1>4 DEF Remove
  <2>3. pin.doc # d BY <1>2
  <2> HIDE DEF pin, edit
  <2> QED BY <2>1, <2>2, <2>3, OneEditDecided
<1>5. CASE UndoEdit(l, d)
  <2>1. Decide(l) /\ edits' = [edits EXCEPT ![l][d] = NoEdit] /\ UNCHANGED pins
    BY <1>5 DEF UndoEdit
  <2>2. NoEdit.act # "remove" BY DEF NoEdit
  <2> QED BY <1>1, <2>1, <2>2, OneEditDecided
<1> QED BY <1>3, <1>4, <1>5

LEMMA PinDecisions ==
  ASSUME IInv, NEW l \in Lines,
         \/ \E d \in Docs \union {NoDoc}, shared \in BOOLEAN : SetPin(l, d, shared)
         \/ NotReceived(l) \/ BackToAuto(l) \/ UndoPin(l)
  PROVE  IInv'
<1>1. NoPin.doc \notin Docs /\ NoDoc \notin Docs BY WorldAssumption DEF NoPin
<1>2. ASSUME NEW d \in Docs \union {NoDoc}, NEW shared, SetPin(l, d, shared) PROVE IInv'
  <2> DEFINE pin == PinTo(l, d, shared /\ d # NoDoc)
             act == [e \in Docs |-> IF e = d THEN NoEdit ELSE edits[l][e]]
  <2>1. /\ Decide(l) /\ pins' = [pins EXCEPT ![l] = pin]
        /\ edits' = [edits EXCEPT ![l] = act]
    BY <1>2 DEF SetPin
  <2>2. pin.doc = d BY DEF PinTo
  <2>3. act = [e \in Docs |-> act[e]] OBVIOUS
  <2>4. d \in Docs => act[d].act # "remove" BY DEF NoEdit
  <2> HIDE DEF pin, act
  <2> QED BY <2>1, <2>2, <2>3, <2>4, Decided
<1>3. CASE NotReceived(l)
  <2> DEFINE pin == PinTo(l, NoDoc, FALSE)
             act == [d \in Docs |-> IF edits[l][d].act = "add" THEN NoEdit ELSE edits[l][d]]
  <2>1. /\ Decide(l) /\ pins' = [pins EXCEPT ![l] = pin]
        /\ edits' = [edits EXCEPT ![l] = act]
    BY <1>3 DEF NotReceived
  <2>2. pin.doc \notin Docs BY <1>1 DEF PinTo
  <2>3. act = [e \in Docs |-> act[e]] OBVIOUS
  <2> HIDE DEF pin, act
  <2> QED BY <2>1, <2>2, <2>3, Decided
<1>4. CASE BackToAuto(l)
  <2> DEFINE act == [d \in Docs |-> NoEdit]
  <2>1. /\ Decide(l) /\ pins' = [pins EXCEPT ![l] = NoPin]
        /\ edits' = [edits EXCEPT ![l] = act]
    BY <1>4 DEF BackToAuto
  <2>2. act = [e \in Docs |-> act[e]] OBVIOUS
  <2> HIDE DEF act
  <2> QED BY <1>1, <2>1, <2>2, Decided
<1>5. CASE UndoPin(l)
  <2>1. Decide(l) /\ pins' = [pins EXCEPT ![l] = NoPin] /\ UNCHANGED edits
    BY <1>5 DEF UndoPin
  <2>2. edits' = [edits EXCEPT ![l] = edits[l]] BY <2>1 DEF IInv, Shaped
  <2>3. edits[l] = [e \in Docs |-> edits[l][e]] BY DEF IInv, Shaped
  <2> QED BY <1>1, <2>1, <2>2, <2>3, Decided
<1> QED BY <1>2, <1>3, <1>4, <1>5
-----------------------------------------------------------------------------
LEMMA InitIInv == ASSUME Init PROVE IInv
<1> USE DEF Init
<1>1. IsMatch(NoMatch) /\ NoMatch.rows = {} BY DEF NoMatch, Counting, IsMatch
<1>2. AtRest BY <1>1 DEF AtRest
<1>3. Shaped BY <1>1 DEF Shaped
<1>4. \A l \in Lines : pins[l].doc \notin Docs BY WorldAssumption DEF NoPin
<1>5. PinsKept BY <1>4 DEF PinsKept
<1>6. Off BY <1>2 DEF Off, AtRest
<1>7. Work BY DEF Work
<1>8. MainCounted BY DEF MainCounted, Early
<1> QED BY <1>2, <1>3, <1>5, <1>6, <1>7, <1>8 DEF IInv

LEMMA StutterKeeps == ASSUME IInv, UNCHANGED vars PROVE IInv'
<1> USE DEF vars, sheetVars, decisionVars, runVars
<1>1. Shaped' BY DEF IInv, Shaped
<1>2. PinsKept' BY DEF IInv, PinsKept
<1>3. \A l : Removed(l)' = Removed(l) BY SameRemoved
<1>4. Off' BY <1>3 DEF IInv, Off
<1>5. Additions' = Additions BY SameRemoved
<1>6. Work' BY <1>5 DEF IInv, Work
<1>7. MainCounted' BY DEF IInv, MainCounted
<1>8. AtRest' <=> AtRest BY DEF AtRest
<1> QED BY <1>1, <1>2, <1>4, <1>6, <1>7, <1>8 DEF IInv

LEMMA NextIInv == ASSUME IInv, [Next]_vars PROVE IInv'
<1>1. CASE MatchStep BY <1>1, MatchStepKeeps
<1>2. ASSUME NEW l \in Lines, NEW d \in Docs, NEW shared \in BOOLEAN, Add(l, d, shared)
      PROVE  IInv'
  BY <1>2, AddRemoveUndo
<1>3. ASSUME NEW l \in Lines, NEW d \in Docs, Remove(l, d) \/ UndoEdit(l, d)
      PROVE  IInv'
  BY <1>3, AddRemoveUndo
<1>4. ASSUME NEW l \in Lines,
             \/ \E d \in Docs \union {NoDoc}, shared \in BOOLEAN : SetPin(l, d, shared)
             \/ NotReceived(l) \/ BackToAuto(l) \/ UndoPin(l)
      PROVE  IInv'
  BY <1>4, PinDecisions
<1>5. ASSUME NEW o \in Orders, (\E new : NewSheet(o, new)) \/ RetireOrReturn(o)
      PROVE  IInv'
  BY <1>5, SheetsChange
<1>6. CASE UNCHANGED vars BY <1>6, StutterKeeps
<1> QED BY <1>1, <1>2, <1>3, <1>4, <1>5, <1>6 DEF Next

LEMMA IInvHides == IInv => RemovedStaysOff
  BY DEF IInv, Off, RemovedStaysOff

(* A receipt a person took off a line is never counted by it again, by any *)
(* stage of run_full_match(), until the decision is undone, replaced or    *)
(* stale because the line's description changed: whatever the sheets, and  *)
(* however many decisions and runs came before.                            *)
THEOREM RemovalsHold == Spec => []RemovedStaysOff
<1>1. Init => IInv BY InitIInv
<1>2. IInv /\ [Next]_vars => IInv' BY NextIInv
<1> QED BY <1>1, <1>2, IInvHides, PTL DEF Spec

-----------------------------------------------------------------------------
(* Who holds a receipt.                                                    *)

Takes(l) == assigned[l].rows \union added[l]
Joined == {"share", "pool", "save"}

\* What a stage has left to do is a decision in force; what waited for the
\* Bills of Entry was deferred to them; nobody is pinned twice.
Queued ==
  /\ stage \in {"pins", "late pins"} => \A l \in todo : LivePin(l)
  /\ stage \in {"adds", "late adds"} => \A p \in todo : LiveAdd(p[1], p[2])
  /\ stage = "pins" => \A l \in todo : assigned[l].rows = {}
  /\ stage \in {"idle", "pins", "adds"} => byBoe = {}
  /\ stage = "boe" => \A l \in byBoe : world.boe[l] \notin todo
  /\ stage = "groups" => todo \intersect (pinned \union byBoe) = {}
  /\ stage = "late pins" => \A l \in todo : Defers(l, pins[l].doc)
  /\ stage = "late adds" => \A p \in todo : Defers(p[1], p[2])
  /\ \A l \in duePins : LivePin(l) /\ Defers(l, pins[l].doc)
  /\ \A p \in dueAdds : LiveAdd(p[1], p[2]) /\ Defers(p[1], p[2])
  /\ stage = "idle" => claimed = {} /\ unfilled = {}

\* What a line holds without a pin or a Bill of Entry are candidates of its own
\* and receipts somebody added to it.
Own ==
  \A l \in Lines :
    /\ l \notin pinned \union byBoe => assigned[l].rows \subseteq Found(l) \union added[l]
    /\ \A r \in added[l] : r \in Rows /\ LiveAdd(l, world.doc[r])

\* A receipt nobody asked to keep twice is claimed by the line that takes it,
\* and by no other line but on a shared Bill of Entry; when the added receipts
\* have joined, all who hold it count shares.
OnBoeShare(l, r) == l \in byBoe /\ assigned[l].part /\ r \in assigned[l].rows
TakenOnce(r) ==
  /\ stage # "join" => \A l \in Lines : r \in Takes(l) => r \in claimed
  /\ \A l, k \in Lines : l # k /\ r \in Takes(l) /\ r \in Takes(k) => OnBoeShare(l, r)
SharesOnly(r) ==
  \A l, k \in Lines : l # k /\ {l, k} \subseteq Holders(r) => assigned[l].part
Once == \A r \in Rows : ~KeptByBoth(r) =>
  IF stage \in Joined THEN ~ToppedUp(r) => SharesOnly(r) ELSE TakenOnce(r)

\* A row a person named for a line: added to it, or the primary row of its pin,
\* which no later stage takes away.
NamedFor(l, r) ==
  /\ NamedBy(l, world.doc[r])
  /\ IF stage \in Joined
     THEN r \in assigned[l].rows /\ (l \in pinned \/ Edited(l))
     ELSE \/ r \in added[l]
          \/ l \in pinned /\ r \in assigned[l].rows /\ r = assigned[l].main
Named(r) == \E l \in Lines : NamedFor(l, r)
Kept ==
  /\ stage \in {"pins", "adds"} => \A r \in claimed : Named(r)
  /\ \A p \in unfilled : Defers(p[1], p[2]) \/ \A r \in RowsOf(p[2]) : Named(r)

HeldInv == Queued /\ Own /\ Once /\ Kept
Frozen == UNCHANGED <<sheetVars, decisionVars>>

(* The evidence and the decisions do not change during a run.              *)
LEMMA SameEvidence ==
  ASSUME Frozen
  PROVE  /\ \A l : /\ LivePin(l)' <=> LivePin(l)
                   /\ Edited(l)' <=> Edited(l)
                   /\ Found(l)' = Found(l)
         /\ \A l, d : /\ LiveAdd(l, d)' <=> LiveAdd(l, d)
                      /\ Defers(l, d)' <=> Defers(l, d)
                      /\ NamedBy(l, d)' <=> NamedBy(l, d)
         /\ \A r : KeptByBoth(r)' <=> KeptByBoth(r)
         /\ \A d : RowsOf(d)' = RowsOf(d)
         /\ world' = world /\ pins' = pins /\ edits' = edits /\ Active' = Active
<1>1. world' = world /\ desc' = desc /\ active' = active /\ pins' = pins /\ edits' = edits
  BY DEF Frozen, sheetVars, decisionVars
<1>2. \A l : OrderOf(l)' = OrderOf(l) BY <1>1 DEF OrderOf
<1>3. Active' = Active BY <1>1, <1>2 DEF Active
<1>4. \A d : RowsOf(d)' = RowsOf(d) BY <1>1 DEF RowsOf
<1>5. \A l : LivePin(l)' <=> LivePin(l) BY <1>1, <1>3 DEF LivePin
<1>6. \A l, d : LiveEdit(l, d)' <=> LiveEdit(l, d) BY <1>1, <1>3 DEF LiveEdit
<1>7. \A l, d : LiveAdd(l, d)' <=> LiveAdd(l, d) BY <1>1, <1>6 DEF LiveAdd
<1>8. \A l : Edited(l)' <=> Edited(l) BY <1>6 DEF Edited
<1>9. \A l, d : Defers(l, d)' <=> Defers(l, d) BY <1>1, <1>4 DEF Defers
<1>10. \A l, d : NamedBy(l, d)' <=> NamedBy(l, d) BY <1>1, <1>5, <1>7 DEF NamedBy
<1>11. \A r : KeptByBoth(r)' <=> KeptByBoth(r) BY <1>1, <1>5, <1>7 DEF KeptByBoth
<1>12. \A l : Removed(l)' = Removed(l) BY <1>1, <1>6 DEF Removed
<1>13. \A l, r : Identified(l, r)' <=> Identified(l, r)
  BY <1>1, <1>2 DEF Identified, Contradicts, Cites, SameParty, SameMaterial
<1>14. \A l, r : FabricContradicts(l, r)' <=> FabricContradicts(l, r)
  BY <1>1, <1>2, <1>3 DEF FabricContradicts, SameMaterial
<1>15. \A l : Found(l)' = Found(l) BY <1>12, <1>13, <1>14 DEF Found
<1> QED BY <1>1, <1>3, <1>4, <1>5, <1>7, <1>8, <1>9, <1>10, <1>11, <1>15

(* A step hands receipt r to the lines G, which claim it, and to no line   *)
(* twice but on a shared Bill of Entry.                                    *)
LEMMA GivenOnce ==
  ASSUME NEW r, NEW G, TakenOnce(r), stage # "join", claimed \subseteq claimed',
         \A l \in Lines : r \in Takes(l)' =>
           l \in G \/ (r \in Takes(l) /\ (OnBoeShare(l, r) => OnBoeShare(l, r)')),
         G # {} => r \notin claimed /\ (stage' # "join" => r \in claimed'),
         \A l, k \in G : l # k => OnBoeShare(l, r)'
  PROVE  TakenOnce(r)'
<1>1. \A l \in Lines : r \in Takes(l) => r \in claimed BY DEF TakenOnce
<1>2. ASSUME NEW l \in Lines, r \in Takes(l)', stage' # "join"
      PROVE  r \in claimed'
  BY <1>1, <1>2
<1>3. ASSUME NEW l \in Lines, NEW k \in Lines, l # k, r \in Takes(l)', r \in Takes(k)'
      PROVE  OnBoeShare(l, r)'
  <2>1. CASE l \in G
    <3>1. k \in G BY <2>1, <1>1, <1>3
    <3> QED BY <2>1, <3>1, <1>3
  <2>2. CASE l \notin G
    <3>1. r \in Takes(l) /\ (OnBoeShare(l, r) => OnBoeShare(l, r)') BY <2>2, <1>3
    <3>2. r \in Takes(k) BY <3>1, <1>1, <1>3
    <3> QED BY <3>1, <3>2, <1>3 DEF TakenOnce
  <2> QED BY <2>1, <2>2
<1> QED BY <1>2, <1>3 DEF TakenOnce

(* What a step of a run before the added receipts join has to show.        *)
Before == {"pins", "adds", "boe", "late pins", "late adds", "orders", "groups", "rest"}

NamesKept == \A l, r : NamedFor(l, r) => NamedFor(l, r)'

LEMMA BeforeStep ==
  ASSUME HeldInv, Frozen, stage \in Before, stage' \in Before \union {"join"},
         Queued', Own', NamesKept,
         \A r \in Rows : ~KeptByBoth(r) => TakenOnce(r)',
         stage' \in {"pins", "adds"} =>
           stage \in {"pins", "adds"} /\ \A r \in claimed' \ claimed : Named(r)',
         \A p \in unfilled' \ unfilled :
           Defers(p[1], p[2]) \/ \A r \in RowsOf(p[2]) : Named(r) \/ Named(r)'
  PROVE  HeldInv'
<1>1. \A r : Named(r) => Named(r)' BY DEF Named, NamesKept
<1>2. Once'
  <2>1. stage' \notin Joined BY DEF Before, Joined
  <2> QED BY <2>1, SameEvidence DEF Once
<1>3. Kept'
  <2>1. stage' \in {"pins", "adds"} => \A r \in claimed' : Named(r)'
    BY <1>1 DEF HeldInv, Kept
  <2>2. ASSUME NEW p \in unfilled'
        PROVE  Defers(p[1], p[2])' \/ \A r \in RowsOf(p[2])' : Named(r)'
    <3>1. Defers(p[1], p[2]) \/ \A r \in RowsOf(p[2]) : Named(r)'
      BY <1>1 DEF HeldInv, Kept
    <3> QED BY <3>1, SameEvidence
  <2> QED BY <2>1, <2>2 DEF Kept
<1> QED BY <1>2, <1>3 DEF HeldInv

-----------------------------------------------------------------------------
(* The stages keep both.  First those that only hand on.                   *)
LEMMA HandedHeld ==
  ASSUME HeldInv, Frozen, stage \in Before, stage' \in Before,
         UNCHANGED <<assigned, added, claimed, byBoe, unfilled>>, pinned \subseteq pinned',
         Queued', stage' \in {"pins", "adds"} => stage \in {"pins", "adds"}
  PROVE  HeldInv'
<1>0. /\ assigned' = assigned /\ added' = added /\ claimed' = claimed
      /\ byBoe' = byBoe /\ unfilled' = unfilled
  OBVIOUS
<1>1. Own' BY <1>0, SameEvidence DEF HeldInv, Own
<1>2. stage \notin Joined /\ stage' \notin Joined /\ stage # "join" BY DEF Before, Joined
<1>3. NamesKept BY <1>0, <1>2, SameEvidence DEF NamesKept, NamedFor
<1>4. ASSUME NEW r \in Rows, ~KeptByBoth(r) PROVE TakenOnce(r)'
  <2>1. TakenOnce(r) BY <1>2, <1>4 DEF HeldInv, Once
  <2>2. \A l : Takes(l)' = Takes(l) BY <1>0 DEF Takes
  <2>3. \A l : OnBoeShare(l, r) => OnBoeShare(l, r)' BY <1>0 DEF OnBoeShare
  <2> DEFINE G == {}
  <2>4. \A l \in Lines : r \in Takes(l)' =>
          l \in G \/ (r \in Takes(l) /\ (OnBoeShare(l, r) => OnBoeShare(l, r)'))
    BY <2>2, <2>3
  <2>5. /\ G # {} => r \notin claimed /\ (stage' # "join" => r \in claimed')
        /\ \A l, k \in G : l # k => OnBoeShare(l, r)'
    OBVIOUS
  <2>6. claimed \subseteq claimed' BY <1>0
  <2> HIDE DEF G
  <2> QED BY <1>2, <2>1, <2>4, <2>5, <2>6, GivenOnce
<1> QED BY <1>0, <1>1, <1>3, <1>4, BeforeStep

LEMMA HandsOnHeld ==
  ASSUME IInv, HeldInv, \/ StartMatch \/ PinsDone \/ AddsDone \/ BoeDone \/ LatePinsDone
                        \/ LateAddsDone \/ GroupsDone
  PROVE  HeldInv'
<1> USE DEF At, NextStage
<1>f. Frozen
  BY DEF StartMatch, PinsDone, AddsDone, BoeDone, LatePinsDone, LateAddsDone, GroupsDone, Frozen
<1>u. UNCHANGED runVars
  BY DEF StartMatch, PinsDone, AddsDone, BoeDone, LatePinsDone, LateAddsDone, GroupsDone
<1>q. Queued BY DEF HeldInv
<1>d. /\ assigned' = assigned /\ added' = added /\ claimed' = claimed /\ pinned' = pinned
      /\ byBoe' = byBoe /\ unfilled' = unfilled /\ duePins' = duePins /\ dueAdds' = dueAdds
  BY <1>u DEF runVars
<1>w. /\ \A l \in duePins' : LivePin(l)' /\ Defers(l, pins[l].doc)'
      /\ \A p \in dueAdds' : LiveAdd(p[1], p[2])' /\ Defers(p[1], p[2])'
  <2>1. \A l : Defers(l, pins[l].doc)' <=> Defers(l, pins[l].doc) BY <1>f, SameEvidence DEF Defers
  <2> QED BY <1>f, <1>d, <1>q, <2>1, SameEvidence DEF Queued
<1>1. CASE StartMatch
  <2>1. stage = "idle" /\ stage' = "pins" /\ todo' = {l \in Lines : LivePin(l)}
    BY <1>1 DEF StartMatch
  <2>2. AtRest BY <2>1 DEF IInv
  <2>3. claimed = {} /\ unfilled = {} /\ byBoe = {} BY <2>1, <1>q DEF Queued
  <2>4. Queued'
    <3>1. \A l \in todo' : LivePin(l)' /\ assigned'[l].rows = {}
      BY <2>1, <2>2, <1>f, <1>d, SameEvidence DEF AtRest
    <3> QED BY <2>1, <2>3, <3>1, <1>d, <1>w DEF Queued
  <2>5. Own' BY <2>2, <1>d DEF AtRest, Own
  <2>6. Once'
    <3>1. \A l \in Lines : Takes(l)' = {} BY <2>2, <1>d DEF Takes, AtRest
    <3> QED BY <2>1, <3>1 DEF Once, TakenOnce, Joined
  <2>7. Kept' BY <2>3, <1>d DEF Kept
  <2> QED BY <2>4, <2>5, <2>6, <2>7 DEF HeldInv
<1>2. CASE PinsDone
  <2>1. stage = "pins" /\ stage' = "adds" /\ todo' = {p \in Lines \X Docs : LiveAdd(p[1], p[2])}
    BY <1>2 DEF PinsDone
  <2>2. byBoe = {} BY <2>1, <1>q DEF Queued
  <2>3. \A p \in todo' : LiveAdd(p[1], p[2])' BY <2>1, <1>f, SameEvidence
  <2>4. Queued' BY <2>1, <2>2, <2>3, <1>d, <1>w DEF Queued
  <2> QED BY <2>1, <2>4, <1>f, <1>d, HandedHeld DEF Before
<1>3. CASE AddsDone
  <2>1. stage = "adds" /\ stage' = "boe" BY <1>3 DEF AddsDone
  <2>2. byBoe = {} BY <2>1, <1>q DEF Queued
  <2>3. Queued' BY <2>1, <2>2, <1>d, <1>w DEF Queued
  <2> QED BY <2>1, <2>3, <1>f, <1>d, HandedHeld DEF Before
<1>4. CASE BoeDone
  <2>1. stage = "boe" /\ stage' = "late pins" /\ todo' = duePins BY <1>4 DEF BoeDone
  <2>2. Queued' BY <2>1, <1>d, <1>w DEF Queued
  <2> QED BY <2>1, <2>2, <1>f, <1>d, HandedHeld DEF Before
<1>5. CASE LatePinsDone
  <2>1. stage = "late pins" /\ stage' = "late adds" /\ todo' = dueAdds BY <1>5 DEF LatePinsDone
  <2>2. Queued' BY <2>1, <1>d, <1>w DEF Queued
  <2> QED BY <2>1, <2>2, <1>f, <1>d, HandedHeld DEF Before
<1>6. CASE LateAddsDone
  <2>1. stage = "late adds" /\ stage' = "orders" BY <1>6 DEF LateAddsDone
  <2>2. Queued' BY <2>1, <1>d, <1>w DEF Queued
  <2> QED BY <2>1, <2>2, <1>f, <1>d, HandedHeld DEF Before
<1>7. CASE GroupsDone
  <2>1. stage = "groups" /\ stage' = "rest" BY <1>7 DEF GroupsDone
  <2>2. Queued' BY <2>1, <1>d, <1>w DEF Queued
  <2> QED BY <2>1, <2>2, <1>f, <1>d, HandedHeld DEF Before
<1> QED BY <1>1, <1>2, <1>3, <1>4, <1>5, <1>6, <1>7

-----------------------------------------------------------------------------
(* Pins.  A line takes the row while it has none.                          *)
LEMMA PinHeld ==
  ASSUME IInv, HeldInv, Frozen, stage \in Before, stage' = stage, Queued',
         NEW l \in Lines, TakePin(l), assigned[l].rows = {}, LivePin(l),
         stage \in {"pins", "adds"} \/ Defers(l, pins[l].doc),
         pinned' = pinned \union {l}, UNCHANGED <<added, byBoe>>
  PROVE  HeldInv'
<1> DEFINE d == pins[l].doc
<1>0. stage \notin Joined /\ stage' \notin Joined /\ stage # "join" BY DEF Before, Joined
<1>1. CASE /\ \A r \in RowsOf(d) : r \in claimed
           /\ unfilled' = unfilled \union {<<l, d>>}
           /\ UNCHANGED <<assigned, claimed>>
  <2>1. Own' BY <1>1, SameEvidence DEF HeldInv, Own
  <2>2. NamesKept BY <1>0, <1>1, SameEvidence DEF NamesKept, NamedFor
  <2>3. ASSUME NEW r \in Rows, ~KeptByBoth(r) PROVE TakenOnce(r)'
    <3> DEFINE G == {}
    <3>1. TakenOnce(r) BY <1>0, <2>3 DEF HeldInv, Once
    <3>2. \A k \in Lines : r \in Takes(k)' =>
            k \in G \/ (r \in Takes(k) /\ (OnBoeShare(k, r) => OnBoeShare(k, r)'))
      BY <1>1 DEF Takes, OnBoeShare
    <3>3. /\ G # {} => r \notin claimed /\ (stage' # "join" => r \in claimed')
          /\ \A k, j \in G : k # j => OnBoeShare(k, r)'
      OBVIOUS
    <3>4. claimed \subseteq claimed' BY <1>1
    <3> HIDE DEF G
    <3> QED BY <1>0, <3>1, <3>2, <3>3, <3>4, GivenOnce
  <2>4. ASSUME NEW p \in unfilled' \ unfilled
        PROVE  Defers(p[1], p[2]) \/ \A r \in RowsOf(p[2]) : Named(r) \/ Named(r)'
    <3>1. p[1] = l /\ p[2] = d BY <1>1, <2>4
    <3>2. stage \in {"pins", "adds"} => \A r \in RowsOf(d) : Named(r)
      BY <1>1 DEF HeldInv, Kept
    <3> QED BY <3>1, <3>2
  <2>5. \A r \in claimed' \ claimed : Named(r)' BY <1>1
  <2> QED BY <1>0, <2>1, <2>2, <2>3, <2>4, <2>5, BeforeStep
<1>2. ASSUME NEW best \in RowsOf(d), pins[l].shared \/ best \notin claimed,
             assigned' = [assigned EXCEPT ![l] = Counting(best, {best}, FALSE)],
             claimed' = IF pins[l].shared THEN claimed ELSE claimed \union {best},
             unfilled' = unfilled
      PROVE  HeldInv'
  <2>1. /\ assigned'[l] = Counting(best, {best}, FALSE)
        /\ \A k \in Lines \ {l} : assigned'[k] = assigned[k]
    BY <1>2 DEF IInv, Shaped
  <2>2. assigned'[l].main = best /\ assigned'[l].rows = {best} BY <2>1 DEF Counting
  <2>3. best \in Rows /\ world.doc[best] = d BY <1>2 DEF RowsOf
  <2>4. Own' BY <2>1, SameEvidence DEF HeldInv, Own
  <2>5. NamesKept
    <3> SUFFICES ASSUME NEW k, NEW r, NamedFor(k, r) PROVE NamedFor(k, r)'
      BY DEF NamesKept
    <3>1. CASE k \in Lines /\ k # l
      BY <3>1, <1>0, <2>1, SameEvidence DEF NamedFor
    <3>2. CASE k = l BY <3>2, <1>0, SameEvidence DEF NamedFor
    <3>3. CASE k \notin Lines
      <4>1. NamedBy(k, world.doc[r]) BY DEF NamedFor
      <4>2. k \in Lines BY <4>1 DEF NamedBy, LivePin, LiveAdd, LiveEdit, Active
      <4> QED BY <3>3, <4>2
    <3> QED BY <3>1, <3>2, <3>3
  <2>6. ASSUME NEW r \in Rows, ~KeptByBoth(r) PROVE TakenOnce(r)'
    <3> DEFINE G == {k \in Lines : k = l /\ r = best}
    <3>1. TakenOnce(r) BY <1>0, <2>6 DEF HeldInv, Once
    <3>2. \A k \in Lines : r \in Takes(k)' =>
            k \in G \/ (r \in Takes(k) /\ (OnBoeShare(k, r) => OnBoeShare(k, r)'))
      BY <2>1, <2>2 DEF Takes, OnBoeShare
    <3>3. r = best => ~pins[l].shared
      BY <2>3, <2>6 DEF KeptByBoth
    <3>4. G # {} => r \notin claimed /\ (stage' # "join" => r \in claimed')
      BY <1>2, <3>3
    <3>5. \A k, j \in G : k # j => OnBoeShare(k, r)' OBVIOUS
    <3>6. claimed \subseteq claimed' BY <1>2
    <3> HIDE DEF G
    <3> QED BY <1>0, <3>1, <3>2, <3>4, <3>5, <3>6, GivenOnce
  <2>7. ASSUME NEW r \in claimed' \ claimed PROVE Named(r)'
    <3>1. r = best BY <1>2, <2>7
    <3>2. NamedBy(l, world.doc[best]) BY <2>3 DEF NamedBy
    <3>3. NamedFor(l, best)' BY <3>2, <1>0, <2>2, SameEvidence DEF NamedFor
    <3> QED BY <3>1, <3>3 DEF Named
  <2> QED BY <1>0, <1>2, <2>4, <2>5, <2>6, <2>7, BeforeStep
<1>3. \/ /\ \A r \in RowsOf(d) : r \in claimed
         /\ unfilled' = unfilled \union {<<l, d>>}
         /\ UNCHANGED <<assigned, claimed>>
      \/ \E best \in RowsOf(d) :
           /\ pins[l].shared \/ best \notin claimed
           /\ assigned' = [assigned EXCEPT ![l] = Counting(best, {best}, FALSE)]
           /\ claimed' = IF pins[l].shared THEN claimed ELSE claimed \union {best}
           /\ unfilled' = unfilled
  BY DEF TakePin
<1> QED BY <1>1, <1>2, <1>3

LEMMA PinsHeld == ASSUME IInv, HeldInv, ClaimPin \/ LatePin PROVE HeldInv'
<1>q. Queued BY DEF HeldInv
<1>f. Frozen BY DEF ClaimPin, LatePin, At, Frozen
<1>d. \A l : Defers(l, pins[l].doc)' <=> Defers(l, pins[l].doc) BY <1>f, SameEvidence DEF Defers
<1>1. CASE ClaimPin
  <2>0. stage = "pins" /\ stage' = "pins" /\ added' = added /\ byBoe' = byBoe
        /\ dueAdds' = dueAdds
    BY <1>1 DEF ClaimPin, At, Done
  <2>1. PICK l \in todo :
          /\ todo' = todo \ {l}
          /\ \/ /\ UNCHANGED <<assigned, claimed, unfilled, duePins>>
                /\ pinned' = pinned \union {l}
             \/ /\ UNCHANGED <<assigned, claimed, unfilled, pinned>>
                /\ Defers(l, pins[l].doc) /\ duePins' = duePins \union {l}
             \/ /\ TakePin(l) /\ pinned' = pinned \union {l} /\ duePins' = duePins
    BY <1>1 DEF ClaimPin, At, Done
  <2>2. l \in Lines /\ LivePin(l) /\ assigned[l].rows = {}
    BY <2>0, <1>q DEF IInv, Work, Queued
  <2>3. Queued'
    <3>1. \A k \in duePins' : LivePin(k)' /\ Defers(k, pins[k].doc)'
      BY <2>1, <2>2, <1>d, <1>f, <1>q, SameEvidence DEF Queued
    <3>2. \A k \in todo' : LivePin(k)' BY <2>0, <2>1, <1>f, <1>q, SameEvidence DEF Queued
    <3>3. \A k \in todo' : assigned'[k].rows = {}
      <4>1. \A k \in Lines \ {l} : assigned'[k] = assigned[k]
        BY <2>1 DEF TakePin, IInv, Shaped
      <4>2. todo \subseteq Lines BY <2>0 DEF IInv, Work
      <4> QED BY <4>1, <4>2, <2>0, <2>1, <1>q DEF Queued
    <3>4. \A p \in dueAdds' : LiveAdd(p[1], p[2])' /\ Defers(p[1], p[2])'
      BY <2>0, <1>f, <1>q, SameEvidence DEF Queued
    <3> QED BY <2>0, <3>1, <3>2, <3>3, <3>4, <1>q DEF Queued
  <2>4. CASE TakePin(l) /\ pinned' = pinned \union {l}
    BY <2>0, <2>2, <2>3, <2>4, <1>f, PinHeld DEF Before
  <2>5. CASE UNCHANGED <<assigned, claimed, unfilled>> /\ pinned \subseteq pinned'
    BY <2>0, <2>3, <2>5, <1>f, HandedHeld DEF Before
  <2> QED BY <2>1, <2>4, <2>5
<1>2. CASE LatePin
  <2>0. stage = "late pins" /\ stage' = "late pins" /\ added' = added /\ byBoe' = byBoe
        /\ duePins' = duePins /\ dueAdds' = dueAdds
    BY <1>2 DEF LatePin, At, Done
  <2>1. PICK l \in todo :
          /\ todo' = todo \ {l}
          /\ pinned' = pinned \union {l}
          /\ \/ UNCHANGED <<assigned, claimed, unfilled>>
             \/ assigned[l].rows = {} /\ TakePin(l)
    BY <1>2 DEF LatePin, At, Done
  <2>2. l \in Lines /\ LivePin(l) /\ Defers(l, pins[l].doc)
    BY <2>0, <1>q DEF IInv, Work, Queued
  <2>3. Queued'
    BY <2>0, <2>1, <1>d, <1>f, <1>q, SameEvidence DEF Queued
  <2>4. CASE assigned[l].rows = {} /\ TakePin(l)
    BY <2>0, <2>1, <2>2, <2>3, <2>4, <1>f, PinHeld DEF Before
  <2>5. CASE UNCHANGED <<assigned, claimed, unfilled>>
    BY <2>0, <2>1, <2>3, <2>5, <1>f, HandedHeld DEF Before
  <2> QED BY <2>1, <2>4, <2>5
<1> QED BY <1>1, <1>2

-----------------------------------------------------------------------------
(* Receipts added by hand.                                                 *)
LEMMA AddHeld ==
  ASSUME IInv, HeldInv, Frozen, stage \in Before, stage' = stage, Queued',
         NEW l \in Lines, NEW d, TakeAdd(l, d), LiveAdd(l, d),
         stage \in {"pins", "adds"} \/ Defers(l, d),
         UNCHANGED <<assigned, pinned, byBoe>>
  PROVE  HeldInv'
<1>0. stage \notin Joined /\ stage' \notin Joined /\ stage # "join" BY DEF Before, Joined
<1>1. CASE /\ \A r \in RowsOf(d) : r \in claimed \/ r \in added[l]
           /\ unfilled' = unfilled \union {<<l, d>>}
           /\ UNCHANGED <<added, claimed>>
  <2>1. Own' BY <1>1, SameEvidence DEF HeldInv, Own
  <2>2. NamesKept BY <1>0, <1>1, SameEvidence DEF NamesKept, NamedFor
  <2>3. ASSUME NEW r \in Rows, ~KeptByBoth(r) PROVE TakenOnce(r)'
    <3> DEFINE G == {}
    <3>1. TakenOnce(r) BY <1>0, <2>3 DEF HeldInv, Once
    <3>2. \A k \in Lines : r \in Takes(k)' =>
            k \in G \/ (r \in Takes(k) /\ (OnBoeShare(k, r) => OnBoeShare(k, r)'))
      BY <1>1 DEF Takes, OnBoeShare
    <3>3. /\ G # {} => r \notin claimed /\ (stage' # "join" => r \in claimed')
          /\ \A k, j \in G : k # j => OnBoeShare(k, r)'
      OBVIOUS
    <3>4. claimed \subseteq claimed' BY <1>1
    <3> HIDE DEF G
    <3> QED BY <1>0, <3>1, <3>2, <3>3, <3>4, GivenOnce
  <2>4. ASSUME NEW p \in unfilled' \ unfilled
        PROVE  Defers(p[1], p[2]) \/ \A r \in RowsOf(p[2]) : Named(r) \/ Named(r)'
    <3>1. p[1] = l /\ p[2] = d BY <1>1, <2>4
    <3>2. ASSUME NEW r \in RowsOf(d), r \in added[l] PROVE Named(r)
      <4>1. world.doc[r] = d BY <3>2 DEF RowsOf
      <4>2. NamedFor(l, r) BY <4>1, <3>2, <1>0 DEF NamedFor, NamedBy
      <4> QED BY <4>2 DEF Named
    <3>3. stage \in {"pins", "adds"} => \A r \in RowsOf(d) : Named(r)
      BY <1>1, <3>2 DEF HeldInv, Kept
    <3> QED BY <3>1, <3>3
  <2>5. \A r \in claimed' \ claimed : Named(r)' BY <1>1
  <2> QED BY <1>0, <2>1, <2>2, <2>3, <2>4, <2>5, BeforeStep
<1>2. ASSUME NEW best \in RowsOf(d), edits[l][d].shared \/ best \notin claimed,
             added' = [added EXCEPT ![l] = @ \union {best}],
             claimed' = IF edits[l][d].shared THEN claimed ELSE claimed \union {best},
             unfilled' = unfilled
      PROVE  HeldInv'
  <2>1. /\ added'[l] = added[l] \union {best}
        /\ \A k \in Lines \ {l} : added'[k] = added[k]
    BY <1>2 DEF IInv, Shaped
  <2>3. best \in Rows /\ world.doc[best] = d BY <1>2 DEF RowsOf
  <2>4. Own'
    <3> SUFFICES ASSUME NEW k \in Lines
                 PROVE  /\ k \notin pinned \union byBoe => assigned[k].rows \subseteq Found(k) \union added'[k]
                        /\ \A r \in added'[k] : r \in Rows /\ LiveAdd(k, world.doc[r])
      BY SameEvidence DEF Own
    <3>1. /\ k \notin pinned \union byBoe => assigned[k].rows \subseteq Found(k) \union added[k]
          /\ \A r \in added[k] : r \in Rows /\ LiveAdd(k, world.doc[r])
      BY DEF HeldInv, Own
    <3> QED BY <3>1, <2>1, <2>3
  <2>5. NamesKept
    <3> SUFFICES ASSUME NEW k, NEW r, NamedFor(k, r) PROVE NamedFor(k, r)'
      BY DEF NamesKept
    <3>1. CASE k \in Lines
      <4>1. r \in added[k] => r \in added'[k] BY <3>1, <2>1
      <4> QED BY <4>1, <1>0, SameEvidence DEF NamedFor
    <3>2. CASE k \notin Lines
      <4>1. NamedBy(k, world.doc[r]) BY DEF NamedFor
      <4>2. k \in Lines BY <4>1 DEF NamedBy, LivePin, LiveAdd, LiveEdit, Active
      <4> QED BY <3>2, <4>2
    <3> QED BY <3>1, <3>2
  <2>6. ASSUME NEW r \in Rows, ~KeptByBoth(r) PROVE TakenOnce(r)'
    <3> DEFINE G == {k \in Lines : k = l /\ r = best}
    <3>1. TakenOnce(r) BY <1>0, <2>6 DEF HeldInv, Once
    <3>2. \A k \in Lines : r \in Takes(k)' =>
            k \in G \/ (r \in Takes(k) /\ (OnBoeShare(k, r) => OnBoeShare(k, r)'))
      BY <2>1 DEF Takes, OnBoeShare
    <3>3. r = best => ~edits[l][d].shared
      BY <2>3, <2>6 DEF KeptByBoth
    <3>4. G # {} => r \notin claimed /\ (stage' # "join" => r \in claimed')
      BY <1>2, <3>3
    <3>5. \A k, j \in G : k # j => OnBoeShare(k, r)' OBVIOUS
    <3>6. claimed \subseteq claimed' BY <1>2
    <3> HIDE DEF G
    <3> QED BY <1>0, <3>1, <3>2, <3>4, <3>5, <3>6, GivenOnce
  <2>7. ASSUME NEW r \in claimed' \ claimed PROVE Named(r)'
    <3>1. r = best BY <1>2, <2>7
    <3>2. NamedBy(l, world.doc[best]) BY <2>3 DEF NamedBy
    <3>3. NamedFor(l, best)' BY <3>2, <1>0, <2>1, SameEvidence DEF NamedFor
    <3> QED BY <3>1, <3>3 DEF Named
  <2> QED BY <1>0, <1>2, <2>4, <2>5, <2>6, <2>7, BeforeStep
<1>3. \/ /\ \A r \in RowsOf(d) : r \in claimed \/ r \in added[l]
         /\ unfilled' = unfilled \union {<<l, d>>}
         /\ UNCHANGED <<added, claimed>>
      \/ \E best \in RowsOf(d) :
           /\ edits[l][d].shared \/ best \notin claimed
           /\ added' = [added EXCEPT ![l] = @ \union {best}]
           /\ claimed' = IF edits[l][d].shared THEN claimed ELSE claimed \union {best}
           /\ unfilled' = unfilled
  BY DEF TakeAdd
<1> QED BY <1>1, <1>2, <1>3

LEMMA AddsHeld == ASSUME IInv, HeldInv, ClaimAdd \/ LateAdd PROVE HeldInv'
<1>q. Queued BY DEF HeldInv
<1>f. Frozen BY DEF ClaimAdd, LateAdd, At, Frozen
<1>d. \A l : Defers(l, pins[l].doc)' <=> Defers(l, pins[l].doc) BY <1>f, SameEvidence DEF Defers
<1>1. CASE ClaimAdd
  <2>0. stage = "adds" /\ stage' = "adds"
        /\ assigned' = assigned /\ pinned' = pinned /\ byBoe' = byBoe /\ duePins' = duePins
    BY <1>1 DEF ClaimAdd, At, Done
  <2>1. PICK p \in todo :
          /\ todo' = todo \ {p}
          /\ \/ /\ UNCHANGED <<added, claimed, unfilled>>
                /\ Defers(p[1], p[2]) /\ dueAdds' = dueAdds \union {p}
             \/ TakeAdd(p[1], p[2]) /\ dueAdds' = dueAdds
    BY <1>1 DEF ClaimAdd, At, Done
  <2>2. p[1] \in Lines /\ LiveAdd(p[1], p[2])
    BY <2>0, <1>q DEF IInv, Work, Additions, Queued
  <2>3. Queued'
    <3>1. \A x \in dueAdds' : LiveAdd(x[1], x[2])' /\ Defers(x[1], x[2])'
      BY <2>1, <2>2, <1>f, <1>q, SameEvidence DEF Queued
    <3>2. \A x \in todo' : LiveAdd(x[1], x[2])' BY <2>0, <2>1, <1>f, <1>q, SameEvidence DEF Queued
    <3>3. \A k \in duePins' : LivePin(k)' /\ Defers(k, pins[k].doc)'
      BY <2>0, <1>d, <1>f, <1>q, SameEvidence DEF Queued
    <3> QED BY <2>0, <3>1, <3>2, <3>3, <1>q DEF Queued
  <2>4. CASE TakeAdd(p[1], p[2])
    BY <2>0, <2>2, <2>3, <2>4, <1>f, AddHeld DEF Before
  <2>5. CASE UNCHANGED <<added, claimed, unfilled>>
    BY <2>0, <2>3, <2>5, <1>f, HandedHeld DEF Before
  <2> QED BY <2>1, <2>4, <2>5
<1>2. CASE LateAdd
  <2>0. stage = "late adds" /\ stage' = "late adds"
        /\ assigned' = assigned /\ pinned' = pinned /\ byBoe' = byBoe
        /\ duePins' = duePins /\ dueAdds' = dueAdds
    BY <1>2 DEF LateAdd, At, Done
  <2>1. PICK p \in todo :
          /\ todo' = todo \ {p}
          /\ UNCHANGED <<added, claimed, unfilled>> \/ TakeAdd(p[1], p[2])
    <3>1. PICK p \in todo :
            LET held == IF p[1] \in byBoe THEN assigned[p[1]].rows ELSE {} IN
            /\ IsFirstEdit(p) /\ Done(p)
            /\ \/ RowsOf(p[2]) \intersect held # {} /\ UNCHANGED <<added, claimed, sharedAdds, unfilled>>
               \/ RowsOf(p[2]) \intersect held = {} /\ TakeAdd(p[1], p[2])
      BY <1>2 DEF LateAdd
    <3> QED BY <3>1 DEF Done
  <2>2. p[1] \in Lines /\ LiveAdd(p[1], p[2]) /\ Defers(p[1], p[2])
    BY <2>0, <1>q DEF IInv, Work, Additions, Queued
  <2>3. Queued'
    BY <2>0, <2>1, <1>d, <1>f, <1>q, SameEvidence DEF Queued
  <2>4. CASE TakeAdd(p[1], p[2])
    BY <2>0, <2>2, <2>3, <2>4, <1>f, AddHeld DEF Before
  <2>5. CASE UNCHANGED <<added, claimed, unfilled>>
    BY <2>0, <2>3, <2>5, <1>f, HandedHeld DEF Before
  <2> QED BY <2>1, <2>4, <2>5
<1> QED BY <1>1, <1>2

-----------------------------------------------------------------------------
(* Bills of Entry.  A bill is settled once, so its lines hold nothing of   *)
(* an earlier settlement.                                                  *)
LEMMA BillHeld ==
  ASSUME IInv, HeldInv, Frozen, stage = "boe", stage' = "boe",
         NEW b \in todo, todo' = todo \ {b}, NEW got \in SUBSET BoeLines(b), NEW rows,
         UNCHANGED <<pinned, added, unfilled, duePins, dueAdds>>,
         byBoe' = byBoe \union got,
         claimed' = claimed \union UNION {rows[l] : l \in got},
         \A l \in Lines \ got : assigned'[l] = assigned[l],
         \A l \in got : assigned'[l].rows = rows[l] /\ rows[l] \intersect claimed = {},
         \A l, k \in got : l # k /\ rows[l] \intersect rows[k] # {} => assigned'[l].part
  PROVE  HeldInv'
<1>0. stage \notin Joined /\ stage' \notin Joined /\ stage # "join" BY DEF Joined
<1>1. \A l \in got : /\ l \in Lines /\ l \notin pinned /\ l \notin byBoe
                     /\ world.boe[l] = b
  <2>1. \A l \in got : l \in Lines /\ l \notin pinned /\ world.boe[l] = b
    BY DEF BoeLines, Active
  <2> QED BY <2>1 DEF HeldInv, Queued
<1>2. Queued'
  <2>1. \A l \in byBoe' : world'.boe[l] \notin todo'
    BY <1>1, SameEvidence DEF HeldInv, Queued
  <2>2. /\ \A l \in duePins' : LivePin(l)' /\ Defers(l, pins[l].doc)'
        /\ \A p \in dueAdds' : LiveAdd(p[1], p[2])' /\ Defers(p[1], p[2])'
    <3>1. \A l : Defers(l, pins[l].doc)' <=> Defers(l, pins[l].doc) BY SameEvidence DEF Defers
    <3> QED BY <3>1, SameEvidence DEF HeldInv, Queued
  <2> QED BY <2>1, <2>2 DEF Queued
<1>3. Own'
  <2> SUFFICES ASSUME NEW l \in Lines
               PROVE  /\ l \notin pinned \union byBoe' => assigned'[l].rows \subseteq Found(l) \union added[l]
                      /\ \A r \in added[l] : r \in Rows /\ LiveAdd(l, world.doc[r])
    BY SameEvidence DEF Own
  <2> QED BY DEF HeldInv, Own
<1>4. NamesKept
  <2> SUFFICES ASSUME NEW l, NEW r, NamedFor(l, r) PROVE NamedFor(l, r)'
    BY DEF NamesKept
  <2>1. l \in Lines BY DEF NamedFor, NamedBy, LivePin, LiveAdd, LiveEdit, Active
  <2>2. l \in pinned => assigned'[l] = assigned[l] BY <1>1, <2>1
  <2> QED BY <1>0, <2>2, SameEvidence DEF NamedFor
<1>5. ASSUME NEW r \in Rows, ~KeptByBoth(r) PROVE TakenOnce(r)'
  <2> DEFINE G == {l \in got : r \in rows[l]}
  <2>1. TakenOnce(r) BY <1>0, <1>5 DEF HeldInv, Once
  <2>2. \A l \in Lines : r \in Takes(l)' =>
          l \in G \/ (r \in Takes(l) /\ (OnBoeShare(l, r) => OnBoeShare(l, r)'))
    <3>1. ASSUME NEW l \in got, r \in Takes(l)'
          PROVE  l \in G \/ (r \in Takes(l) /\ ~OnBoeShare(l, r))
      BY <1>1, <3>1 DEF Takes, OnBoeShare
    <3>2. ASSUME NEW l \in Lines \ got, r \in Takes(l)'
          PROVE  r \in Takes(l) /\ (OnBoeShare(l, r) => OnBoeShare(l, r)')
      BY <3>2 DEF Takes, OnBoeShare
    <3> QED BY <3>1, <3>2
  <2>3. G # {} => r \notin claimed /\ (stage' # "join" => r \in claimed') OBVIOUS
  <2>4. \A l, k \in G : l # k => OnBoeShare(l, r)' BY DEF OnBoeShare
  <2>5. claimed \subseteq claimed' OBVIOUS
  <2> HIDE DEF G
  <2> QED BY <1>0, <2>1, <2>2, <2>3, <2>4, <2>5, GivenOnce
<1>6. \A p \in unfilled' \ unfilled :
        Defers(p[1], p[2]) \/ \A r \in RowsOf(p[2]) : Named(r) \/ Named(r)'
  OBVIOUS
<1> QED BY <1>2, <1>3, <1>4, <1>5, <1>6, BeforeStep DEF Before

(* With enough receipts for its lines, no receipt of a bill goes to two of *)
(* them.                                                                   *)
LEMMA OneLineEach ==
  ASSUME NEW b, NEW given \in OneEach(b), NEW l \in Lines, NEW k \in Lines, l # k
  PROVE  RowsWith(b, given, l) \intersect RowsWith(b, given, k) = {}
<1> SUFFICES ASSUME NEW r \in RowsWith(b, given, l), r \in RowsWith(b, given, k) PROVE FALSE
  OBVIOUS
<1>1. r \in Rows BY DEF RowsWith, Offered, BoeRows
<1>2. \A i, j \in Lines : given[i] = given[j] /\ i # j => given[i] = NoRow
  BY DEF OneEach, Heaviest, OneToOne
<1>3. NoRow \notin Rows BY RowAssumption
<1> QED BY <1>1, <1>2, <1>3 DEF RowsWith

LEMMA BillsHeld == ASSUME IInv, HeldInv, SettleBoe PROVE HeldInv'
<1>f. Frozen BY DEF SettleBoe, At, Frozen
<1>0. /\ stage = "boe" /\ stage' = "boe"
      /\ UNCHANGED <<pinned, added, unfilled, duePins, dueAdds>>
  BY DEF SettleBoe, At, Done
<1>1. PICK b \in todo :
        /\ todo' = todo \ {b}
        /\ \/ \E given \in OneEach(b) :
                Settles(b, [l \in Lines |-> RowsWith(b, given, l)], FALSE)
           \/ Settles(b, [l \in Lines |-> Offered(l, b)], TRUE)
           \/ UNCHANGED <<assigned, claimed, byBoe>>
  BY DEF SettleBoe, At, Done
<1>2. ASSUME NEW rows, NEW part, Settles(b, rows, part),
             \A l \in Lines : rows[l] \subseteq Offered(l, b),
             \A l, k \in Lines : l # k /\ rows[l] \intersect rows[k] # {} => part
      PROVE  HeldInv'
  <2> DEFINE got == {l \in BoeLines(b) : rows[l] # {}}
  <2>1. /\ byBoe' = byBoe \union got
        /\ claimed' = claimed \union UNION {rows[l] : l \in got}
    BY <1>2 DEF Settles
  <2>2. got \subseteq Lines BY DEF BoeLines, Active
  <2>3. /\ \A l \in Lines \ got : assigned'[l] = assigned[l]
        /\ \A l \in got : assigned'[l] = Counting(FirstBest(ForcedWeights[l], rows[l]), rows[l], part)
    BY <1>2, <2>2 DEF Settles
  <2>4. got \in SUBSET BoeLines(b) OBVIOUS
  <2> HIDE DEF got
  <2>c. \A main, rs, pt : Counting(main, rs, pt).rows = rs /\ Counting(main, rs, pt).part = pt
    BY DEF Counting
  <2>5. \A l \in got : assigned'[l].rows = rows[l] /\ assigned'[l].part = part
    BY <2>3, <2>c
  <2>6. \A l \in got : assigned'[l].rows = rows[l] /\ rows[l] \intersect claimed = {}
    BY <2>2, <2>5, <1>2 DEF Offered, BoeRows
  <2>7. \A l, k \in got : l # k /\ rows[l] \intersect rows[k] # {} => assigned'[l].part
    BY <2>2, <2>5, <1>2
  <2>8. \A l \in Lines \ got : assigned'[l] = assigned[l] BY <2>3
  <2> QED BY <1>0, <1>1, <1>f, <2>1, <2>4, <2>6, <2>7, <2>8, BillHeld
<1>3. ASSUME NEW given \in OneEach(b),
             Settles(b, [l \in Lines |-> RowsWith(b, given, l)], FALSE)
      PROVE  HeldInv'
  <2> DEFINE rows == [l \in Lines |-> RowsWith(b, given, l)]
             part == FALSE
  <2>1. \A l \in Lines : rows[l] \subseteq Offered(l, b) BY DEF RowsWith
  <2>2. \A l, k \in Lines : l # k => rows[l] \intersect rows[k] = {} BY OneLineEach
  <2>3. Settles(b, rows, part) BY <1>3
  <2> HIDE DEF rows, part
  <2> QED BY <2>1, <2>2, <2>3, <1>2
<1>4. CASE Settles(b, [l \in Lines |-> Offered(l, b)], TRUE)
  <2> DEFINE rows == [l \in Lines |-> Offered(l, b)]
             part == TRUE
  <2>1. \A l \in Lines : rows[l] \subseteq Offered(l, b) OBVIOUS
  <2>2. Settles(b, rows, part) /\ part BY <1>4
  <2> HIDE DEF rows, part
  <2> QED BY <2>1, <2>2, <1>2
<1>5. CASE UNCHANGED <<assigned, claimed, byBoe>>
  <2>1. Queued'
    <3>1. \A l \in byBoe' : world'.boe[l] \notin todo'
      BY <1>0, <1>1, <1>5, <1>f, SameEvidence DEF HeldInv, Queued
    <3>2. /\ \A l \in duePins' : LivePin(l)' /\ Defers(l, pins[l].doc)'
          /\ \A p \in dueAdds' : LiveAdd(p[1], p[2])' /\ Defers(p[1], p[2])'
      <4>1. \A l : Defers(l, pins[l].doc)' <=> Defers(l, pins[l].doc) BY <1>f, SameEvidence DEF Defers
      <4> QED BY <4>1, <1>0, <1>f, SameEvidence DEF HeldInv, Queued
    <3> QED BY <1>0, <3>1, <3>2 DEF Queued
  <2> QED BY <1>0, <1>5, <1>f, <2>1, HandedHeld DEF Before
<1> QED BY <1>1, <1>3, <1>4, <1>5

-----------------------------------------------------------------------------
(* The automatic stages give a row that nobody claimed to one line.        *)
LEMMA DuesKept ==
  ASSUME HeldInv, Frozen, UNCHANGED <<duePins, dueAdds>>
  PROVE  /\ \A l \in duePins' : LivePin(l)' /\ Defers(l, pins[l].doc)'
         /\ \A p \in dueAdds' : LiveAdd(p[1], p[2])' /\ Defers(p[1], p[2])'
<1>1. \A l : Defers(l, pins[l].doc)' <=> Defers(l, pins[l].doc) BY SameEvidence DEF Defers
<1> QED BY <1>1, SameEvidence DEF HeldInv, Queued

\* Lines outside a Bill of Entry get rows, each one line; a pinned line keeps
\* its primary row, the others count candidates of their own.
LEMMA RowsHeld ==
  ASSUME HeldInv, Frozen, stage \in Before, stage' \in {"groups", "rest", "join"}, Queued',
         NEW won, UNCHANGED <<pinned, byBoe, added, unfilled>>,
         claimed \subseteq claimed',
         stage' # "join" => \A l \in Lines : won[l] \subseteq claimed',
         \A l \in Lines : won[l] \intersect claimed = {},
         \A l, k \in Lines : l # k => won[l] \intersect won[k] = {},
         \A l \in Lines :
           \/ assigned'[l] = assigned[l]
           \/ /\ l \notin byBoe
              /\ \/ /\ l \notin pinned
                    /\ assigned'[l].rows = won[l] /\ won[l] \subseteq Found(l)
                 \/ /\ assigned[l].main \in assigned[l].rows
                    /\ assigned'[l].main = assigned[l].main
                    /\ assigned'[l].rows = {assigned[l].main} \union won[l]
                    /\ l \in pinned
  PROVE  HeldInv'
<1>0. stage \notin Joined /\ stage' \notin Joined /\ stage # "join" /\ stage' \notin {"pins", "adds"}
  BY DEF Before, Joined
<1>1. Own'
  <2> SUFFICES ASSUME NEW l \in Lines
               PROVE  /\ l \notin pinned \union byBoe => assigned'[l].rows \subseteq Found(l) \union added[l]
                      /\ \A r \in added[l] : r \in Rows /\ LiveAdd(l, world.doc[r])
    BY SameEvidence DEF Own
  <2> QED BY DEF HeldInv, Own
<1>2. NamesKept
  <2> SUFFICES ASSUME NEW l, NEW r, NamedFor(l, r) PROVE NamedFor(l, r)'
    BY DEF NamesKept
  <2>1. l \in Lines BY DEF NamedFor, NamedBy, LivePin, LiveAdd, LiveEdit, Active
  <2>2. l \in pinned /\ r \in assigned[l].rows /\ r = assigned[l].main =>
          r \in assigned'[l].rows /\ r = assigned'[l].main
    BY <2>1
  <2> QED BY <1>0, <2>2, SameEvidence DEF NamedFor
<1>3. ASSUME NEW r \in Rows, ~KeptByBoth(r) PROVE TakenOnce(r)'
  <2> DEFINE G == {l \in Lines : r \in won[l] /\ assigned'[l] # assigned[l]}
  <2>1. TakenOnce(r) BY <1>0, <1>3 DEF HeldInv, Once
  <2>2. \A l \in Lines : r \in Takes(l)' =>
          l \in G \/ (r \in Takes(l) /\ (OnBoeShare(l, r) => OnBoeShare(l, r)'))
    <3> SUFFICES ASSUME NEW l \in Lines, r \in Takes(l)', l \notin G
                 PROVE  r \in Takes(l) /\ (OnBoeShare(l, r) => OnBoeShare(l, r)')
      OBVIOUS
    <3>1. CASE assigned'[l] = assigned[l] BY <3>1 DEF Takes, OnBoeShare
    <3>2. CASE /\ l \notin byBoe /\ assigned'[l] # assigned[l]
               /\ assigned'[l].rows \subseteq assigned[l].rows \union won[l]
      <4>1. r \notin won[l] BY <3>2
      <4> QED BY <3>2, <4>1 DEF Takes, OnBoeShare
    <3> QED BY <3>1, <3>2
  <2>3. G # {} => r \notin claimed /\ (stage' # "join" => r \in claimed') OBVIOUS
  <2>4. \A l, k \in G : l # k => OnBoeShare(l, r)' OBVIOUS
  <2> HIDE DEF G
  <2> QED BY <1>0, <2>1, <2>2, <2>3, <2>4, GivenOnce
<1>4. \A p \in unfilled' \ unfilled :
        Defers(p[1], p[2]) \/ \A r \in RowsOf(p[2]) : Named(r) \/ Named(r)'
  OBVIOUS
<1> QED BY <1>0, <1>1, <1>2, <1>3, <1>4, BeforeStep DEF Before

LEMMA OrdersHeld == ASSUME IInv, HeldInv, SettleOrders PROVE HeldInv'
<1>f. Frozen BY DEF SettleOrders, At, Frozen
<1> DEFINE options == [l \in Lines |-> IF l \in pinned THEN {} ELSE Open(l)]
<1>0. /\ stage = "orders" /\ stage' = "groups"
      /\ UNCHANGED <<pinned, duePins, dueAdds, added, byBoe, unfilled>>
      /\ todo' \intersect (pinned \union byBoe) = {}
  BY DEF SettleOrders, At, NextStage
<1>1. PICK given \in Heaviest(options, Weights) : ByOrderNumber(given)
  BY DEF SettleOrders
<1> HIDE DEF options
<1>2. \A l, k \in Lines : given[l] = given[k] /\ l # k => given[l] = NoRow
  BY DEF Heaviest, OneToOne
<1> DEFINE won == [l \in Lines |->
             {r \in Open(l) :
                IF \E k \in Lines : given[k] = r THEN given[l] = r
                ELSE BestLine(Weights, {k \in Takers : r \in Open(k)}, r) = l}]
           winners == {l \in Lines : won[l] # {}}
<1>3. /\ \A l \in Lines : assigned'[l] =
           IF l \notin winners THEN assigned[l]
           ELSE IF l \in pinned
           THEN Counting(assigned[l].main, {assigned[l].main} \union won[l], FALSE)
           ELSE Counting(FirstBest(Weights[l], won[l]), won[l], FALSE)
      /\ claimed' = claimed \union UNION {won[l] : l \in winners}
  BY <1>1 DEF ByOrderNumber
<1>4. \A l \in Lines : Open(l) \subseteq Found(l) /\ Open(l) \intersect claimed = {}
                       /\ Open(l) \subseteq Rows
  BY DEF Open, CitedRows, Found
<1>5. \A l, k \in Lines : l # k => won[l] \intersect won[k] = {}
  <2> SUFFICES ASSUME NEW l \in Lines, NEW k \in Lines, l # k,
                      NEW r \in won[l], r \in won[k]
               PROVE  FALSE
    OBVIOUS
  <2>1. r \in Rows BY <1>4
  <2>2. r # NoRow BY <2>1, RowAssumption
  <2> QED BY <1>2, <2>2
<1>6. \A l \in Lines : won[l] \subseteq Found(l) /\ won[l] \intersect claimed = {}
  BY <1>4
<1>7. \A l \in winners : l \in Takers BY DEF Open
<1>8. \A l \in Lines : won[l] \subseteq claimed' BY <1>3
<1>9. claimed \subseteq claimed' BY <1>3
<1>w. winners \subseteq Lines OBVIOUS
<1> HIDE DEF won, winners
<1>10. \A l \in Lines :
         \/ assigned'[l] = assigned[l]
         \/ /\ l \notin byBoe
            /\ \/ /\ l \notin pinned
                  /\ assigned'[l].rows = won[l] /\ won[l] \subseteq Found(l)
               \/ /\ assigned[l].main \in assigned[l].rows
                  /\ assigned'[l].main = assigned[l].main
                  /\ assigned'[l].rows = {assigned[l].main} \union won[l]
                  /\ l \in pinned
  <2> SUFFICES ASSUME NEW l \in winners, l \in Lines
               PROVE  /\ l \notin byBoe
                      /\ \/ /\ l \notin pinned
                            /\ assigned'[l].rows = won[l] /\ won[l] \subseteq Found(l)
                         \/ /\ assigned[l].main \in assigned[l].rows
                            /\ assigned'[l].main = assigned[l].main
                            /\ assigned'[l].rows = {assigned[l].main} \union won[l]
                            /\ l \in pinned
    BY <1>3
  <2>1. l \notin byBoe /\ (l \in pinned => assigned[l].rows # {}) BY <1>7 DEF Takers
  <2>2. CASE l \notin pinned
    <3>1. assigned'[l] = Counting(FirstBest(Weights[l], won[l]), won[l], FALSE) BY <1>3, <2>2
    <3>2. assigned'[l].rows = won[l] BY <3>1 DEF Counting
    <3> QED BY <2>1, <2>2, <3>2, <1>6
  <2>3. CASE l \in pinned
    <3>1. assigned'[l] = Counting(assigned[l].main, {assigned[l].main} \union won[l], FALSE)
      BY <1>3, <2>3
    <3>2. /\ assigned'[l].rows = {assigned[l].main} \union won[l]
          /\ assigned'[l].main = assigned[l].main
      BY <3>1 DEF Counting
    <3>3. assigned[l].main \in assigned[l].rows
      BY <1>0, <2>1, <2>3 DEF IInv, MainCounted, Early
    <3> QED BY <2>1, <2>3, <3>2, <3>3
  <2> QED BY <2>2, <2>3
<1>11. Queued'
  <2>1. /\ \A l \in duePins' : LivePin(l)' /\ Defers(l, pins[l].doc)'
        /\ \A p \in dueAdds' : LiveAdd(p[1], p[2])' /\ Defers(p[1], p[2])'
    BY <1>0, <1>f, DuesKept
  <2> QED BY <1>0, <2>1 DEF Queued
<1>12. \A l \in Lines : won[l] \intersect claimed = {} BY <1>6
<1> QED BY <1>0, <1>f, <1>5, <1>8, <1>9, <1>10, <1>11, <1>12, RowsHeld DEF Before

LEMMA GroupsHeld == ASSUME IInv, HeldInv, SettleGroup PROVE HeldInv'
<1>f. Frozen BY DEF SettleGroup, At, Frozen
<1>0. /\ stage = "groups" /\ stage' = "groups"
      /\ UNCHANGED <<pinned, duePins, dueAdds, added, byBoe, unfilled>>
  BY DEF SettleGroup, At, Done
<1>1. PICK l \in todo :
        /\ todo' = todo \ {l}
        /\ \/ /\ RateGroup(l) \intersect claimed = {}
              /\ assigned' = [assigned EXCEPT ![l] = Counting(GroupBest(l), RateGroup(l), FALSE)]
              /\ claimed' = claimed \union RateGroup(l)
           \/ UNCHANGED <<assigned, claimed>>
  BY DEF SettleGroup, At, Done
<1>2. l \notin pinned \union byBoe BY <1>0 DEF HeldInv, Queued
<1>3. Queued'
  <2>1. /\ \A k \in duePins' : LivePin(k)' /\ Defers(k, pins[k].doc)'
        /\ \A p \in dueAdds' : LiveAdd(p[1], p[2])' /\ Defers(p[1], p[2])'
    BY <1>0, <1>f, DuesKept
  <2>2. todo' \intersect (pinned' \union byBoe') = {} BY <1>0, <1>1 DEF HeldInv, Queued
  <2> QED BY <1>0, <2>1, <2>2 DEF Queued
<1>4. CASE UNCHANGED <<assigned, claimed>> BY <1>0, <1>f, <1>3, <1>4, HandedHeld DEF Before
<1>5. CASE /\ RateGroup(l) \intersect claimed = {}
           /\ assigned' = [assigned EXCEPT ![l] = Counting(GroupBest(l), RateGroup(l), FALSE)]
           /\ claimed' = claimed \union RateGroup(l)
  <2> DEFINE won == [k \in Lines |-> IF k = l THEN RateGroup(k) ELSE {}]
  <2>1. \A k \in Lines : won[k] \subseteq claimed' BY <1>5
  <2>2. \A k \in Lines : won[k] \intersect claimed = {} BY <1>5
  <2>3. \A k, j \in Lines : k # j => won[k] \intersect won[j] = {} OBVIOUS
  <2>4. l \in Lines => won[l] = RateGroup(l) /\ RateGroup(l) \subseteq Found(l)
    BY DEF RateGroup
  <2>5. \A k \in Lines \ {l} : assigned'[k] = assigned[k] BY <1>5 DEF IInv, Shaped
  <2>6. l \in Lines => assigned'[l] = Counting(GroupBest(l), RateGroup(l), FALSE)
    BY <1>5 DEF IInv, Shaped
  <2>7. l \in Lines => assigned'[l].rows = RateGroup(l) BY <2>6 DEF Counting
  <2> HIDE DEF won
  <2>8. \A k \in Lines :
          \/ assigned'[k] = assigned[k]
          \/ /\ k \notin byBoe
             /\ \/ /\ k \notin pinned
                   /\ assigned'[k].rows = won[k] /\ won[k] \subseteq Found(k)
                \/ /\ assigned[k].main \in assigned[k].rows
                   /\ assigned'[k].main = assigned[k].main
                   /\ assigned'[k].rows = {assigned[k].main} \union won[k]
                   /\ k \in pinned
    BY <1>2, <2>4, <2>5, <2>7
  <2>9. claimed \subseteq claimed' BY <1>5
  <2> QED BY <1>0, <1>f, <1>3, <2>1, <2>2, <2>3, <2>8, <2>9, RowsHeld DEF Before
<1> QED BY <1>1, <1>4, <1>5

LEMMA RestHeld == ASSUME IInv, HeldInv, AssignRest PROVE HeldInv'
<1>f. Frozen BY DEF AssignRest, At, Frozen
<1> DEFINE options == [l \in Lines |-> IF Competes(l) THEN Found(l) \ claimed ELSE {}]
<1>0. /\ stage = "rest" /\ stage' = "join"
      /\ UNCHANGED <<claimed, pinned, duePins, dueAdds, added, byBoe, unfilled>>
  BY DEF AssignRest, At, NextStage
<1>1. PICK given \in Heaviest(options, Weights) :
        assigned' = [l \in Lines |-> IF given[l] = NoRow THEN assigned[l]
                                     ELSE Counting(given[l], {given[l]}, FALSE)]
  BY DEF AssignRest
<1>2. \A l \in Lines : options[l] # {} => l \notin pinned \union byBoe BY DEF Competes
<1>3. \A l \in Lines : options[l] \subseteq Found(l) /\ options[l] \intersect claimed = {}
  OBVIOUS
<1> HIDE DEF options
<1>4. \A l, k \in Lines : given[l] = given[k] /\ l # k => given[l] = NoRow
  BY DEF Heaviest, OneToOne
<1>5. \A l \in Lines : given[l] # NoRow => given[l] \in options[l] BY HeaviestOffered
<1> DEFINE won == [l \in Lines |-> IF given[l] = NoRow THEN {} ELSE {given[l]}]
<1>6. \A l, k \in Lines : l # k => won[l] \intersect won[k] = {} BY <1>4
<1>7. \A l \in Lines : won[l] \intersect claimed = {} /\ won[l] \subseteq Found(l)
  BY <1>3, <1>5
<1>8. \A l \in Lines : given[l] # NoRow =>
        assigned'[l] = Counting(given[l], {given[l]}, FALSE) /\ won[l] = {given[l]}
  BY <1>1
<1>9. \A l \in Lines : given[l] = NoRow => assigned'[l] = assigned[l] BY <1>1
<1> HIDE DEF won
<1>c. \A r : Counting(r, {r}, FALSE).rows = {r} BY DEF Counting
<1>10. \A l \in Lines : given[l] # NoRow => assigned'[l].rows = won[l]
  BY <1>8, <1>c
<1>11. \A l \in Lines :
         \/ assigned'[l] = assigned[l]
         \/ /\ l \notin byBoe
            /\ \/ /\ l \notin pinned
                  /\ assigned'[l].rows = won[l] /\ won[l] \subseteq Found(l)
               \/ /\ assigned[l].main \in assigned[l].rows
                  /\ assigned'[l].main = assigned[l].main
                  /\ assigned'[l].rows = {assigned[l].main} \union won[l]
                  /\ l \in pinned
  BY <1>2, <1>5, <1>7, <1>9, <1>10
<1>12. Queued'
  <2>1. /\ \A k \in duePins' : LivePin(k)' /\ Defers(k, pins[k].doc)'
        /\ \A p \in dueAdds' : LiveAdd(p[1], p[2])' /\ Defers(p[1], p[2])'
    BY <1>0, <1>f, DuesKept
  <2> QED BY <1>0, <2>1 DEF Queued
<1>13. \A l \in Lines : won[l] \intersect claimed = {} BY <1>7
<1>14. claimed \subseteq claimed' BY <1>0
<1> QED BY <1>0, <1>f, <1>6, <1>11, <1>12, <1>13, <1>14, RowsHeld DEF Before

-----------------------------------------------------------------------------
(* From the join on, who holds a row counts a share of it.                 *)
LEMMA EditedBy ==
  ASSUME IInv, HeldInv, NEW l \in Lines, NEW r \in added[l]
  PROVE  Edited(l)
<1>1. r \in Rows /\ LiveAdd(l, world.doc[r]) BY DEF HeldInv, Own
<1>2. world.doc[r] \in Docs BY <1>1, WorldAssumption DEF IInv, Shaped
<1> QED BY <1>1, <1>2 DEF Edited, LiveAdd

LEMMA JoinedStep ==
  ASSUME HeldInv, Frozen, stage' \in Joined, UNCHANGED <<duePins, dueAdds, unfilled>>,
         Own', \A r \in Rows : ~KeptByBoth(r) => (~ToppedUp(r)' => SharesOnly(r)'),
         \A l \in Lines, r \in Rows : NamedFor(l, r) => NamedFor(l, r)'
  PROVE  HeldInv'
<1>1. Queued'
  <2>1. /\ \A l \in duePins' : LivePin(l)' /\ Defers(l, pins[l].doc)'
        /\ \A p \in dueAdds' : LiveAdd(p[1], p[2])' /\ Defers(p[1], p[2])'
    BY DuesKept
  <2> QED BY <2>1 DEF Queued, Joined
<1>2. Once' BY SameEvidence DEF Once
<1>3. Kept'
  <2> SUFFICES ASSUME NEW p \in unfilled
               PROVE  Defers(p[1], p[2])' \/ \A r \in RowsOf(p[2])' : Named(r)'
    BY DEF Kept, Joined
  <2>1. Defers(p[1], p[2]) \/ \A r \in RowsOf(p[2]) : Named(r) BY DEF HeldInv, Kept
  <2>2. \A r \in RowsOf(p[2]) : Named(r) => Named(r)' BY DEF RowsOf, Named
  <2> QED BY <2>1, <2>2, SameEvidence
<1> QED BY <1>1, <1>2, <1>3 DEF HeldInv

LEMMA JoinHeld == ASSUME IInv, HeldInv, JoinAdded PROVE HeldInv'
<1>f. Frozen BY DEF JoinAdded, At, Frozen
<1>0. /\ stage = "join" /\ stage' = "share"
      /\ UNCHANGED <<pinned, duePins, dueAdds, added, byBoe, unfilled>>
  BY DEF JoinAdded, At, NextStage
<1>1. \A l \in Lines :
        /\ assigned'[l].rows = assigned[l].rows \union added[l]
        /\ added[l] = {} => assigned'[l] = assigned[l]
  <2> SUFFICES ASSUME NEW l \in Lines
               PROVE  /\ assigned'[l].rows = assigned[l].rows \union added[l]
                      /\ added[l] = {} => assigned'[l] = assigned[l]
    OBVIOUS
  <2>1. \/ added[l] \subseteq assigned[l].rows /\ assigned'[l] = assigned[l]
        \/ /\ ~(added[l] \subseteq assigned[l].rows) /\ assigned[l].rows = {}
           /\ \E main : assigned'[l] = Counting(main, added[l], FALSE)
        \/ /\ ~(added[l] \subseteq assigned[l].rows)
           /\ \E main : assigned'[l] = Counting(main, assigned[l].rows \union added[l], FALSE)
    BY DEF JoinAdded
  <2>2. \A main, rows : Counting(main, rows, FALSE).rows = rows BY DEF Counting
  <2> QED BY <2>1, <2>2
<1>2. Own'
  <2> SUFFICES ASSUME NEW l \in Lines
               PROVE  /\ l \notin pinned \union byBoe => assigned'[l].rows \subseteq Found(l) \union added[l]
                      /\ \A r \in added[l] : r \in Rows /\ LiveAdd(l, world.doc[r])
    BY <1>0, <1>f, SameEvidence DEF Own
  <2> QED BY <1>1 DEF HeldInv, Own
<1>3. ASSUME NEW r \in Rows, ~KeptByBoth(r), ~ToppedUp(r)',
             NEW l \in Lines, NEW k \in Lines, l # k, {l, k} \subseteq Holders(r)'
      PROVE  assigned'[l].part
  <2>1. r \in Takes(l) /\ r \in Takes(k) BY <1>1, <1>3 DEF Holders, Takes
  <2>2. OnBoeShare(l, r) BY <2>1, <1>0, <1>3 DEF HeldInv, Once, TakenOnce, Joined
  <2>3. added[l] = {} BY <2>2, <1>0, <1>3 DEF ToppedUp, OnBoeShare
  <2> QED BY <2>2, <2>3, <1>1 DEF OnBoeShare
<1>4. \A r \in Rows : ~KeptByBoth(r) => (~ToppedUp(r)' => SharesOnly(r)')
  BY <1>3 DEF SharesOnly
<1>5. ASSUME NEW l \in Lines, NEW r \in Rows, NamedFor(l, r) PROVE NamedFor(l, r)'
  <2>1. r \in added[l] \/ (l \in pinned /\ r \in assigned[l].rows)
    BY <1>0, <1>5 DEF NamedFor, Joined
  <2>2. r \in assigned'[l].rows BY <2>1, <1>1
  <2>3. l \in pinned \/ Edited(l) BY <2>1, EditedBy
  <2> QED BY <2>2, <2>3, <1>0, <1>5, <1>f, SameEvidence DEF NamedFor, Joined
<1> QED BY <1>0, <1>2, <1>4, <1>5, <1>f, JoinedStep DEF Joined

LEMMA SplitHeld == ASSUME IInv, HeldInv, SplitShared PROVE HeldInv'
<1>f. Frozen BY DEF SplitShared, At, Frozen
<1>0. /\ stage = "share" /\ stage' = "pool"
      /\ UNCHANGED <<pinned, duePins, dueAdds, added, byBoe, unfilled>>
  BY DEF SplitShared, At, NextStage
<1>1. \A l \in Lines : \/ assigned'[l] = assigned[l]
                       \/ assigned'[l] = [assigned[l] EXCEPT !.part = TRUE]
  BY DEF SplitShared
<1>2. \A l \in Lines : /\ assigned'[l].rows = assigned[l].rows
                       /\ assigned[l].part => assigned'[l].part
  BY <1>1 DEF IInv, Shaped, IsMatch, Counting
<1>3. Own' BY <1>0, <1>2, <1>f, SameEvidence DEF HeldInv, Own
<1>4. \A r : Holders(r)' = Holders(r) BY <1>2 DEF Holders
<1>5. \A r : ToppedUp(r)' <=> ToppedUp(r) BY <1>0, <1>4 DEF ToppedUp
<1>6. \A r \in Rows : ~KeptByBoth(r) => (~ToppedUp(r)' => SharesOnly(r)')
  <2>1. \A r \in Rows : ~KeptByBoth(r) => (~ToppedUp(r) => SharesOnly(r))
    BY <1>0 DEF HeldInv, Once, Joined
  <2>2. \A r : SharesOnly(r) => SharesOnly(r)' BY <1>2, <1>4 DEF SharesOnly
  <2> QED BY <2>1, <2>2, <1>5
<1>7. \A l \in Lines, r \in Rows : NamedFor(l, r) => NamedFor(l, r)'
  BY <1>0, <1>2, <1>f, SameEvidence DEF NamedFor, Joined
<1> QED BY <1>0, <1>3, <1>6, <1>7, <1>f, JoinedStep DEF Joined

(* Twins have the same candidates, the same twins and the same pool.       *)
LEMMA TwinsAlike ==
  ASSUME IInv, NEW l \in Poolable, NEW k \in Twins(l)
  PROVE  /\ Twins(k) = Twins(l) /\ PoolRows(k) = PoolRows(l) /\ Members(k) = Members(l)
         /\ Found(k) = Found(l)
<1>1. /\ k \in Poolable /\ OrderOf(k) = OrderOf(l) /\ desc[k] = desc[l]
      /\ world.rate[k] = world.rate[l]
  BY DEF Twins
<1>2. Twins(k) = Twins(l) BY <1>1 DEF Twins
<1>3. PoolRows(k) = PoolRows(l) BY <1>2 DEF PoolRows
<1>4. Members(k) = Members(l) BY <1>2, <1>3 DEF Members
<1>5. Removed(k) = Removed(l) BY <1>1, UneditedKeepsAll DEF Poolable
<1>6. \A r : Identified(k, r) <=> Identified(l, r)
  BY <1>1 DEF Identified, Contradicts, Cites, SameParty, SameMaterial
<1>7. k \in Active /\ l \in Active BY <1>1 DEF Poolable
<1>8. \A r : FabricContradicts(k, r) <=> FabricContradicts(l, r)
  BY <1>1, <1>7 DEF FabricContradicts, SameMaterial
<1>9. Found(k) = Found(l) BY <1>5, <1>6, <1>8 DEF Found
<1> QED BY <1>2, <1>3, <1>4, <1>9

\* What a twin holds are candidates of all of them.
LEMMA PoolFound ==
  ASSUME IInv, HeldInv, NEW l \in Poolable PROVE PoolRows(l) \subseteq Found(l)
<1> SUFFICES ASSUME NEW k \in Twins(l) PROVE assigned[k].rows \subseteq Found(l)
  BY DEF PoolRows
<1>1. k \in Poolable BY DEF Twins
<1>2. k \in Lines /\ k \notin pinned \union byBoe /\ ~Edited(k)
  BY <1>1 DEF Poolable, Active
<1>3. added[k] = {} BY <1>2, EditedBy
<1>4. assigned[k].rows \subseteq Found(k) BY <1>2, <1>3 DEF HeldInv, Own
<1>5. Found(k) = Found(l) BY TwinsAlike
<1> QED BY <1>4, <1>5

LEMMA PoolHeld == ASSUME IInv, HeldInv, PoolTwins PROVE HeldInv'
<1>f. Frozen BY DEF PoolTwins, At, Frozen
<1>0. /\ stage = "pool" /\ stage' = "save"
      /\ UNCHANGED <<pinned, duePins, dueAdds, added, byBoe, unfilled>>
  BY DEF PoolTwins, At, NextStage
<1>1. \A l \in Lines :
        \/ ~Pools(l) /\ assigned'[l] = assigned[l]
        \/ Pools(l) /\ \E main : assigned'[l] = Counting(main, PoolRows(l), TRUE)
        \/ Pools(l) /\ assigned'[l] = NoMatch
  BY DEF PoolTwins
<1>2. \A main, rows : Counting(main, rows, TRUE).rows = rows /\ Counting(main, rows, TRUE).part
  BY DEF Counting
<1>3. NoMatch.rows = {} BY DEF NoMatch, Counting
<1>4. \A l \in Lines :
        \/ ~Pools(l) /\ assigned'[l] = assigned[l]
        \/ Pools(l) /\ assigned'[l].rows = PoolRows(l) /\ assigned'[l].part
        \/ Pools(l) /\ assigned'[l].rows = {}
  <2> SUFFICES ASSUME NEW l \in Lines, Pools(l)
               PROVE  \/ assigned'[l].rows = PoolRows(l) /\ assigned'[l].part
                      \/ assigned'[l].rows = {}
    BY <1>1
  <2>1. CASE \E main : assigned'[l] = Counting(main, PoolRows(l), TRUE)
    <3>1. PICK main : assigned'[l] = Counting(main, PoolRows(l), TRUE) BY <2>1
    <3> QED BY <3>1, <1>2
  <2>2. CASE assigned'[l] = NoMatch BY <2>2, <1>3
  <2> QED BY <1>1, <2>1, <2>2
<1>5. \A l \in Lines : Pools(l) => /\ l \notin pinned \union byBoe /\ ~Edited(l)
                                   /\ l \in Poolable
  BY DEF Pools, Poolable
<1>6. Own'
  <2> SUFFICES ASSUME NEW l \in Lines
               PROVE  /\ l \notin pinned \union byBoe => assigned'[l].rows \subseteq Found(l) \union added[l]
                      /\ \A r \in added[l] : r \in Rows /\ LiveAdd(l, world.doc[r])
    BY <1>0, <1>f, SameEvidence DEF Own
  <2>1. l \in Poolable => PoolRows(l) \subseteq Found(l) BY PoolFound
  <2> QED BY <2>1, <1>4, <1>5 DEF HeldInv, Own
<1>7. ASSUME NEW r \in Rows, ~KeptByBoth(r), ~ToppedUp(r)',
             NEW l \in Lines, NEW k \in Lines, l # k, {l, k} \subseteq Holders(r)'
      PROVE  assigned'[l].part
  <2>1. r \in assigned'[l].rows /\ r \in assigned'[k].rows BY <1>7 DEF Holders
  <2>2. ~ToppedUp(r)
    <3>1. \A j \in Lines : j \in byBoe => assigned'[j] = assigned[j] BY <1>4, <1>5
    <3> QED BY <3>1, <1>0, <1>7 DEF ToppedUp, Holders
  <2>3. \A i, j \in Lines : i # j /\ r \in assigned[i].rows /\ r \in assigned[j].rows
                            => assigned[i].part
    BY <2>2, <1>0, <1>7 DEF HeldInv, Once, Joined, SharesOnly, Holders
  <2>4. CASE Pools(l) BY <2>1, <2>4, <1>4
  <2>5. CASE ~Pools(l) /\ ~Pools(k) BY <2>1, <2>3, <2>5, <1>4, <1>7
  <2>6. CASE ~Pools(l) /\ Pools(k)
    <3>1. assigned'[l] = assigned[l] /\ r \in assigned[l].rows BY <2>1, <2>6, <1>4
    <3>2. k \in Poolable /\ r \in PoolRows(k) BY <2>1, <2>6, <1>4, <1>5
    <3>3. PICK j \in Twins(k) : r \in assigned[j].rows BY <3>2 DEF PoolRows
    <3>4. j \in Poolable /\ j \in Lines /\ ~assigned[j].part
      BY DEF Twins, Poolable, Active
    <3>5. CASE j # l BY <3>1, <3>3, <3>4, <3>5, <2>3
    <3>6. CASE j = l
      <4>1. l \in Twins(k) /\ l \in Poolable BY <3>3, <3>4, <3>6
      <4>2. Members(l) = Members(k) /\ Found(l) = Found(k) BY <4>1, <3>2, TwinsAlike
      <4>3. r \in Found(k) BY <3>2, PoolFound
      <4>4. l \in Members(k) BY <4>1, <4>2, <4>3, <3>2 DEF Members
      <4>5. Pools(l) BY <4>1, <4>2, <4>4, <2>6 DEF Pools
      <4> QED BY <4>5, <2>6
    <3> QED BY <3>5, <3>6
  <2> QED BY <2>4, <2>5, <2>6
<1>8. \A r \in Rows : ~KeptByBoth(r) => (~ToppedUp(r)' => SharesOnly(r)')
  BY <1>7 DEF SharesOnly
<1>9. \A l \in Lines, r \in Rows : NamedFor(l, r) => NamedFor(l, r)'
  BY <1>0, <1>4, <1>5, <1>f, SameEvidence DEF NamedFor, Joined
<1> QED BY <1>0, <1>6, <1>8, <1>9, <1>f, JoinedStep DEF Joined

-----------------------------------------------------------------------------
(* Between runs nobody holds anything.                                     *)
Emptied ==
  /\ stage = "idle" /\ AtRest
  /\ claimed = {} /\ unfilled = {} /\ byBoe = {} /\ duePins = {} /\ dueAdds = {}

LEMMA EmptiedHolds == Emptied => HeldInv
<1> SUFFICES ASSUME Emptied PROVE HeldInv OBVIOUS
<1> USE DEF Emptied, AtRest
<1>1. Queued BY DEF Queued
<1>2. Own BY DEF Own
<1>3. Once BY DEF Once, TakenOnce, Takes, Joined
<1>4. Kept BY DEF Kept
<1> QED BY <1>1, <1>2, <1>3, <1>4 DEF HeldInv

LEMMA SaveHeld == ASSUME SaveMatches PROVE HeldInv'
<1>1. NoMatch.rows = {} BY DEF NoMatch, Counting
<1>2. Emptied' BY <1>1 DEF SaveMatches, NextStage, Emptied, AtRest
<1> QED BY <1>2, EmptiedHolds, PTL

LEMMA StartHeld == ASSUME Init PROVE HeldInv
<1>1. NoMatch.rows = {} BY DEF NoMatch, Counting
<1>2. Emptied BY <1>1 DEF Init, Emptied, AtRest
<1> QED BY <1>2, EmptiedHolds

LEMMA DecisionsHeld ==
  ASSUME IInv, HeldInv, Next, ~MatchStep PROVE HeldInv'
<1>1. stage = "idle" /\ UNCHANGED <<stage, todo, runVars>>
  BY DEF Next, Add, SetPin, Remove, UndoEdit, NotReceived, BackToAuto, UndoPin, Decide,
         NewSheet, RetireOrReturn
<1>2. Emptied BY <1>1 DEF IInv, HeldInv, Queued, Emptied
<1>3. Emptied' BY <1>1, <1>2 DEF Emptied, AtRest, runVars
<1> QED BY <1>3, EmptiedHolds, PTL

LEMMA IdleHeld == ASSUME HeldInv, UNCHANGED vars PROVE HeldInv'
<1>f. Frozen BY DEF vars, Frozen
<1>0. /\ stage' = stage /\ todo' = todo
      /\ assigned' = assigned /\ added' = added /\ claimed' = claimed /\ pinned' = pinned
      /\ byBoe' = byBoe /\ unfilled' = unfilled /\ duePins' = duePins /\ dueAdds' = dueAdds
  BY DEF vars, runVars
<1>d. \A l : Defers(l, pins[l].doc)' <=> Defers(l, pins[l].doc) BY <1>f, SameEvidence DEF Defers
<1>1. Queued' BY <1>0, <1>d, <1>f, SameEvidence DEF HeldInv, Queued
<1>2. Own' BY <1>0, <1>f, SameEvidence DEF HeldInv, Own
<1>3. Once'
  <2>1. \A r : /\ ToppedUp(r)' <=> ToppedUp(r)
               /\ SharesOnly(r)' <=> SharesOnly(r)
               /\ TakenOnce(r)' <=> TakenOnce(r)
    BY <1>0 DEF ToppedUp, SharesOnly, TakenOnce, Holders, Takes, OnBoeShare
  <2> QED BY <2>1, <1>0, <1>f, SameEvidence DEF HeldInv, Once
<1>4. Kept'
  <2>1. \A r : Named(r)' <=> Named(r) BY <1>0, <1>f, SameEvidence DEF Named, NamedFor
  <2> QED BY <2>1, <1>0, <1>f, SameEvidence DEF HeldInv, Kept
<1> QED BY <1>1, <1>2, <1>3, <1>4 DEF HeldInv

LEMMA NextHeld == ASSUME IInv, HeldInv, [Next]_vars PROVE HeldInv'
<1>1. CASE MatchStep
  BY <1>1, HandsOnHeld, PinsHeld, AddsHeld, BillsHeld, OrdersHeld, GroupsHeld, RestHeld,
     JoinHeld, SplitHeld, PoolHeld, SaveHeld
  DEF MatchStep
<1>2. CASE Next /\ ~MatchStep BY <1>2, DecisionsHeld
<1>3. CASE UNCHANGED vars BY <1>3, IdleHeld
<1> QED BY <1>1, <1>2, <1>3

LEMMA HeldOnce == HeldInv => ReceiptCountedOnce
<1> SUFFICES ASSUME HeldInv, Worked, NEW r \in Rows, Cardinality(Holders(r)) > 1,
                    ~KeptByBoth(r), ~ToppedUp(r), NEW l \in FullHolders(r)
             PROVE  FALSE
  BY DEF ReceiptCountedOnce
<1>1. SharesOnly(r) BY DEF HeldInv, Once, Worked, Joined
<1>2. l \in Holders(r) /\ l \in Lines /\ ~assigned[l].part BY DEF FullHolders, Holders
<1>3. PICK k \in Holders(r) : k # l
  <2> SUFFICES ASSUME Holders(r) = {l} PROVE FALSE BY <1>2
  <2>1. Cardinality({l}) = 1 BY FS_Singleton
  <2> QED BY <2>1
<1> QED BY <1>1, <1>2, <1>3 DEF SharesOnly, Holders

LEMMA HeldKept == HeldInv => OrdinaryDecisionsKept
<1> SUFFICES ASSUME HeldInv, Worked, NEW p \in unfilled, ~Defers(p[1], p[2]),
                    NEW r \in RowsOf(p[2])
             PROVE  \E l \in Holders(r) : NamedBy(l, p[2])
  BY DEF OrdinaryDecisionsKept, LostToPeople
<1>1. PICK l \in Lines : NamedFor(l, r) BY DEF HeldInv, Kept, Named
<1> QED BY <1>1 DEF NamedFor, Worked, Joined, Holders, RowsOf

(* Whatever the sheets and the decisions, no receipt is counted in full by *)
(* two lines, or in full by one and in part by another, unless a person    *)
(* asked to keep both or topped up a line of a shared Bill of Entry.       *)
THEOREM CountedOnce == Spec => []ReceiptCountedOnce
<1>1. Init => IInv /\ HeldInv BY InitIInv, StartHeld
<1>2. IInv /\ HeldInv /\ [Next]_vars => IInv' /\ HeldInv' BY NextIInv, NextHeld
<1> QED BY <1>1, <1>2, HeldOnce, PTL DEF Spec

(* No automatic pairing takes a row away from the line a person named it   *)
(* for (matching_core.py:4031): a decision stays unfilled only when other  *)
(* decisions hold every row of its document, or when it had to wait for a  *)
(* Bill of Entry.                                                          *)
THEOREM DecisionsKept == Spec => []OrdinaryDecisionsKept
<1>1. Init => IInv /\ HeldInv BY InitIInv, StartHeld
<1>2. IInv /\ HeldInv /\ [Next]_vars => IInv' /\ HeldInv' BY NextIInv, NextHeld
<1> QED BY <1>1, <1>2, HeldKept, PTL DEF Spec

=============================================================================
