-------------------------- MODULE PaperworkProofs --------------------------
(***************************************************************************)
(* Proofs about Paperwork, for any number of requests, workers, files and  *)
(* readings.  The inductive invariant says what the row locks are for: one *)
(* upload or approval at a time has the plant (OneHolder), so the revision *)
(* an upload was given is still the next one when it commits (NextInLine); *)
(* a reading under approval stays ready (ReadyHeld); and the copy a worker *)
(* or the projection writes back is of a row nobody else has finished with *)
(* (WorkersApart, SawSheetOrder).                                          *)
(***************************************************************************)
EXTENDS Paperwork, StockSums

DocRows     == [rev : Nat, file : Nat, status : {"CURRENT", "SUPERSEDED", "WITHDRAWN"}]
ReadingRows == [doc : Nat, status : Statuses, tasks : Int, twice : BOOLEAN, killed : BOOLEAN]
RequestRows == [op : {"none", "upload", "withdraw", "approve"},
                at : {"none", "store", "supersede", "look", "restore"},
                file : Nat, rev : Nat, doc : Nat, rows : SUBSET Nat, current : BOOLEAN,
                reading : Nat, there : BOOLEAN]
WorkerRows  == [on : Nat, at : {"none", "found", "reading"}]
OrderRows   == [there : BOOLEAN, source : {"CSV", "APP"}, hash : Nat,
                by : {"none", "reading", "sheet"}, of : Nat]

Typed ==
  /\ docs \in Seq(DocRows)
  /\ reading \in Seq(ReadingRows)
  /\ request \in [Reqs -> RequestRows]
  /\ worker \in [Workers -> WorkerRows]
  /\ sheet \in Nat /\ order \in OrderRows
  /\ projection \in [on : BOOLEAN, saw : OrderRows]

\* One transaction at a time has the plant's row.
OneHolder == \A r, q \in Doing("upload") \cup Doing("approve") : r = q

\* Revisions are numbered in the order they are filed.
InOrder    == \A d \in DOMAIN docs : docs[d].rev = d
NextInLine == \A r \in Doing("upload") : request[r].rev = Len(docs) + 1

ReadyHeld ==
  \A r \in Doing("approve") :
    request[r].reading \in DOMAIN reading /\ reading[request[r].reading].status = "READY"

\* What a worker found is still so, unless another one has the same reading.
Still(w) ==
  worker[w].on \in DOMAIN reading =>
    \/ reading[worker[w].on].twice
    \/ /\ worker[w].at = "found" => reading[worker[w].on].status = "QUEUED"
       /\ worker[w].at = "reading" => reading[worker[w].on].status = "RUNNING"

WorkersApart ==
  /\ \A w \in Workers : worker[w].at # "none" => worker[w].on \in DOMAIN reading
  /\ \A w \in Workers : worker[w].at = "none" => worker[w].on = 0
  /\ \A w \in Workers : Still(w)
  /\ \A v, w \in Workers :
       v # w /\ worker[v].on = worker[w].on /\ worker[w].on \in DOMAIN reading =>
         reading[worker[w].on].twice

\* The projection goes on only from an order the sheet had.
SawSheetOrder ==
  /\ order.source = "APP" => order.there /\ order.of \in DOMAIN reading
  /\ projection.on => projection.saw.source = "CSV"

\* Until a withdrawal of a current file has overlapped something: a withdrawal
\* knows whether its file is current, and is alone when it is; what it found
\* to restore, and what an upload found to supersede, is still what there is.
Newest == {d \in OnRecord : \A c \in OnRecord : docs[c].rev <= docs[d].rev}
Moving == Doing("upload") \cup Doing("withdraw")

WithdrawalKnows(q) ==
  /\ request[q].doc \in DOMAIN docs
  /\ request[q].current <=> request[q].doc \in Current
  /\ request[q].current => Moving = {q}
  /\ request[q].at = "restore" => request[q].rows = PreviousOf(q)

FileInv ==
  raced \/ /\ Current = Newest
           /\ \A q \in Doing("withdraw") : WithdrawalKnows(q)
           /\ \A r \in Doing("upload") : request[r].at = "supersede" => request[r].rows = Current

IInv ==
  /\ Typed
  /\ OneHolder /\ InOrder /\ NextInLine
  /\ ReadyHeld /\ WorkersApart
  /\ SawSheetOrder /\ AppOrderWasApproved
-----------------------------------------------------------------------------
LEMMA InitInv == Init => IInv
<1> SUFFICES ASSUME Init PROVE IInv OBVIOUS
<1>1. Idle \in RequestRows /\ Off \in WorkerRows /\ NoOrder \in OrderRows
  BY DEF Idle, Off, NoOrder, RequestRows, WorkerRows, OrderRows
<1>2. Typed BY <1>1 DEF Init, Typed, NotProjecting
<1>3. Doing("upload") = {} /\ Doing("approve") = {} BY DEF Init, Doing, Idle
<1>4. OneHolder /\ InOrder /\ NextInLine /\ ReadyHeld
  BY <1>3 DEF Init, OneHolder, InOrder, NextInLine, ReadyHeld
<1>5. WorkersApart BY DEF Init, WorkersApart, Still, Off
<1>6. SawSheetOrder /\ AppOrderWasApproved
  BY DEF Init, SawSheetOrder, AppOrderWasApproved, NoOrder, NotProjecting
<1> QED BY <1>2, <1>4, <1>5, <1>6 DEF IInv

\* The next revision, when they are numbered in order.
LEMMA NextIs ==
  ASSUME docs \in Seq(DocRows), InOrder PROVE NextRevision = Len(docs) + 1
<1>1. CASE docs = <<>> BY <1>1 DEF NextRevision
<1>2. CASE docs # <<>>
  <2> DEFINE R == {docs[d].rev : d \in DOMAIN docs}
  <2>1. Len(docs) \in Nat \ {0} /\ DOMAIN docs = 1..Len(docs) BY <1>2
  <2>2. R = 1..Len(docs) BY <2>1 DEF InOrder
  <2> HIDE DEF R
  <2>3. Len(docs) \in R /\ \A m \in R : m <= Len(docs) BY <2>1, <2>2
  <2>4. ASSUME NEW n \in R, \A m \in R : m <= n PROVE n = Len(docs)
    <3>1. n \in Int /\ n <= Len(docs) BY <2>1, <2>2
    <3>2. Len(docs) \in Int /\ Len(docs) <= n BY <2>1, <2>3, <2>4
    <3> QED BY <3>1, <3>2
  <2>5. Greatest(R) = Len(docs) BY <2>3, <2>4 DEF Greatest
  <2> QED BY <1>2, <2>5 DEF NextRevision, R
<1> QED BY <1>1, <1>2

\* What a request for a file leaves alone.
LEMMA FilingKeeps ==
  ASSUME IInv, UNCHANGED <<reading, worker, orders>>
  PROVE  WorkersApart' /\ SawSheetOrder' /\ AppOrderWasApproved'
<1>1. WorkersApart'
  <2>1. \A w \in Workers : Still(w) => Still(w)' BY DEF Still
  <2> QED BY <2>1 DEF IInv, WorkersApart
<1>2. SawSheetOrder' BY DEF IInv, SawSheetOrder, orders
<1>3. AppOrderWasApproved' BY DEF IInv, AppOrderWasApproved, orders
<1> QED BY <1>1, <1>2, <1>3
\* The requests after one of them, r, has become q.
LEMMA OneRequest ==
  ASSUME Typed, NEW r \in Reqs, NEW q \in RequestRows, request' = [request EXCEPT ![r] = q]
  PROVE  /\ request' \in [Reqs -> RequestRows]
         /\ request'[r] = q
         /\ \A s \in Reqs \ {r} : request'[s] = request[s]
         /\ \A op \in {"upload", "withdraw", "approve"} :
              /\ Doing(op)' \ {r} = Doing(op) \ {r}
              /\ r \in Doing(op)' <=> q.op = op
<1>1. request \in [Reqs -> RequestRows] BY DEF Typed
<1>2. /\ request' \in [Reqs -> RequestRows]
      /\ request'[r] = q
      /\ \A s \in Reqs \ {r} : request'[s] = request[s]
  BY <1>1
<1> QED BY <1>1, <1>2 DEF Doing

\* A request that stays what it is, or turns into one that has not the plant.
LEMMA SameHolder ==
  ASSUME IInv, NEW r \in Reqs, NEW q \in RequestRows, request' = [request EXCEPT ![r] = q],
         \/ q.op \notin {"upload", "approve"}
         \/ q.op = request[r].op /\ q.rev = request[r].rev /\ q.reading = request[r].reading
  PROVE  /\ OneHolder'
         /\ Len(docs') = Len(docs) => NextInLine'
         /\ reading' = reading => ReadyHeld'
<1>0. Typed BY DEF IInv
<1>1. /\ Doing("upload")' \subseteq Doing("upload")
      /\ Doing("approve")' \subseteq Doing("approve")
  <2>1. ASSUME NEW op \in {"upload", "approve"} PROVE Doing(op)' \subseteq Doing(op)
    <3>1. /\ Doing(op)' \ {r} = Doing(op) \ {r}
          /\ r \in Doing(op)' <=> q.op = op
      BY <1>0, <2>1, OneRequest
    <3>2. q.op = op => r \in Doing(op) BY <2>1 DEF Doing
    <3> QED BY <3>1, <3>2
  <2> QED BY <2>1
<1>2. \A s \in Doing("upload")' : request'[s].rev = request[s].rev
  BY <1>0, OneRequest DEF Doing
<1>3. \A s \in Doing("approve")' : request'[s].reading = request[s].reading
  BY <1>0, OneRequest DEF Doing
<1>4. OneHolder' BY <1>1 DEF IInv, OneHolder
<1>5. Len(docs') = Len(docs) => NextInLine' BY <1>1, <1>2 DEF IInv, NextInLine
<1>6. reading' = reading => ReadyHeld' BY <1>1, <1>3 DEF IInv, ReadyHeld
<1> QED BY <1>4, <1>5, <1>6

LEMMA StartUploadKeeps ==
  ASSUME IInv, NEW r \in Reqs, NEW f \in Known \cup {NewFile}, StartUpload(r, f) PROVE IInv'
<1> DEFINE q == [Idle EXCEPT !.op = "upload", !.at = "store", !.file = f, !.rev = NextRevision]
<1>0. Typed /\ docs \in Seq(DocRows) /\ InOrder BY DEF IInv, Typed
<1>1. NextRevision = Len(docs) + 1 /\ Len(docs) \in Nat BY <1>0, NextIs
<1>2. f \in Nat
  <2>1. \A d \in DOMAIN docs : docs[d] \in DocRows BY <1>0
  <2>2. \A d \in DOMAIN docs : docs[d].file \in Nat BY <2>1 DEF DocRows
  <2> QED BY <1>1, <2>2 DEF Known, NewFile
<1>3. q \in RequestRows
  <2> DEFINE n == NextRevision
  <2>1. n \in Nat BY <1>1
  <2> HIDE DEF n
  <2>2. [Idle EXCEPT !.op = "upload", !.at = "store", !.file = f, !.rev = n] \in RequestRows
    BY <1>2, <2>1 DEF Idle, RequestRows
  <2> QED BY <2>2 DEF n
<1>4. request' = [request EXCEPT ![r] = q] BY DEF StartUpload
<1>5. q.op = "upload" /\ q.rev = Len(docs) + 1 BY <1>1 DEF Idle
<1>6. docs' = docs /\ reading' = reading /\ worker' = worker /\ UNCHANGED orders
  BY DEF StartUpload
<1> HIDE DEF q
<1>7. Doing("upload")' = {r} /\ Doing("approve")' = {}
  <2>1. Doing("upload") = {} /\ Doing("approve") = {} BY DEF StartUpload, PlantFree
  <2>2. Doing("upload")' \ {r} = {} /\ Doing("approve")' \ {r} = {}
        /\ r \in Doing("upload")' /\ r \notin Doing("approve")'
    BY <1>0, <1>3, <1>4, <1>5, <2>1, OneRequest
  <2> QED BY <2>2
<1>8. Typed'
  BY <1>0, <1>3, <1>4, <1>6, OneRequest DEF Typed, orders
<1>9. request'[r].rev = Len(docs) + 1 BY <1>0, <1>3, <1>4, <1>5, OneRequest
<1>10. OneHolder' /\ NextInLine' /\ ReadyHeld' /\ InOrder'
  BY <1>0, <1>6, <1>7, <1>9 DEF OneHolder, NextInLine, ReadyHeld, InOrder
<1>11. WorkersApart' /\ SawSheetOrder' /\ AppOrderWasApproved' BY <1>6, FilingKeeps
<1> QED BY <1>8, <1>10, <1>11 DEF IInv

\* Every other step of a request for a file, but the commit of an upload.
LEMMA OtherFilingKeeps ==
  ASSUME IInv, NEW r \in Reqs, NEW q \in RequestRows, request' = [request EXCEPT ![r] = q],
         \/ q.op \notin {"upload", "approve"}
         \/ q.op = request[r].op /\ q.rev = request[r].rev /\ q.reading = request[r].reading,
         docs' \in Seq(DocRows), Len(docs') = Len(docs),
         \A d \in DOMAIN docs : docs'[d].rev = docs[d].rev,
         UNCHANGED <<reading, worker, orders>>
  PROVE  IInv'
<1>0. Typed BY DEF IInv
<1>1. Typed' BY <1>0, OneRequest DEF Typed, orders
<1>2. InOrder'
  <2>1. DOMAIN docs' = DOMAIN docs BY <1>0 DEF Typed
  <2> QED BY <2>1 DEF IInv, InOrder
<1>3. OneHolder' /\ NextInLine' /\ ReadyHeld' BY SameHolder
<1>4. WorkersApart' /\ SawSheetOrder' /\ AppOrderWasApproved' BY FilingKeeps
<1> QED BY <1>1, <1>2, <1>3, <1>4 DEF IInv
\* Saving the status of rows.
LEMMA Resaved ==
  ASSUME docs \in Seq(DocRows), NEW saved, saved = [d \in DOMAIN docs |-> saved[d]],
         \A d \in DOMAIN docs :
           \/ saved[d] = docs[d]
           \/ \E s \in {"CURRENT", "SUPERSEDED", "WITHDRAWN"} :
                saved[d] = [docs[d] EXCEPT !.status = s]
  PROVE  /\ saved \in Seq(DocRows) /\ Len(saved) = Len(docs)
         /\ \A d \in DOMAIN docs : saved[d].rev = docs[d].rev
<1>1. ASSUME NEW d \in DOMAIN docs PROVE saved[d] \in DocRows /\ saved[d].rev = docs[d].rev
  <2>1. docs[d] \in DocRows OBVIOUS
  <2> QED BY <2>1 DEF DocRows
<1>2. Len(docs) \in Nat /\ DOMAIN docs = 1..Len(docs) OBVIOUS
<1>3. saved \in [1..Len(docs) -> DocRows] BY <1>1, <1>2
<1>4. saved \in Seq(DocRows) /\ Len(saved) = Len(docs) BY <1>2, <1>3
<1> QED BY <1>1, <1>4

LEMMA FinishUploadKeeps ==
  ASSUME IInv, NEW r \in Reqs, FinishUpload(r) PROVE IInv'
<1> DEFINE kept == Superseded(request[r].rows)
           new  == [rev |-> request[r].rev, file |-> request[r].file, status |-> "CURRENT"]
<1>0. Typed /\ docs \in Seq(DocRows) /\ InOrder BY DEF IInv, Typed
<1>1. request[r] \in RequestRows /\ r \in Doing("upload") BY <1>0 DEF FinishUpload, Doing, Typed
<1>2. request[r].rev = Len(docs) + 1 BY <1>1 DEF IInv, NextInLine
<1>3. /\ kept \in Seq(DocRows) /\ Len(kept) = Len(docs)
      /\ \A d \in DOMAIN docs : kept[d].rev = docs[d].rev
  <2>1. \A d \in DOMAIN docs : \/ kept[d] = docs[d]
                               \/ kept[d] = [docs[d] EXCEPT !.status = "SUPERSEDED"]
    BY DEF Superseded
  <2>2. kept = [d \in DOMAIN docs |-> kept[d]] BY DEF Superseded
  <2> HIDE DEF kept
  <2> QED BY <1>0, <2>1, <2>2, Resaved
<1>4. new \in DocRows /\ new.rev = Len(docs) + 1 BY <1>1, <1>2 DEF RequestRows, DocRows
<1>5. docs' = Append(kept, new) BY DEF FinishUpload
<1>6. request' = [request EXCEPT ![r] = Idle] /\ Idle \in RequestRows /\ Idle.op = "none"
  BY DEF FinishUpload, Idle, RequestRows
<1>7. reading' = reading /\ worker' = worker /\ UNCHANGED orders BY DEF FinishUpload
<1> HIDE DEF kept, new
<1>8. docs' \in Seq(DocRows) BY <1>3, <1>4, <1>5
<1>9. InOrder'
  <2>1. Len(docs) \in Nat /\ DOMAIN docs = 1..Len(docs) BY <1>0
  <2>2. DOMAIN docs' = 1..(Len(docs) + 1) BY <1>3, <1>5
  <2>3. \A d \in DOMAIN docs : docs'[d] = kept[d] BY <1>3, <1>5, <2>1
  <2>4. docs'[Len(docs) + 1] = new BY <1>3, <1>5
  <2>5. \A d \in DOMAIN docs : docs'[d].rev = d BY <1>0, <1>3, <2>3 DEF InOrder
  <2>6. ASSUME NEW d \in DOMAIN docs' PROVE docs'[d].rev = d
    <3>1. d \in DOMAIN docs \/ d = Len(docs) + 1 BY <2>1, <2>2
    <3> QED BY <3>1, <2>4, <2>5, <1>4
  <2> QED BY <2>6 DEF InOrder
<1>10. Typed' BY <1>0, <1>6, <1>7, <1>8, OneRequest DEF Typed, orders
<1>11. OneHolder' /\ ReadyHeld' BY <1>6, <1>7, SameHolder
<1>12. NextInLine'
  <2>1. \A s \in Doing("upload") : s = r BY <1>1 DEF IInv, OneHolder
  <2>2. Doing("upload")' \ {r} = Doing("upload") \ {r} /\ r \notin Doing("upload")'
    BY <1>0, <1>6, OneRequest
  <2> QED BY <2>1, <2>2 DEF NextInLine
<1>13. WorkersApart' /\ SawSheetOrder' /\ AppOrderWasApproved' BY <1>7, FilingKeeps
<1> QED BY <1>9, <1>10, <1>11, <1>12, <1>13 DEF IInv

\* Some of the files make a newest one.
LEMMA NewestIn ==
  ASSUME docs \in Seq(DocRows), InOrder, NEW S, S \subseteq DOMAIN docs, S # {}
  PROVE  \E d \in S : \A c \in S : docs[c].rev <= docs[d].rev
<1> DEFINE Above == {n \in Nat : \A c \in S : c <= n}
<1>1. Len(docs) \in Nat /\ DOMAIN docs = 1..Len(docs) OBVIOUS
<1>2. Len(docs) \in Above BY <1>1
<1>3. PICK m \in Above : \A k \in Above : m <= k
  <2> Above \subseteq Nat /\ Above # {} BY <1>2
  <2> HIDE DEF Above
  <2> QED BY LeastNatural
<1>4. m \in Nat /\ \A c \in S : c <= m BY <1>3
<1>5. m \in S
  <2> SUFFICES ASSUME m \notin S PROVE FALSE OBVIOUS
  <2>1. \A c \in S : c \in Nat /\ 1 <= c /\ c <= m - 1 BY <1>1, <1>4
  <2>2. m - 1 \in Nat BY <1>4, <2>1
  <2>3. m - 1 \in Above BY <2>1, <2>2
  <2> QED BY <1>3, <1>4, <2>3
<1> QED BY <1>1, <1>4, <1>5 DEF InOrder

LEMMA FilingStepKeeps ==
  ASSUME IInv, NEW r \in Reqs, Filing(r) PROVE IInv'
<1>0. Typed /\ docs \in Seq(DocRows) /\ request[r] \in RequestRows /\ DOMAIN docs \subseteq Nat
  BY DEF IInv, Typed
<1>1. Idle \in RequestRows /\ Idle.op = "none" BY DEF Idle, RequestRows
<1>2. ASSUME NEW f \in Known \cup {NewFile}, StartUpload(r, f) PROVE IInv'
  BY <1>2, StartUploadKeeps
<1>3. CASE StoreFails(r)
  BY <1>0, <1>1, <1>3, OtherFilingKeeps DEF StoreFails, filing
<1>4. CASE Supersede(r)
  <2> DEFINE q == [request[r] EXCEPT !.at = "supersede", !.rows = Current]
  <2>1. Current \subseteq Nat BY <1>0 DEF Current
  <2>2. request' = [request EXCEPT ![r] = q] BY <1>0, <1>4 DEF Supersede, Typed
  <2>3. /\ q \in RequestRows /\ q.op = request[r].op /\ q.rev = request[r].rev
        /\ q.reading = request[r].reading
    BY <1>0, <2>1 DEF RequestRows
  <2> HIDE DEF q
  <2> QED BY <1>0, <1>4, <2>2, <2>3, OtherFilingKeeps DEF Supersede, filing
<1>5. CASE FinishUpload(r) BY <1>5, FinishUploadKeeps
<1>6. ASSUME NEW d \in DOMAIN docs, StartWithdraw(r, d) PROVE IInv'
  <2> DEFINE q == [Idle EXCEPT !.op = "withdraw", !.at = "look", !.doc = d,
                               !.current = docs[d].status = "CURRENT"]
  <2>1. request' = [request EXCEPT ![r] = q] BY <1>6 DEF StartWithdraw
  <2>2. q \in RequestRows /\ q.op = "withdraw" BY <1>0 DEF Idle, RequestRows
  <2> HIDE DEF q
  <2> QED BY <1>0, <1>6, <2>1, <2>2, OtherFilingKeeps DEF StartWithdraw
<1>7. CASE FindPrevious(r)
  <2> DEFINE q == [request[r] EXCEPT !.at = "restore", !.rows = PreviousOf(r)]
  <2>1. PreviousOf(r) \subseteq Nat
    <3> DEFINE old == {d \in DOMAIN docs : docs[d].status = "SUPERSEDED"}
               last == CHOOSE d \in old : \A c \in old : docs[c].rev <= docs[d].rev
    <3>1. CASE old = {} BY <3>1 DEF PreviousOf
    <3>2. CASE old # {}
      <4>1. \E d \in old : \A c \in old : docs[c].rev <= docs[d].rev
        BY <1>0, <3>2, NewestIn DEF IInv
      <4>2. last \in old BY <4>1
      <4> QED BY <1>0, <4>2 DEF PreviousOf
    <3> QED BY <3>1, <3>2
  <2>2. request' = [request EXCEPT ![r] = q] BY <1>0, <1>7 DEF FindPrevious, Typed
  <2>3. q \in RequestRows /\ q.op = request[r].op /\ q.rev = request[r].rev
        /\ q.reading = request[r].reading
    BY <1>0, <2>1 DEF RequestRows
  <2> HIDE DEF q
  <2> QED BY <1>0, <1>7, <2>2, <2>3, OtherFilingKeeps DEF FindPrevious, filing
<1>8. CASE FinishWithdraw(r)
  <2>1. \A d \in DOMAIN docs :
          \/ docs'[d] = docs[d]
          \/ \E s \in {"CURRENT", "SUPERSEDED", "WITHDRAWN"} :
               docs'[d] = [docs[d] EXCEPT !.status = s]
    BY <1>8 DEF FinishWithdraw
  <2>2. docs' = [d \in DOMAIN docs |-> docs'[d]] BY <1>8 DEF FinishWithdraw
  <2>3. /\ docs' \in Seq(DocRows) /\ Len(docs') = Len(docs)
        /\ \A d \in DOMAIN docs : docs'[d].rev = docs[d].rev
    BY <1>0, <2>1, <2>2, Resaved
  <2> QED BY <1>1, <1>8, <2>3, OtherFilingKeeps DEF FinishWithdraw
<1> QED BY <1>2, <1>3, <1>4, <1>5, <1>6, <1>7, <1>8 DEF Filing
-----------------------------------------------------------------------------
(* The readings. *)

LEMMA SameRequests ==
  ASSUME IInv, UNCHANGED <<docs, request>>
  PROVE  /\ OneHolder' /\ InOrder' /\ NextInLine'
         /\ (\A e \in DOMAIN reading : /\ e \in DOMAIN reading'
                                       /\ reading[e].status = "READY"
                                          /\ (\E r \in Doing("approve") : request[r].reading = e)
                                          => reading'[e].status = "READY")
            => ReadyHeld'
<1>1. \A op : Doing(op)' = Doing(op) BY DEF Doing
<1>2. OneHolder' BY <1>1 DEF IInv, OneHolder
<1>3. InOrder' /\ NextInLine' BY <1>1 DEF IInv, InOrder, NextInLine
<1>4. SUFFICES ASSUME \A e \in DOMAIN reading :
                        /\ e \in DOMAIN reading'
                        /\ reading[e].status = "READY"
                           /\ (\E r \in Doing("approve") : request[r].reading = e)
                           => reading'[e].status = "READY"
               PROVE  ReadyHeld'
  BY <1>2, <1>3
<1> QED BY <1>1, <1>4 DEF IInv, ReadyHeld

LEMMA RequestReadingKeeps ==
  ASSUME IInv, NEW d \in DOMAIN docs, RequestReading(d) PROVE IInv'
<1> DEFINE new == [doc |-> d, status |-> "QUEUED", tasks |-> 1, twice |-> FALSE, killed |-> FALSE]
<1>0. Typed /\ docs \in Seq(DocRows) /\ reading \in Seq(ReadingRows) BY DEF IInv, Typed
<1>1. reading' = Append(reading, new) BY DEF RequestReading
<1>2. new \in ReadingRows /\ new.status = "QUEUED" BY <1>0 DEF ReadingRows, Statuses
<1>3. UNCHANGED <<docs, request>> /\ worker' = worker /\ UNCHANGED orders
  BY DEF RequestReading, filing
<1> HIDE DEF new
<1>4. Len(reading) \in Nat /\ DOMAIN reading = 1..Len(reading) BY <1>0
<1>5. /\ DOMAIN reading' = 1..(Len(reading) + 1)
      /\ \A e \in DOMAIN reading : reading'[e] = reading[e]
      /\ reading' \in Seq(ReadingRows)
  BY <1>0, <1>1, <1>2, <1>4
<1>6. \A e \in DOMAIN reading : e \in DOMAIN reading' BY <1>4, <1>5
<1>7. Typed' BY <1>0, <1>3, <1>5 DEF Typed, orders
<1>8. OneHolder' /\ InOrder' /\ NextInLine' /\ ReadyHeld' BY <1>3, <1>5, <1>6, SameRequests
<1>9. WorkersApart'
  <2>1. \A w \in Workers : worker[w].on \in DOMAIN reading \/ worker[w].on = 0
    BY <1>0 DEF IInv, WorkersApart, Typed, WorkerRows
  <2>2. 0 \notin DOMAIN reading' BY <1>4, <1>5
  <2>3. \A w \in Workers : worker'[w].on \in DOMAIN reading' =>
          worker[w].on \in DOMAIN reading /\ reading'[worker[w].on] = reading[worker[w].on]
    BY <1>3, <1>5, <2>1, <2>2
  <2>4. \A w \in Workers : Still(w)' BY <1>3, <2>3 DEF IInv, WorkersApart, Still
  <2> QED BY <1>3, <1>6, <2>3, <2>4 DEF IInv, WorkersApart
<1>10. SawSheetOrder' /\ AppOrderWasApproved'
  <2>1. SawSheetOrder' BY <1>3, <1>6 DEF IInv, SawSheetOrder, orders
  <2>2. order.source = "APP" => reading'[order.of] = reading[order.of]
    BY <1>5 DEF IInv, SawSheetOrder
  <2> QED BY <1>3, <2>1, <2>2 DEF IInv, AppOrderWasApproved, orders
<1> QED BY <1>7, <1>8, <1>9, <1>10 DEF IInv
\* One reading, e, has become n.
LEMMA OneReading ==
  ASSUME Typed, NEW e \in DOMAIN reading, NEW n \in ReadingRows,
         reading' = [reading EXCEPT ![e] = n]
  PROVE  /\ reading' \in Seq(ReadingRows) /\ DOMAIN reading' = DOMAIN reading
         /\ reading'[e] = n
         /\ \A x \in DOMAIN reading \ {e} : reading'[x] = reading[x]
<1>1. reading \in Seq(ReadingRows) BY DEF Typed
<1>2. Len(reading) \in Nat /\ DOMAIN reading = 1..Len(reading) BY <1>1
<1>3. reading \in [1..Len(reading) -> ReadingRows] BY <1>1
<1>4. reading' \in [1..Len(reading) -> ReadingRows] BY <1>2, <1>3
<1> QED BY <1>2, <1>3, <1>4

\* A change that does not undo an approval leaves the orders as they were.
LEMMA OrdersHold ==
  ASSUME IInv, NEW e \in DOMAIN reading, NEW n \in ReadingRows,
         reading' = [reading EXCEPT ![e] = n], UNCHANGED orders,
         reading[e].twice => n.twice,
         reading[e].status = "APPROVED" => n.status = "APPROVED" \/ n.twice
  PROVE  SawSheetOrder' /\ AppOrderWasApproved'
<1>0. Typed BY DEF IInv
<1>1. /\ DOMAIN reading' = DOMAIN reading /\ reading'[e] = n
      /\ \A x \in DOMAIN reading \ {e} : reading'[x] = reading[x]
  BY <1>0, OneReading
<1>2. SawSheetOrder' BY <1>1 DEF IInv, SawSheetOrder, orders
<1>3. ASSUME order.source = "APP"
      PROVE  reading'[order.of].status = "APPROVED" \/ reading'[order.of].twice
  <2>1. order.of \in DOMAIN reading BY <1>3 DEF IInv, SawSheetOrder
  <2>2. reading[order.of].status = "APPROVED" \/ reading[order.of].twice
    BY <1>3 DEF IInv, AppOrderWasApproved
  <2>3. CASE order.of = e BY <1>1, <2>2, <2>3
  <2>4. CASE order.of # e BY <1>1, <2>1, <2>2, <2>4
  <2> QED BY <2>3, <2>4
<1>4. AppOrderWasApproved' BY <1>3 DEF IInv, AppOrderWasApproved, orders
<1> QED BY <1>2, <1>4

\* The workers, when the status of a reading that none of them has changes.
LEMMA WorkersHold ==
  ASSUME IInv, NEW e \in DOMAIN reading, NEW n \in ReadingRows,
         reading' = [reading EXCEPT ![e] = n], worker' = worker,
         reading[e].twice => n.twice,
         \/ n.status = reading[e].status
         \/ reading[e].status \notin {"QUEUED", "RUNNING"}
  PROVE  WorkersApart'
<1>0. Typed BY DEF IInv
<1>1. /\ DOMAIN reading' = DOMAIN reading /\ reading'[e] = n
      /\ \A x \in DOMAIN reading \ {e} : reading'[x] = reading[x]
  BY <1>0, OneReading
<1>2. ASSUME NEW w \in Workers, worker[w].on \in DOMAIN reading, worker[w].at # "none"
      PROVE  Still(w)'
  <2>1. Still(w) /\ worker[w].at \in {"found", "reading"}
    BY <1>0, <1>2 DEF IInv, WorkersApart, Typed, WorkerRows
  <2>2. CASE worker[w].on # e BY <1>1, <1>2, <2>1, <2>2 DEF Still
  <2>3. CASE worker[w].on = e BY <1>1, <1>2, <2>1, <2>3 DEF Still
  <2> QED BY <2>2, <2>3
<1>3. \A w \in Workers : Still(w)'
  <2>1. \A w \in Workers : worker[w].on \notin DOMAIN reading => Still(w)' BY <1>1 DEF Still
  <2>2. \A w \in Workers : worker[w].at = "none" => Still(w)' BY DEF Still
  <2> QED BY <1>2, <2>1, <2>2
<1>4. \A x \in DOMAIN reading : reading[x].twice => reading'[x].twice BY <1>1
<1> QED BY <1>1, <1>3, <1>4 DEF IInv, WorkersApart

LEMMA DeliverOrRejectKeeps ==
  ASSUME IInv, NEW e \in DOMAIN reading, DeliverTwice(e) \/ Reject(e) PROVE IInv'
<1> DEFINE n == IF DeliverTwice(e) THEN [reading[e] EXCEPT !.tasks = 2]
                ELSE [reading[e] EXCEPT !.status = "REJECTED"]
<1>0. Typed /\ reading[e] \in ReadingRows BY DEF IInv, Typed
<1>1. reading' = [reading EXCEPT ![e] = n] BY DEF DeliverTwice, Reject
<1>2. n \in ReadingRows BY <1>0 DEF ReadingRows, Statuses
<1>3. UNCHANGED <<docs, request>> /\ worker' = worker /\ UNCHANGED orders
  BY DEF DeliverTwice, Reject, filing
<1>4. n.twice = reading[e].twice BY <1>0 DEF ReadingRows
<1>5. \/ n.status = reading[e].status
      \/ reading[e].status \in {"READY", "FAILED"} /\ ReadingFree(e)
  BY <1>0 DEF ReadingRows, Reject, Rejectable
<1> HIDE DEF n
<1>6. Typed' BY <1>0, <1>1, <1>2, <1>3, OneReading DEF Typed, orders
<1>7. OneHolder' /\ InOrder' /\ NextInLine' /\ ReadyHeld'
  <2>1. \A x \in DOMAIN reading :
          /\ x \in DOMAIN reading'
          /\ reading[x].status = "READY" /\ (\E r \in Doing("approve") : request[r].reading = x)
             => reading'[x].status = "READY"
    <3>1. DOMAIN reading' = DOMAIN reading /\ reading'[e] = n
          /\ \A x \in DOMAIN reading \ {e} : reading'[x] = reading[x]
      BY <1>0, <1>1, <1>2, OneReading
    <3> QED BY <1>5, <3>1 DEF ReadingFree
  <2> QED BY <1>3, <2>1, SameRequests
<1>8. WorkersApart' BY <1>1, <1>2, <1>3, <1>4, <1>5, WorkersHold
<1>9. SawSheetOrder' /\ AppOrderWasApproved' BY <1>1, <1>2, <1>3, <1>4, <1>5, OrdersHold
<1> QED BY <1>6, <1>7, <1>8, <1>9 DEF IInv

-----------------------------------------------------------------------------
(* The workers. *)

\* One worker, w, and the reading e it takes, has or gives up.
LEMMA OneWorker ==
  ASSUME IInv, NEW w \in Workers, NEW v \in WorkerRows, worker' = [worker EXCEPT ![w] = v],
         NEW e \in DOMAIN reading, NEW n \in ReadingRows, reading' = [reading EXCEPT ![e] = n],
         UNCHANGED <<docs, request>>, UNCHANGED orders,
         v = Off \/ (v.on = e /\ v.at # "none"),
         v # Off /\ (\E u \in Workers \ {w} : worker[u].on = e) => n.twice,
         v.at = "found" => n.status = "QUEUED" \/ n.twice,
         v.at = "reading" => n.status = "RUNNING" \/ n.twice,
         reading[e].twice => n.twice,
         n.status = reading[e].status \/ (worker[w].on = e /\ worker[w].at # "none"),
         n.status = reading[e].status \/ ReadingFree(e),
         reading[e].status = "APPROVED" => n.status = "APPROVED" \/ n.twice
  PROVE  IInv'
<1>0. Typed /\ worker \in [Workers -> WorkerRows] BY DEF IInv, Typed
<1>1. /\ DOMAIN reading' = DOMAIN reading /\ reading'[e] = n
      /\ \A x \in DOMAIN reading \ {e} : reading'[x] = reading[x]
      /\ reading' \in Seq(ReadingRows)
  BY <1>0, OneReading
<1>2. /\ worker' \in [Workers -> WorkerRows] /\ worker'[w] = v
      /\ \A u \in Workers \ {w} : worker'[u] = worker[u]
  BY <1>0
<1>3. Typed' BY <1>0, <1>1, <1>2 DEF Typed, orders
<1>4. OneHolder' /\ InOrder' /\ NextInLine' /\ ReadyHeld'
  <2>1. \A x \in DOMAIN reading :
          /\ x \in DOMAIN reading'
          /\ reading[x].status = "READY" /\ (\E r \in Doing("approve") : request[r].reading = x)
             => reading'[x].status = "READY"
    BY <1>1 DEF ReadingFree
  <2> QED BY <2>1, SameRequests
<1>5. 0 \notin DOMAIN reading
  <2>1. reading \in Seq(ReadingRows) BY <1>0 DEF Typed
  <2> QED BY <2>1
<1>6. Off.on = 0 /\ Off.at = "none" BY DEF Off
<1>7. \A x \in DOMAIN reading : reading[x].twice => reading'[x].twice BY <1>1
<1>8. \A u, x \in Workers :
        u # x /\ worker'[u].on = worker'[x].on /\ worker'[x].on \in DOMAIN reading' =>
          reading'[worker'[x].on].twice
  <2> SUFFICES ASSUME NEW u \in Workers, NEW x \in Workers, u # x,
                      worker'[u].on = worker'[x].on, worker'[x].on \in DOMAIN reading
               PROVE  reading'[worker'[x].on].twice
    BY <1>1
  <2>1. CASE u # w /\ x # w BY <1>2, <1>7, <2>1 DEF IInv, WorkersApart
  <2>2. CASE u = w BY <1>1, <1>2, <1>5, <1>6, <2>2
  <2>3. CASE x = w BY <1>1, <1>2, <1>5, <1>6, <2>3
  <2> QED BY <2>1, <2>2, <2>3
<1>9. \A u \in Workers : Still(u)'
  <2>1. Still(w)'
    <3>1. CASE v = Off BY <1>1, <1>2, <1>5, <1>6, <3>1 DEF Still
    <3>2. CASE v # Off BY <1>1, <1>2, <3>2 DEF Still
    <3> QED BY <3>1, <3>2
  <2>2. ASSUME NEW u \in Workers \ {w} PROVE Still(u)'
    <3>1. Still(u) BY DEF IInv, WorkersApart
    <3>2. CASE worker[u].on # e BY <1>1, <1>2, <3>1, <3>2 DEF Still
    <3>3. CASE worker[u].on = e /\ n.status = reading[e].status
      BY <1>1, <1>2, <3>1, <3>3 DEF Still
    <3>4. CASE worker[u].on = e /\ worker[w].on = e
      <4>1. reading[e].twice BY <3>4 DEF IInv, WorkersApart
      <4> QED BY <1>1, <1>2, <3>4, <4>1 DEF Still
    <3> QED BY <3>2, <3>3, <3>4
  <2> QED BY <2>1, <2>2
<1>10. /\ \A u \in Workers : worker'[u].at # "none" => worker'[u].on \in DOMAIN reading'
       /\ \A u \in Workers : worker'[u].at = "none" => worker'[u].on = 0
  BY <1>1, <1>2, <1>6 DEF IInv, WorkersApart
<1>11. WorkersApart' BY <1>8, <1>9, <1>10 DEF WorkersApart
<1>12. SawSheetOrder' /\ AppOrderWasApproved' BY OrdersHold
<1> QED BY <1>3, <1>4, <1>11, <1>12 DEF IInv
LEMMA TakeTaskKeeps ==
  ASSUME IInv, NEW w \in Workers, NEW e \in DOMAIN reading, TakeTask(w, e) PROVE IInv'
<1> DEFINE v  == IF reading[e].status = "QUEUED" THEN [on |-> e, at |-> "found"] ELSE Off
           tk == reading[e].tasks - 1
           tw == reading[e].twice \/ /\ reading[e].status = "QUEUED"
                                     /\ \E u \in Workers : worker[u].on = e
           n  == [reading[e] EXCEPT !.tasks = tk, !.twice = tw]
<1>0. Typed /\ reading[e] \in ReadingRows /\ e \in Nat BY DEF IInv, Typed
<1>1. worker' = [worker EXCEPT ![w] = v] BY DEF TakeTask
<1>2. reading' = [reading EXCEPT ![e] = n] BY <1>0 DEF TakeTask, Typed
<1>3. v \in WorkerRows BY <1>0 DEF WorkerRows, Off
<1>4. /\ n \in ReadingRows /\ n.status = reading[e].status
      /\ n.twice = tw
  <2>1. tk \in Int /\ tw \in BOOLEAN BY <1>0 DEF ReadingRows
  <2> HIDE DEF tk, tw
  <2> QED BY <1>0, <2>1 DEF ReadingRows
<1>5. v = Off \/ (v.on = e /\ v.at = "found" /\ reading[e].status = "QUEUED") OBVIOUS
<1>6. reading[e].status = "QUEUED" /\ (\E u \in Workers \ {w} : worker[u].on = e) => tw OBVIOUS
<1>7. reading[e].twice => tw OBVIOUS
<1>8. UNCHANGED <<docs, request>> /\ UNCHANGED orders BY DEF TakeTask, filing
<1>9. v.at # "reading" /\ (v.at = "found" => reading[e].status = "QUEUED") BY <1>5 DEF Off
<1>10. reading[e].twice => n.twice BY <1>4, <1>7
<1>11. v # Off /\ (\E u \in Workers \ {w} : worker[u].on = e) => n.twice BY <1>4, <1>5, <1>6
<1> HIDE DEF v, tk, tw, n
<1>12. v = Off \/ (v.on = e /\ v.at # "none") BY <1>5
<1>13. n \in ReadingRows /\ n.status = reading[e].status BY <1>4
<1>14. /\ v.at = "found" => n.status = "QUEUED" \/ n.twice
       /\ v.at = "reading" => n.status = "RUNNING" \/ n.twice
       /\ reading[e].status = "APPROVED" => n.status = "APPROVED" \/ n.twice
  BY <1>4, <1>9
<1> QED BY <1>1, <1>2, <1>3, <1>8, <1>10, <1>11, <1>12, <1>13, <1>14, OneWorker

\* A worker that is on a reading, and what it knows of it.
LEMMA OnReading ==
  ASSUME IInv, NEW w \in Workers, worker[w] # Off
  PROVE  /\ worker[w].at \in {"found", "reading"} /\ worker[w].on \in DOMAIN reading
         /\ Still(w)
         /\ (\E u \in Workers \ {w} : worker[u].on = worker[w].on) => reading[worker[w].on].twice
<1>1. worker[w] \in WorkerRows BY DEF IInv, Typed
<1>2. worker[w].at # "none"
  <2> SUFFICES ASSUME worker[w].at = "none" PROVE FALSE OBVIOUS
  <2>1. worker[w].on = 0 BY DEF IInv, WorkersApart
  <2> QED BY <1>1, <2>1 DEF WorkerRows, Off
<1>3. worker[w].at \in {"found", "reading"} BY <1>1, <1>2 DEF WorkerRows
<1> QED BY <1>2, <1>3 DEF IInv, WorkersApart

LEMMA WorkKeeps ==
  ASSUME IInv, NEW w \in Workers, Claim(w) \/ EndReading(w) \/ KillWorker(w) PROVE IInv'
<1> DEFINE e == worker[w].on
<1>0. Typed /\ worker[w] # Off BY DEF IInv, Claim, EndReading, KillWorker, Off
<1>1. /\ worker[w].at \in {"found", "reading"} /\ e \in DOMAIN reading /\ Still(w)
      /\ (\E u \in Workers \ {w} : worker[u].on = e) => reading[e].twice
  BY <1>0, OnReading
<1>2. reading[e] \in ReadingRows /\ worker[w] \in WorkerRows BY <1>0, <1>1 DEF Typed
<1>3. Off \in WorkerRows /\ Off.at = "none" BY DEF Off, WorkerRows
<1>4. reading[e].status # "APPROVED" \/ reading[e].twice BY <1>1 DEF Still
<1>on. worker[w].on = e /\ worker[w].at # "none" BY <1>1
<1>5. CASE Claim(w)
  <2> DEFINE v == [worker[w] EXCEPT !.at = "reading"]
             n == [reading[e] EXCEPT !.status = "RUNNING"]
  <2>1. worker' = [worker EXCEPT ![w] = v] /\ reading' = [reading EXCEPT ![e] = n]
    BY <1>0, <1>5 DEF Claim, Typed
  <2>2. v \in WorkerRows /\ v.on = e /\ v.at = "reading" BY <1>2 DEF WorkerRows
  <2>3. n \in ReadingRows /\ n.status = "RUNNING" /\ n.twice = reading[e].twice
    BY <1>2 DEF ReadingRows, Statuses
  <2>4. UNCHANGED <<docs, request>> /\ UNCHANGED orders /\ ReadingFree(e)
    BY <1>5 DEF Claim, filing
  <2> HIDE DEF v, n, e
  <2> QED BY <1>1, <1>4, <1>on, <2>1, <2>2, <2>3, <2>4, OneWorker
<1>6. CASE EndReading(w)
  <2>1. PICK outcome \in Outcomes : reading' = [reading EXCEPT ![e].status = outcome]
    BY <1>6 DEF EndReading
  <2> DEFINE n == [reading[e] EXCEPT !.status = outcome]
  <2>2. worker' = [worker EXCEPT ![w] = Off] /\ reading' = [reading EXCEPT ![e] = n]
    BY <1>0, <1>6, <2>1 DEF EndReading, Typed
  <2>3. n \in ReadingRows /\ n.twice = reading[e].twice
    BY <1>2 DEF ReadingRows, Statuses, Outcomes
  <2>4. UNCHANGED <<docs, request>> /\ UNCHANGED orders /\ ReadingFree(e)
    BY <1>6 DEF EndReading, filing
  <2> HIDE DEF n, e
  <2> QED BY <1>1, <1>3, <1>4, <1>on, <2>2, <2>3, <2>4, OneWorker
<1>7. CASE KillWorker(w)
  <2> DEFINE tk == reading[e].tasks + 1
             n  == [reading[e] EXCEPT !.tasks = tk, !.killed = TRUE]
  <2>1. worker' = [worker EXCEPT ![w] = Off] /\ reading' = [reading EXCEPT ![e] = n]
    BY <1>0, <1>7 DEF KillWorker, Typed
  <2>2. /\ n \in ReadingRows /\ n.twice = reading[e].twice
        /\ n.status = reading[e].status
    <3>1. tk \in Int BY <1>2 DEF ReadingRows
    <3> HIDE DEF tk
    <3> QED BY <1>2, <3>1 DEF ReadingRows
  <2>3. UNCHANGED <<docs, request>> /\ UNCHANGED orders BY <1>7 DEF KillWorker, filing
  <2> HIDE DEF n, e
  <2> QED BY <1>1, <1>3, <2>1, <2>2, <2>3, OneWorker
<1> QED BY <1>5, <1>6, <1>7

-----------------------------------------------------------------------------
(* Approvals, and the projection. *)

LEMMA StartApproveKeeps ==
  ASSUME IInv, NEW r \in Reqs, NEW e \in DOMAIN reading, StartApprove(r, e) PROVE IInv'
<1> DEFINE q == [Idle EXCEPT !.op = "approve", !.reading = e, !.there = order.there]
<1>0. Typed /\ e \in Nat BY DEF IInv, Typed
<1>1. request' = [request EXCEPT ![r] = q] BY DEF StartApprove
<1>2. q \in RequestRows /\ q.op = "approve" /\ q.reading = e
  <2>1. order.there \in BOOLEAN BY <1>0 DEF Typed, OrderRows
  <2> QED BY <1>0, <2>1 DEF Idle, RequestRows
<1>3. docs' = docs /\ reading' = reading /\ worker' = worker /\ UNCHANGED orders
  BY DEF StartApprove, filing
<1> HIDE DEF q
<1>4. Doing("upload")' = {} /\ Doing("approve")' = {r}
  <2>1. Doing("upload") = {} /\ Doing("approve") = {} BY DEF StartApprove, PlantFree
  <2>2. /\ Doing("upload")' \ {r} = {} /\ Doing("approve")' \ {r} = {}
        /\ r \notin Doing("upload")' /\ r \in Doing("approve")'
    BY <1>0, <1>1, <1>2, <2>1, OneRequest
  <2> QED BY <2>2
<1>5. Typed' BY <1>0, <1>1, <1>2, <1>3, OneRequest DEF Typed, orders
<1>6. request'[r].reading = e BY <1>0, <1>1, <1>2, OneRequest
<1>7. reading[e].status = "READY" BY DEF StartApprove
<1>8. OneHolder' /\ NextInLine' /\ ReadyHeld' /\ InOrder'
  BY <1>3, <1>4, <1>6, <1>7 DEF IInv, OneHolder, NextInLine, ReadyHeld, InOrder
<1>9. WorkersApart' /\ SawSheetOrder' /\ AppOrderWasApproved' BY <1>3, FilingKeeps
<1> QED BY <1>5, <1>8, <1>9 DEF IInv

LEMMA FinishApproveKeeps ==
  ASSUME IInv, NEW r \in Reqs, FinishApprove(r) PROVE IInv'
<1> DEFINE e == request[r].reading
<1>0. Typed BY DEF IInv
<1>1. /\ request' = [request EXCEPT ![r] = Idle] /\ Idle \in RequestRows /\ Idle.op = "none"
      /\ r \in Doing("approve")
      /\ docs' = docs /\ worker' = worker /\ sheet' = sheet /\ projection' = projection
  BY DEF FinishApprove, Idle, RequestRows, Doing, filing
<1>2. e \in DOMAIN reading /\ reading[e].status = "READY" BY <1>1 DEF IInv, ReadyHeld
<1>3. OneHolder' /\ NextInLine' /\ InOrder'
  <2>1. OneHolder' /\ NextInLine' BY <1>1, SameHolder
  <2> QED BY <1>1, <2>1 DEF IInv, InOrder
<1>4. ReadyHeld'
  <2>1. \A s \in Doing("approve") : s = r BY <1>1 DEF IInv, OneHolder
  <2>2. Doing("approve")' \ {r} = Doing("approve") \ {r} /\ r \notin Doing("approve")'
    BY <1>0, <1>1, OneRequest
  <2> QED BY <2>1, <2>2 DEF ReadyHeld
<1>5. request' \in [Reqs -> RequestRows] BY <1>0, <1>1, OneRequest
<1>6. CASE request[r].there = order.there
  <2> DEFINE n == [reading[e] EXCEPT !.status = "APPROVED"]
  <2>1. reading' = [reading EXCEPT ![e] = n] BY <1>0, <1>6 DEF FinishApprove, Typed
  <2>2. order' = [order EXCEPT !.there = TRUE, !.source = "APP", !.by = "reading", !.of = e]
    BY <1>6 DEF FinishApprove
  <2>3. reading[e] \in ReadingRows /\ e \in Nat BY <1>0, <1>2 DEF Typed
  <2>4. n \in ReadingRows /\ n.status = "APPROVED" /\ n.twice = reading[e].twice
    BY <2>3 DEF ReadingRows, Statuses
  <2>5. /\ order' \in OrderRows /\ order'.there /\ order'.of = e
        /\ order'.by = "reading"
    BY <1>0, <2>2, <2>3 DEF Typed, OrderRows
  <2> HIDE DEF n, e
  <2>6. /\ reading' \in Seq(ReadingRows) /\ DOMAIN reading' = DOMAIN reading /\ reading'[e] = n
    BY <1>0, <1>2, <2>1, <2>4, OneReading
  <2>7. Typed' BY <1>0, <1>1, <1>5, <2>5, <2>6 DEF Typed
  <2>8. WorkersApart' BY <1>1, <1>2, <2>1, <2>4, WorkersHold
  <2>9. SawSheetOrder' BY <1>1, <1>2, <2>5, <2>6 DEF IInv, SawSheetOrder
  <2>10. AppOrderWasApproved' BY <2>4, <2>5, <2>6 DEF AppOrderWasApproved
  <2> QED BY <1>3, <1>4, <2>7, <2>8, <2>9, <2>10 DEF IInv
<1>7. CASE request[r].there # order.there
  <2>1. order' = order /\ reading' = reading BY <1>7 DEF FinishApprove
  <2>2. Typed' BY <1>0, <1>1, <1>5, <2>1 DEF Typed
  <2>3. WorkersApart' /\ SawSheetOrder' /\ AppOrderWasApproved'
    BY <1>1, <2>1, FilingKeeps DEF orders
  <2> QED BY <1>3, <1>4, <2>2, <2>3 DEF IInv
<1> QED BY <1>6, <1>7

LEMMA SheetKeeps ==
  ASSUME IInv, ChangeSheet \/ StartProjection \/ EndProjection PROVE IInv'
<1>0. Typed BY DEF IInv
<1>1. UNCHANGED <<docs, request, reading, worker>>
  BY DEF ChangeSheet, StartProjection, EndProjection, filing
<1>2. OneHolder' /\ InOrder' /\ NextInLine' /\ ReadyHeld' BY <1>1, SameRequests
<1>3. WorkersApart'
  <2>1. \A w \in Workers : Still(w) => Still(w)' BY <1>1 DEF Still
  <2> QED BY <1>1, <2>1 DEF IInv, WorkersApart
<1>4. CASE ChangeSheet
  <2>1. sheet' \in Nat /\ order' = order /\ projection' = projection
    BY <1>0, <1>4 DEF ChangeSheet, Typed
  <2>2. Typed' BY <1>0, <1>1, <2>1 DEF Typed
  <2>3. SawSheetOrder' /\ AppOrderWasApproved'
    BY <1>1, <2>1 DEF IInv, SawSheetOrder, AppOrderWasApproved
  <2> QED BY <1>2, <1>3, <2>2, <2>3 DEF IInv
<1>5. CASE StartProjection
  <2>1. sheet' = sheet /\ order' = order /\ projection' = [on |-> TRUE, saw |-> order]
    BY <1>5 DEF StartProjection
  <2>2. Typed' BY <1>0, <1>1, <2>1 DEF Typed
  <2>3. order.source = "CSV"
    BY <1>0, <1>5 DEF StartProjection, Held, Typed, OrderRows, IInv, SawSheetOrder
  <2>4. SawSheetOrder' /\ AppOrderWasApproved'
    BY <1>1, <2>1, <2>3 DEF IInv, SawSheetOrder, AppOrderWasApproved
  <2> QED BY <1>2, <1>3, <2>2, <2>4 DEF IInv
<1>6. CASE EndProjection
  <2>1. /\ sheet' = sheet /\ projection' = NotProjecting
        /\ \/ order' = order
           \/ order' = [projection.saw EXCEPT !.there = TRUE, !.hash = sheet,
                                              !.by = "sheet", !.of = sheet]
    BY <1>6 DEF EndProjection
  <2>2. projection.saw \in OrderRows /\ projection.saw.source = "CSV" /\ sheet \in Nat
    BY <1>0, <1>6 DEF EndProjection, Typed, IInv, SawSheetOrder
  <2>3. order' \in OrderRows /\ (order' = order \/ order'.source = "CSV")
    BY <1>0, <2>1, <2>2 DEF Typed, OrderRows
  <2>4. NotProjecting \in [on : BOOLEAN, saw : OrderRows] /\ ~NotProjecting.on
    BY DEF NotProjecting, NoOrder, OrderRows
  <2>5. Typed' BY <1>0, <1>1, <2>1, <2>3, <2>4 DEF Typed
  <2>6. SawSheetOrder' /\ AppOrderWasApproved'
    BY <1>1, <2>1, <2>3, <2>4 DEF IInv, SawSheetOrder, AppOrderWasApproved
  <2> QED BY <1>2, <1>3, <2>5, <2>6 DEF IInv
<1> QED BY <1>4, <1>5, <1>6

LEMMA StepInv == IInv /\ [Next]_vars => IInv'
<1> SUFFICES ASSUME IInv, [Next]_vars PROVE IInv' OBVIOUS
<1>1. CASE UNCHANGED vars
  <2>1. /\ UNCHANGED <<docs, request, reading, worker>> /\ UNCHANGED orders
    BY <1>1 DEF vars, orders
  <2>2. Typed' BY <2>1 DEF IInv, Typed, orders
  <2>3. OneHolder' /\ InOrder' /\ NextInLine' /\ ReadyHeld' BY <2>1, SameRequests
  <2> QED BY <2>1, <2>2, <2>3, FilingKeeps DEF IInv
<1>2. CASE Next
  <2>1. ASSUME NEW r \in Reqs, Filing(r) PROVE IInv' BY <2>1, FilingStepKeeps
  <2>2. ASSUME NEW r \in Reqs, Deciding(r) PROVE IInv'
    BY <2>2, StartApproveKeeps, FinishApproveKeeps DEF Deciding
  <2>3. ASSUME NEW d \in DOMAIN docs, RequestReading(d) PROVE IInv'
    BY <2>3, RequestReadingKeeps
  <2>4. ASSUME NEW w \in Workers, Working(w) \/ KillWorker(w) PROVE IInv'
    BY <2>4, TakeTaskKeeps, WorkKeeps DEF Working
  <2>5. ASSUME NEW e \in DOMAIN reading, DeliverTwice(e) \/ Reject(e) PROVE IInv'
    BY <2>5, DeliverOrRejectKeeps
  <2>6. CASE ChangeSheet \/ StartProjection \/ EndProjection BY <2>6, SheetKeeps
  <2> QED BY <1>2, <2>1, <2>2, <2>3, <2>4, <2>5, <2>6 DEF Next
<1> QED BY <1>1, <1>2

THEOREM Inductive == Spec => []IInv
  BY InitInv, StepInv, PTL DEF Spec

-----------------------------------------------------------------------------
\* However uploads overlap, no two revisions of one PO number get one number:
\* upload_po may send the file to R2 before it inserts the row.
THEOREM RevisionsApart == Spec => []RevisionsDistinct
<1>1. IInv => RevisionsDistinct BY DEF IInv, InOrder, RevisionsDistinct
<1> QED BY <1>1, Inductive, PTL

\* An order the app owns was written by approve from a reading that is approved.
THEOREM AppOrdersApproved == Spec => []AppOrderWasApproved
<1>1. IInv => AppOrderWasApproved BY DEF IInv
<1> QED BY <1>1, Inductive, PTL

\* run, approve and reject never change a reading that has been decided, two
\* workers on one reading aside.
THEOREM DecisionsStand == Spec => DecisionKept
<1> DEFINE Kept == \A e \in DOMAIN reading :
                     reading[e].status \in {"APPROVED", "REJECTED"} =>
                       reading'[e].status = reading[e].status \/ reading[e].twice
<1>1. IInv /\ [Next]_vars => [Kept]_vars
  <2> SUFFICES ASSUME IInv, Next, NEW e \in DOMAIN reading,
                      reading[e].status \in {"APPROVED", "REJECTED"}
               PROVE  reading'[e].status = reading[e].status \/ reading[e].twice
    OBVIOUS
  <2>0. reading \in Seq(ReadingRows) /\ reading[e] \in ReadingRows BY DEF IInv, Typed
  <2>1. ASSUME NEW r \in Reqs, Filing(r) PROVE reading' = reading
    BY <2>1 DEF Filing, StartUpload, StoreFails, Supersede, FinishUpload,
                StartWithdraw, FindPrevious, FinishWithdraw
  <2>2. ASSUME NEW r \in Reqs, Deciding(r) PROVE reading'[e] = reading[e]
    <3>1. ASSUME NEW x \in DOMAIN reading, StartApprove(r, x) PROVE reading' = reading
      BY <3>1 DEF StartApprove
    <3>2. CASE FinishApprove(r)
      <4>1. request[r].reading # e BY <3>2 DEF FinishApprove, Doing, IInv, ReadyHeld
      <4> QED BY <2>0, <3>2, <4>1 DEF FinishApprove
    <3> QED BY <2>2, <3>1, <3>2 DEF Deciding
  <2>3. ASSUME NEW d \in DOMAIN docs, RequestReading(d) PROVE reading'[e] = reading[e]
    BY <2>0, <2>3 DEF RequestReading
  <2>4. ASSUME NEW w \in Workers, Working(w) \/ KillWorker(w)
        PROVE  reading'[e].status = reading[e].status \/ reading[e].twice
    <3>1. ASSUME NEW x \in DOMAIN reading, TakeTask(w, x)
          PROVE  reading'[e].status = reading[e].status
      BY <2>0, <3>1 DEF TakeTask, ReadingRows
    <3>2. CASE Claim(w) \/ EndReading(w)
      <4>1. worker[w] # Off BY <3>2 DEF Claim, EndReading, Off
      <4>2. Still(w) /\ worker[w].on \in DOMAIN reading BY <4>1, OnReading
      <4>3. CASE worker[w].on = e BY <3>2, <4>2, <4>3 DEF Still, Claim, EndReading
      <4>4. CASE worker[w].on # e BY <2>0, <3>2, <4>4 DEF Claim, EndReading
      <4> QED BY <4>3, <4>4
    <3>3. CASE KillWorker(w) BY <2>0, <3>3 DEF KillWorker, ReadingRows
    <3> QED BY <2>4, <3>1, <3>2, <3>3 DEF Working
  <2>5. ASSUME NEW x \in DOMAIN reading, DeliverTwice(x) PROVE reading'[e].status = reading[e].status
    BY <2>0, <2>5 DEF DeliverTwice, ReadingRows
  <2>6. ASSUME NEW x \in DOMAIN reading, Reject(x) PROVE reading'[e] = reading[e]
    BY <2>0, <2>6 DEF Reject, Rejectable
  <2>7. CASE ChangeSheet \/ StartProjection \/ EndProjection
    BY <2>7 DEF ChangeSheet, StartProjection, EndProjection
  <2> QED BY <2>1, <2>2, <2>3, <2>4, <2>5, <2>6, <2>7 DEF Next
<1>2. [][Kept]_vars => DecisionKept BY DEF DecisionKept
<1> QED BY <1>1, <1>2, Inductive, PTL DEF Spec

-----------------------------------------------------------------------------
(* The current file. *)

LEMMA FileInit == Init => FileInv
<1> SUFFICES ASSUME Init PROVE FileInv OBVIOUS
<1>1. Doing("upload") = {} /\ Doing("withdraw") = {} /\ DOMAIN docs = {}
  BY DEF Init, Doing, Idle
<1>2. Current = {} /\ Newest = {} BY <1>1 DEF Current, Newest, OnRecord
<1> QED BY <1>1, <1>2 DEF FileInv

\* A step that no file and no request for one takes part in.
LEMMA FilesApart ==
  ASSUME FileInv, UNCHANGED <<docs, raced>>,
         \A r \in Reqs : \/ request'[r] = request[r]
                         \/ {request[r].op, request'[r].op} \cap {"upload", "withdraw"} = {}
  PROVE  FileInv'
<1> SUFFICES ASSUME ~raced PROVE FileInv' BY DEF FileInv
<1>1. Current' = Current /\ Newest' = Newest BY DEF Current, Newest, OnRecord
<1>2. /\ Doing("upload")' = Doing("upload") /\ Doing("withdraw")' = Doing("withdraw")
      /\ Moving' = Moving
  BY DEF Doing, Moving
<1>3. \A r \in Moving : request'[r] = request[r] BY DEF Moving, Doing
<1>4. \A q \in Doing("withdraw") : PreviousOf(q)' = PreviousOf(q)
  BY <1>3 DEF PreviousOf, Moving
<1>5. \A q \in Doing("withdraw") : WithdrawalKnows(q)'
  BY <1>1, <1>2, <1>3, <1>4 DEF FileInv, WithdrawalKnows, Moving
<1>6. \A r \in Doing("upload") : request'[r].at = "supersede" => request'[r].rows = Current
  BY <1>3 DEF FileInv, Moving
<1> QED BY <1>1, <1>2, <1>5, <1>6 DEF FileInv

\* The files stay; request r has become q, and knows what it has to.
LEMMA FilesStand ==
  ASSUME Typed, FileInv, ~raced, docs' = docs, NEW r \in Reqs, NEW q \in RequestRows,
         request' = [request EXCEPT ![r] = q],
         q.op \in {"upload", "withdraw"} /\ r \notin Moving =>
           \A s \in Doing("withdraw") : ~request[s].current,
         q.op = "withdraw" => WithdrawalKnows(r)',
         q.op = "upload" /\ q.at = "supersede" => q.rows = Current
  PROVE  FileInv'
<1>1. Current' = Current /\ Newest' = Newest BY DEF Current, Newest, OnRecord
<1>2. /\ request'[r] = q
      /\ \A s \in Reqs \ {r} : request'[s] = request[s]
      /\ Doing("upload")' \ {r} = Doing("upload") \ {r}
      /\ Doing("withdraw")' \ {r} = Doing("withdraw") \ {r}
      /\ r \in Doing("upload")' <=> q.op = "upload"
      /\ r \in Doing("withdraw")' <=> q.op = "withdraw"
  BY OneRequest
<1>3. Current = Newest BY DEF FileInv
<1>4. ASSUME NEW s \in Doing("withdraw"), s # r PROVE WithdrawalKnows(s)'
  <2>1. s \in Reqs /\ request'[s] = request[s] /\ WithdrawalKnows(s)
    BY <1>2, <1>4 DEF Doing, FileInv
  <2>2. PreviousOf(s)' = PreviousOf(s) BY <2>1 DEF PreviousOf
  <2>3. ASSUME request[s].current PROVE Moving' = {s}
    <3>1. Moving = {s} BY <2>1, <2>3 DEF WithdrawalKnows
    <3>2. r \notin Moving BY <1>4, <3>1
    <3>3. q.op \notin {"upload", "withdraw"} BY <2>3, <3>2
    <3>4. Doing("upload") \subseteq {s} /\ Doing("withdraw") \subseteq {s} /\ s \in Doing("withdraw")'
      BY <1>2, <1>4, <3>1 DEF Moving
    <3>5. Doing("upload")' \subseteq {s} /\ Doing("withdraw")' \subseteq {s}
      BY <1>2, <3>3, <3>4
    <3> QED BY <3>4, <3>5 DEF Moving
  <2> QED BY <1>1, <2>1, <2>2, <2>3 DEF WithdrawalKnows
<1>5. \A s \in Doing("withdraw")' : WithdrawalKnows(s)'
  <2>1. \A s \in Doing("withdraw")' :
          (s = r /\ q.op = "withdraw") \/ (s \in Doing("withdraw") /\ s # r)
    BY <1>2
  <2> QED BY <1>4, <2>1
<1>6. \A s \in Doing("upload")' : request'[s].at = "supersede" => request'[s].rows = Current
  <2>1. \A s \in Doing("upload")' :
          (s = r /\ q.op = "upload") \/ (s \in Doing("upload") /\ s # r /\ s \in Reqs)
    BY <1>2 DEF Doing
  <2> QED BY <1>2, <2>1 DEF FileInv
<1> QED BY <1>1, <1>3, <1>5, <1>6 DEF FileInv

LEMMA FinishUploadFiles ==
  ASSUME IInv, FileInv, ~raced, NEW r \in Reqs, FinishUpload(r)
  PROVE  FileInv'
<1> DEFINE kept == Superseded(request[r].rows)
           new  == [rev |-> request[r].rev, file |-> request[r].file, status |-> "CURRENT"]
           last == Len(docs) + 1
<1>0. Typed /\ docs \in Seq(DocRows) /\ InOrder BY DEF IInv, Typed
<1>1. /\ r \in Doing("upload") /\ request[r].rows = Current /\ request[r].rev = last
      /\ request[r] \in RequestRows
  BY <1>0 DEF FinishUpload, Doing, FileInv, IInv, NextInLine, Typed
<1>2. /\ kept \in Seq(DocRows) /\ Len(kept) = Len(docs)
      /\ \A d \in DOMAIN docs : kept[d].rev = docs[d].rev
      /\ \A d \in Current : kept[d].status = "SUPERSEDED"
      /\ \A d \in DOMAIN docs \ Current : kept[d] = docs[d]
  <2>1. \A d \in DOMAIN docs : \/ kept[d] = docs[d]
                               \/ kept[d] = [docs[d] EXCEPT !.status = "SUPERSEDED"]
    BY DEF Superseded
  <2>2. kept = [d \in DOMAIN docs |-> kept[d]] BY DEF Superseded
  <2>3. \A d \in Current : docs[d] \in DocRows /\ d \in DOMAIN docs BY <1>0 DEF Current
  <2>4. \A d \in Current : kept[d] = [docs[d] EXCEPT !.status = "SUPERSEDED"]
    BY <1>1, <2>3 DEF Superseded
  <2>5. \A d \in Current : kept[d].status = "SUPERSEDED" BY <2>3, <2>4 DEF DocRows
  <2>6. \A d \in DOMAIN docs \ Current : kept[d] = docs[d] BY <1>1 DEF Superseded
  <2> HIDE DEF kept
  <2> QED BY <1>0, <2>1, <2>2, <2>5, <2>6, Resaved
<1>3. docs' = Append(kept, new) /\ request' = [request EXCEPT ![r] = Idle]
  BY DEF FinishUpload
<1>4. Len(docs) \in Nat /\ DOMAIN docs = 1..Len(docs) BY <1>0
<1>5. /\ DOMAIN docs' = 1..last /\ docs'[last].status = "CURRENT" /\ docs'[last].rev = last
      /\ \A d \in DOMAIN docs : docs'[d] = kept[d]
  <2>1. new.status = "CURRENT" /\ new.rev = last BY <1>1
  <2>2. new \in DocRows BY <1>1 DEF RequestRows, DocRows
  <2> HIDE DEF kept, new
  <2> QED BY <1>2, <1>3, <1>4, <2>1, <2>2
<1> HIDE DEF kept, new
<1>6. Current' = {last}
  <2>1. \A d \in DOMAIN docs : docs'[d].status # "CURRENT" BY <1>2, <1>5 DEF Current
  <2> QED BY <1>4, <1>5, <2>1 DEF Current
<1>7. Newest' = {last}
  <2>1. \A d \in DOMAIN docs : docs'[d].rev = d BY <1>0, <1>2, <1>5 DEF InOrder
  <2>2. \A d \in DOMAIN docs' : docs'[d].rev = d /\ d <= last /\ d \in Nat BY <1>4, <1>5, <2>1
  <2>3. last \in OnRecord' /\ OnRecord' \subseteq DOMAIN docs' BY <1>4, <1>5 DEF OnRecord
  <2>4. last \in Newest' BY <2>2, <2>3 DEF Newest
  <2>5. \A d \in Newest' : last <= d /\ d <= last /\ d \in Nat BY <1>5, <2>2, <2>3 DEF Newest
  <2> QED BY <1>4, <2>4, <2>5
<1>8. /\ Doing("upload")' = {} /\ Doing("withdraw")' = Doing("withdraw")
      /\ \A s \in Doing("withdraw") : s # r /\ request'[s] = request[s]
  <2>1. Idle \in RequestRows /\ Idle.op = "none" BY DEF Idle, RequestRows
  <2>2. \A s \in Doing("upload") : s = r BY <1>1 DEF IInv, OneHolder
  <2>3. /\ Doing("upload")' \ {r} = Doing("upload") \ {r} /\ r \notin Doing("upload")'
        /\ Doing("withdraw")' \ {r} = Doing("withdraw") \ {r} /\ r \notin Doing("withdraw")'
        /\ \A s \in Reqs \ {r} : request'[s] = request[s]
    BY <1>0, <1>3, <2>1, OneRequest
  <2>4. r \notin Doing("withdraw") BY <1>1 DEF Doing
  <2>5. Doing("withdraw") \subseteq Reqs BY DEF Doing
  <2> QED BY <2>2, <2>3, <2>4, <2>5
<1>9. ASSUME NEW s \in Doing("withdraw") PROVE WithdrawalKnows(s)'
  <2>1. WithdrawalKnows(s) /\ request'[s] = request[s] BY <1>8 DEF FileInv
  <2>2. ~request[s].current
    <3> SUFFICES ASSUME request[s].current PROVE FALSE OBVIOUS
    <3>1. Moving = {s} BY <2>1 DEF WithdrawalKnows
    <3> QED BY <1>1, <1>8, <3>1 DEF Moving
  <2>3. PreviousOf(s) = {} /\ PreviousOf(s)' = {} BY <2>1, <2>2 DEF PreviousOf
  <2>4. request[s].doc \in DOMAIN docs' /\ request[s].doc \notin Current'
    BY <1>4, <1>5, <1>6, <2>1 DEF WithdrawalKnows
  <2> QED BY <2>1, <2>2, <2>3, <2>4 DEF WithdrawalKnows
<1> QED BY <1>6, <1>7, <1>8, <1>9 DEF FileInv

LEMMA FinishWithdrawFiles ==
  ASSUME IInv, FileInv, ~raced, NEW r \in Reqs, FinishWithdraw(r)
  PROVE  FileInv'
<1> DEFINE gone == request[r].doc
           back == request[r].rows
           old  == {d \in DOMAIN docs : docs[d].status = "SUPERSEDED"}
<1>0. Typed /\ docs \in Seq(DocRows) /\ InOrder BY DEF IInv, Typed
<1>1. /\ r \in Doing("withdraw") /\ WithdrawalKnows(r) /\ back = PreviousOf(r)
      /\ gone \in DOMAIN docs
  BY DEF FinishWithdraw, Doing, FileInv, WithdrawalKnows
<1>2. Len(docs) \in Nat /\ DOMAIN docs = 1..Len(docs) /\ \A d \in DOMAIN docs : docs[d] \in DocRows
  BY <1>0
<1>3. /\ DOMAIN docs' = DOMAIN docs
      /\ docs'[gone].status = "WITHDRAWN"
      /\ \A d \in back \cap DOMAIN docs : d # gone => docs'[d].status = "CURRENT"
      /\ \A d \in DOMAIN docs : d # gone /\ d \notin back => docs'[d] = docs[d]
      /\ \A d \in DOMAIN docs : docs'[d].rev = d
  <2>1. docs' = [d \in DOMAIN docs |->
                   IF d = gone THEN [docs[d] EXCEPT !.status = "WITHDRAWN"]
                   ELSE IF d \in back THEN [docs[d] EXCEPT !.status = "CURRENT"]
                   ELSE docs[d]]
    BY DEF FinishWithdraw
  <2>2. \A d \in DOMAIN docs : /\ docs[d] \in DocRows /\ docs[d].rev = d
                               /\ [docs[d] EXCEPT !.status = "WITHDRAWN"].status = "WITHDRAWN"
                               /\ [docs[d] EXCEPT !.status = "CURRENT"].status = "CURRENT"
                               /\ [docs[d] EXCEPT !.status = "WITHDRAWN"].rev = d
                               /\ [docs[d] EXCEPT !.status = "CURRENT"].rev = d
    BY <1>0, <1>2 DEF DocRows, InOrder
  <2> QED BY <1>1, <2>1, <2>2
<1>4. request' = [request EXCEPT ![r] = Idle] BY DEF FinishWithdraw
<1>5. /\ Doing("upload")' = Doing("upload") /\ Doing("withdraw")' = Doing("withdraw") \ {r}
      /\ \A s \in Moving \ {r} : request'[s] = request[s]
  <2>1. Idle \in RequestRows /\ Idle.op = "none" BY DEF Idle, RequestRows
  <2>2. /\ Doing("upload")' \ {r} = Doing("upload") \ {r} /\ r \notin Doing("upload")'
        /\ Doing("withdraw")' \ {r} = Doing("withdraw") \ {r} /\ r \notin Doing("withdraw")'
        /\ \A s \in Reqs \ {r} : request'[s] = request[s]
    BY <1>0, <1>4, <2>1, OneRequest
  <2>3. r \notin Doing("upload") /\ Moving \subseteq Reqs BY <1>1 DEF Doing, Moving
  <2> QED BY <2>2, <2>3
<1>6. CASE ~request[r].current
  <2>1. back = {} /\ gone \notin Current BY <1>1, <1>6 DEF PreviousOf, WithdrawalKnows
  <2>2. Current' = Current BY <1>1, <1>3, <2>1 DEF Current
  <2>3. OnRecord' = OnRecord \ {gone} BY <1>1, <1>3, <2>1 DEF OnRecord
  <2>4. Current = Newest BY DEF FileInv
  <2>5. \A d \in DOMAIN docs : docs[d].rev = d BY <1>0 DEF InOrder
  <2>6. Newest' = Newest
    <3>0. /\ OnRecord \subseteq DOMAIN docs
          /\ Newest = {d \in OnRecord : \A c \in OnRecord : c <= d}
          /\ Newest' = {d \in OnRecord' : \A c \in OnRecord' : c <= d}
      BY <1>3, <2>5 DEF Newest, OnRecord
    <3>1. Newest \subseteq Newest'
      BY <2>1, <2>3, <2>4, <3>0
    <3>2. Newest' \subseteq Newest
      <4>1. ASSUME NEW d \in Newest', NEW c \in OnRecord PROVE c <= d
        <5>1. CASE c # gone BY <2>3, <3>0, <4>1, <5>1
        <5>2. CASE c = gone
          <6>1. OnRecord \subseteq DOMAIN docs /\ OnRecord # {} BY <5>2 DEF OnRecord
          <6>2. PICK m \in OnRecord : \A b \in OnRecord : docs[b].rev <= docs[m].rev
            BY <1>0, <6>1, NewestIn
          <6>3. m \in Newest BY <6>2 DEF Newest
          <6>4. m # gone /\ m \in OnRecord' BY <2>1, <2>3, <2>4, <6>2, <6>3
          <6>5. m <= d BY <3>0, <4>1, <6>4
          <6>6. c <= m BY <3>0, <6>3
          <6>7. c \in Nat /\ m \in Nat /\ d \in Nat BY <1>2, <2>3, <3>0, <4>1, <6>2
          <6> QED BY <6>5, <6>6, <6>7
        <5> QED BY <5>1, <5>2
      <4> QED BY <2>3, <3>0, <4>1
    <3> QED BY <3>1, <3>2
  <2>7. ASSUME NEW s \in Doing("withdraw"), s # r PROVE WithdrawalKnows(s)'
    <3>1. WithdrawalKnows(s) /\ request'[s] = request[s] BY <1>5, <2>7 DEF FileInv, Moving
    <3>2. ~request[s].current
      <4> SUFFICES ASSUME request[s].current PROVE FALSE OBVIOUS
      <4>1. Moving = {s} BY <3>1 DEF WithdrawalKnows
      <4> QED BY <1>1, <2>7, <4>1 DEF Moving
    <3>3. PreviousOf(s) = {} /\ PreviousOf(s)' = {} BY <3>1, <3>2 DEF PreviousOf
    <3> QED BY <1>3, <2>2, <3>1, <3>2, <3>3 DEF WithdrawalKnows
  <2>8. ASSUME NEW s \in Doing("upload"), request'[s].at = "supersede"
        PROVE  request'[s].rows = Current'
    <3>1. s # r BY <1>1, <2>8 DEF Doing
    <3>2. request'[s] = request[s] BY <1>5, <3>1 DEF Moving
    <3> QED BY <2>2, <2>8, <3>2 DEF FileInv
  <2> QED BY <1>5, <2>2, <2>4, <2>6, <2>7, <2>8 DEF FileInv
<1>7. CASE request[r].current
  <2>1. Moving = {r} /\ gone \in Current /\ Current = Newest
    BY <1>1, <1>7 DEF WithdrawalKnows, FileInv
  <2>2. Doing("upload")' = {} /\ Doing("withdraw")' = {}
    BY <1>1, <1>5, <2>1 DEF Moving, Doing
  <2>3. /\ OnRecord \subseteq DOMAIN docs
        /\ \A d \in DOMAIN docs : docs[d].rev = d /\ d \in Nat
    BY <1>0, <1>2 DEF InOrder, OnRecord
  <2>4. \A d \in Current : d = gone
    <3>1. \A d \in Current : d \in OnRecord /\ d <= gone /\ gone <= d /\ d \in Nat /\ gone \in Nat
      BY <2>1, <2>3 DEF Newest
    <3> QED BY <3>1
  <2>5. OnRecord = old \cup {gone} /\ gone \notin old
    <3>1. \A d \in DOMAIN docs : docs[d].status \in {"CURRENT", "SUPERSEDED", "WITHDRAWN"}
      BY <1>2 DEF DocRows
    <3>2. \A d \in DOMAIN docs : docs[d].status = "CURRENT" <=> d = gone
      BY <2>1, <2>4 DEF Current
    <3> QED BY <1>1, <3>1, <3>2 DEF OnRecord
  <2>6. CASE old = {}
    <3>1. back = {} BY <1>1, <2>6 DEF PreviousOf
    <3>2. OnRecord' = {} /\ Current' = {} 
      <4>1. OnRecord' = OnRecord \ {gone} BY <1>1, <1>3, <3>1 DEF OnRecord
      <4>2. Current' \subseteq OnRecord' BY DEF Current, OnRecord
      <4> QED BY <2>5, <2>6, <4>1, <4>2
    <3>3. Newest' = {} BY <3>2 DEF Newest
    <3> QED BY <2>2, <3>2, <3>3 DEF FileInv
  <2>7. CASE old # {}
    <3>1. PICK m \in old : \A c \in old : docs[c].rev <= docs[m].rev
      BY <1>0, <2>7, NewestIn
    <3>2. \A n \in old : (\A c \in old : docs[c].rev <= docs[n].rev) => n = m
      <4>1. \A n \in old : n \in Nat /\ docs[n].rev = n BY <2>3
      <4>2. \A n \in old : (\A c \in old : docs[c].rev <= docs[n].rev) => n <= m /\ m <= n
        BY <3>1, <4>1
      <4> QED BY <4>1, <4>2
    <3>3. (CHOOSE d \in old : \A c \in old : docs[c].rev <= docs[d].rev) = m
      BY <3>1, <3>2
    <3>4. back = {m} BY <1>1, <1>7, <2>7, <3>3 DEF PreviousOf
    <3>5. OnRecord' = old
      <4>1. m # gone /\ m \in DOMAIN docs BY <2>5, <3>1
      <4>2. docs'[m].status = "CURRENT" BY <1>3, <3>4, <4>1
      <4>3. \A d \in DOMAIN docs : d # gone /\ d # m => docs'[d] = docs[d] BY <1>3, <3>4
      <4>4. ASSUME NEW d \in DOMAIN docs PROVE docs'[d].status # "WITHDRAWN" <=> d \in old
        <5>1. CASE d = gone BY <1>3, <2>5, <5>1
        <5>2. CASE d = m BY <3>1, <4>2, <5>2
        <5>3. CASE d # gone /\ d # m
          <6>1. docs'[d] = docs[d] BY <4>3, <5>3
          <6>2. docs[d].status # "WITHDRAWN" <=> d \in OnRecord BY DEF OnRecord
          <6> QED BY <2>5, <5>3, <6>1, <6>2
        <5> QED BY <5>1, <5>2, <5>3
      <4>5. OnRecord' \subseteq old BY <1>3, <4>4 DEF OnRecord
      <4>6. old \subseteq OnRecord' BY <1>3, <4>4 DEF OnRecord
      <4> QED BY <4>5, <4>6
    <3>6. Current' = {m}
      <4>1. m # gone /\ docs'[m].status = "CURRENT" BY <1>3, <2>5, <3>1, <3>4
      <4>2. ASSUME NEW d \in DOMAIN docs, docs'[d].status = "CURRENT" PROVE d = m
        <5>1. d # gone BY <1>3, <4>2
        <5>2. d # m => docs'[d] = docs[d] BY <1>3, <3>4, <5>1
        <5>3. d # m => docs[d].status # "CURRENT" BY <2>4, <5>1 DEF Current
        <5> QED BY <4>2, <5>2, <5>3
      <4> QED BY <1>3, <3>1, <4>1, <4>2 DEF Current
    <3>7. Newest' = {m}
      <4>1. \A d \in old : docs'[d].rev = d /\ docs[d].rev = d BY <1>3, <2>3
      <4>2. Newest' = {d \in old : \A c \in old : docs[c].rev <= docs[d].rev}
        BY <3>5, <4>1 DEF Newest
      <4> QED BY <3>1, <3>2, <4>2
    <3> QED BY <2>2, <3>6, <3>7 DEF FileInv
  <2> QED BY <2>6, <2>7
<1> QED BY <1>6, <1>7

LEMMA FilingFiles ==
  ASSUME IInv, FileInv, ~raced', NEW r \in Reqs, Filing(r)
  PROVE  FileInv'
<1>0. Typed /\ request[r] \in RequestRows /\ DOMAIN docs \subseteq Nat BY DEF IInv, Typed
<1>1. ~raced
  BY DEF Filing, StartUpload, StoreFails, Supersede, FinishUpload, StartWithdraw,
         FindPrevious, FinishWithdraw, filing
<1>2. Idle \in RequestRows /\ Idle.op = "none" BY DEF Idle, RequestRows
<1>3. ASSUME NEW f \in Known \cup {NewFile}, StartUpload(r, f) PROVE FileInv'
  <2> DEFINE q == [Idle EXCEPT !.op = "upload", !.at = "store", !.file = f, !.rev = NextRevision]
  <2>1. request' = [request EXCEPT ![r] = q] /\ docs' = docs BY <1>3 DEF StartUpload
  <2>2. q \in RequestRows /\ q.op = "upload" /\ q.at = "store"
    <3> DEFINE n == NextRevision
    <3>1. n \in Nat
      <4>1. docs \in Seq(DocRows) /\ InOrder BY DEF IInv, Typed
      <4>2. NextRevision = Len(docs) + 1 BY <4>1, NextIs
      <4> QED BY <4>1, <4>2
    <3>2. f \in Nat
      <4>1. docs \in Seq(DocRows) BY DEF IInv, Typed
      <4>2. \A d \in DOMAIN docs : docs[d] \in DocRows BY <4>1
      <4>3. \A d \in DOMAIN docs : docs[d].file \in Nat BY <4>2 DEF DocRows
      <4> QED BY <4>1, <4>3 DEF Known, NewFile
    <3> HIDE DEF n
    <3>3. [Idle EXCEPT !.op = "upload", !.at = "store", !.file = f, !.rev = n] \in RequestRows
      BY <3>1, <3>2 DEF Idle, RequestRows
    <3>4. /\ [Idle EXCEPT !.op = "upload", !.at = "store", !.file = f, !.rev = n].op = "upload"
          /\ [Idle EXCEPT !.op = "upload", !.at = "store", !.file = f, !.rev = n].at = "store"
      BY DEF Idle
    <3> QED BY <3>3, <3>4 DEF n
  <2>3. \A s \in Doing("withdraw") : ~request[s].current BY <1>3 DEF StartUpload
  <2> HIDE DEF q
  <2>4. q.op # "withdraw" /\ ~(q.op = "upload" /\ q.at = "supersede") BY <2>2
  <2> QED BY <1>0, <1>1, <2>1, <2>2, <2>3, <2>4, FilesStand
<1>4. CASE StoreFails(r)
  BY <1>0, <1>1, <1>2, <1>4, FilesStand DEF StoreFails, filing
<1>5. CASE Supersede(r)
  <2> DEFINE q == [request[r] EXCEPT !.at = "supersede", !.rows = Current]
  <2>1. Current \subseteq Nat BY <1>0 DEF Current
  <2>2. request' = [request EXCEPT ![r] = q] /\ docs' = docs /\ r \in Moving
    BY <1>0, <1>5 DEF Supersede, Typed, filing, Moving, Doing
  <2>3. q \in RequestRows /\ q.op = "upload" /\ q.rows = Current
    BY <1>0, <1>5, <2>1 DEF RequestRows, Supersede
  <2> HIDE DEF q
  <2> QED BY <1>0, <1>1, <2>2, <2>3, FilesStand
<1>6. CASE FinishUpload(r) BY <1>1, <1>6, FinishUploadFiles
<1>7. ASSUME NEW d \in DOMAIN docs, StartWithdraw(r, d) PROVE FileInv'
  <2> DEFINE cur == docs[d].status = "CURRENT"
             q == [Idle EXCEPT !.op = "withdraw", !.at = "look", !.doc = d, !.current = cur]
  <2>1. request' = [request EXCEPT ![r] = q] /\ docs' = docs /\ request[r] = Idle
    BY <1>7 DEF StartWithdraw
  <2>2. q \in RequestRows /\ q.op = "withdraw" /\ q.at = "look" /\ q.doc = d /\ q.current = cur
    <3>1. cur \in BOOLEAN OBVIOUS
    <3> HIDE DEF cur
    <3> QED BY <1>0, <3>1 DEF Idle, RequestRows
  <2>3. cur <=> d \in Current BY DEF Current
  <2>4. cur => Moving = {} BY <1>7, <2>3 DEF StartWithdraw, Moving
  <2>5. \A s \in Doing("withdraw") : ~request[s].current BY <1>7 DEF StartWithdraw
  <2> HIDE DEF q, cur
  <2>6. /\ request'[r] = q /\ Current' = Current
        /\ cur => Moving' = {r}
    <3>1. /\ request'[r] = q
          /\ Doing("upload")' \ {r} = Doing("upload") \ {r}
          /\ Doing("withdraw")' \ {r} = Doing("withdraw") \ {r}
          /\ r \in Doing("withdraw")'
      BY <1>0, <2>1, <2>2, OneRequest
    <3> QED BY <2>1, <2>4, <3>1 DEF Moving, Current
  <2>7. WithdrawalKnows(r)' BY <2>1, <2>2, <2>3, <2>6 DEF WithdrawalKnows
  <2> QED BY <1>0, <1>1, <2>1, <2>2, <2>5, <2>7, FilesStand
<1>8. CASE FindPrevious(r)
  <2>0. r \in Doing("withdraw") /\ r \in Moving /\ WithdrawalKnows(r)
    BY <1>1, <1>8 DEF FindPrevious, Doing, Moving, FileInv
  <2> DEFINE rows == PreviousOf(r)
             q == [request[r] EXCEPT !.at = "restore", !.rows = rows]
  <2>1. rows \subseteq Nat
    <3> DEFINE old == {d \in DOMAIN docs : docs[d].status = "SUPERSEDED"}
               last == CHOOSE d \in old : \A c \in old : docs[c].rev <= docs[d].rev
    <3>1. CASE old = {} BY <3>1 DEF PreviousOf
    <3>2. CASE old # {}
      <4>1. \E d \in old : \A c \in old : docs[c].rev <= docs[d].rev
        BY <1>0, <3>2, NewestIn DEF IInv, Typed
      <4>2. last \in old BY <4>1
      <4> QED BY <1>0, <4>2 DEF PreviousOf
    <3> QED BY <3>1, <3>2
  <2>2. request' = [request EXCEPT ![r] = q] /\ docs' = docs
    BY <1>0, <1>8 DEF FindPrevious, Typed, filing
  <2>3. /\ q \in RequestRows /\ q.op = "withdraw" /\ q.doc = request[r].doc
        /\ q.current = request[r].current /\ q.rows = rows
    <3> HIDE DEF rows
    <3> QED BY <1>0, <1>8, <2>1 DEF RequestRows, FindPrevious
  <2> HIDE DEF q
  <2>4. /\ request'[r] = q /\ Current' = Current /\ Moving' = Moving
    <3>1. /\ request'[r] = q
          /\ Doing("upload")' \ {r} = Doing("upload") \ {r} /\ r \notin Doing("upload")'
          /\ Doing("withdraw")' \ {r} = Doing("withdraw") \ {r}
          /\ r \in Doing("withdraw")'
      BY <1>0, <2>2, <2>3, OneRequest
    <3>2. r \notin Doing("upload") BY <2>0 DEF Doing
    <3> QED BY <2>0, <2>2, <3>1, <3>2 DEF Moving, Current
  <2>5. PreviousOf(r)' = rows BY <2>2, <2>3, <2>4 DEF PreviousOf
  <2>6. WithdrawalKnows(r)' BY <2>0, <2>2, <2>3, <2>4, <2>5 DEF WithdrawalKnows
  <2> QED BY <1>0, <1>1, <2>0, <2>2, <2>3, <2>6, FilesStand
<1>9. CASE FinishWithdraw(r) BY <1>1, <1>9, FinishWithdrawFiles
<1> QED BY <1>3, <1>4, <1>5, <1>6, <1>7, <1>8, <1>9 DEF Filing

LEMMA FileStep == IInv /\ FileInv /\ [Next]_vars => FileInv'
<1> SUFFICES ASSUME IInv, FileInv, [Next]_vars PROVE FileInv' OBVIOUS
<1>0. UNCHANGED <<docs, raced, request>> => FileInv' BY FilesApart
<1>1. CASE UNCHANGED vars BY <1>0, <1>1 DEF vars
<1>2. ASSUME NEW r \in Reqs, Filing(r) PROVE FileInv'
  <2>1. CASE raced' BY <2>1 DEF FileInv
  <2>2. CASE ~raced' BY <1>2, <2>2, FilingFiles
  <2> QED BY <2>1, <2>2
<1>3. ASSUME NEW r \in Reqs, Deciding(r) PROVE FileInv'
  <2>1. docs' = docs /\ raced' = raced BY <1>3 DEF Deciding, StartApprove, FinishApprove, filing
  <2>2. request \in [Reqs -> RequestRows] BY DEF IInv, Typed
  <2>3. \A s \in Reqs \ {r} : request'[s] = request[s]
    BY <1>3, <2>2 DEF Deciding, StartApprove, FinishApprove
  <2>4. Idle.op = "none" BY DEF Idle
  <2>5. CASE FinishApprove(r)
    <3>1. request[r].op = "approve" /\ request'[r] = Idle BY <2>2, <2>5 DEF FinishApprove
    <3> QED BY <2>1, <2>3, <2>4, <3>1, FilesApart
  <2>6. ASSUME NEW e \in DOMAIN reading, StartApprove(r, e) PROVE FileInv'
    <3> DEFINE q == [Idle EXCEPT !.op = "approve", !.reading = e, !.there = order.there]
    <3>1. request[r] = Idle /\ request'[r] = q BY <2>2, <2>6 DEF StartApprove
    <3>2. q.op = "approve" BY DEF Idle
    <3> HIDE DEF q
    <3> QED BY <2>1, <2>3, <2>4, <3>1, <3>2, FilesApart
  <2> QED BY <1>3, <2>5, <2>6 DEF Deciding
<1>4. ASSUME NEW d \in DOMAIN docs, RequestReading(d) PROVE FileInv'
  BY <1>0, <1>4 DEF RequestReading, filing
<1>5. ASSUME NEW w \in Workers, Working(w) \/ KillWorker(w) PROVE FileInv'
  BY <1>0, <1>5 DEF Working, TakeTask, Claim, EndReading, KillWorker, filing
<1>6. ASSUME NEW e \in DOMAIN reading, DeliverTwice(e) \/ Reject(e) PROVE FileInv'
  BY <1>0, <1>6 DEF DeliverTwice, Reject, filing
<1>7. CASE ChangeSheet \/ StartProjection \/ EndProjection
  BY <1>0, <1>7 DEF ChangeSheet, StartProjection, EndProjection, filing
<1> QED BY <1>1, <1>2, <1>3, <1>4, <1>5, <1>6, <1>7 DEF Next

\* upload_po and withdraw keep the newest file on record current, and only it,
\* until the withdrawal of a current file overlaps another upload or withdrawal.
THEOREM CurrentIsNewest == Spec => []NewestIsCurrent
<1>1. Spec => []FileInv BY FileInit, FileStep, Inductive, PTL DEF Spec
<1>2. FileInv => NewestIsCurrent BY DEF FileInv, Newest, NewestIsCurrent
<1> QED BY <1>1, <1>2, PTL

=============================================================================
