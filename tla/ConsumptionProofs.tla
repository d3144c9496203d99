------------------------- MODULE ConsumptionProofs -------------------------
(***************************************************************************)
(* No day goes silent, and none says more than was used, for every number  *)
(* of lots and days and every size of the windows that bridges the outages *)
(* (WindowAssumption). Silent days: a rebuild gives back an event it       *)
(* deletes although a part of it lies before the range it writes, as the   *)
(* interval is found again between the same two readings and is still one  *)
(* that is logged. Quantities: the rows of a lot up to any day of the      *)
(* range were booked for the readings kept so far and the share of the     *)
(* interval that day lies in, whether or not a later reading ends it       *)
(* elsewhere; so a rebuild can carry them on from where its range begins,  *)
(* with whatever it now reads.                                             *)
(***************************************************************************)
EXTENDS ConsumptionLedger, StockSums, SequenceTheorems

FigureSet == [opening : Nat, received : Nat, issued : Nat, closing : Nat, used : Nat]
ReadingSet == [day : Nat, opening : Nat, received : Nat, issued : Nat, closing : Nat,
               used : Nat, sound : BOOLEAN]

-----------------------------------------------------------------------------
(* The walk over a lot's readings. *)

WalkStates == [last : Int, moved : BOOLEAN]
Walked(readings, i, before) ==
  IF i # Following(readings, before.last) THEN before
  ELSE [last  |-> i,
        moved |-> before.moved
                  \/ Consumes(Interval(readings[before.last], readings[i], before.moved))]

\* Walk has the values its steps give.
LEMMA WalkSteps ==
  ASSUME NEW readings, Len(readings) \in Nat, NEW first \in 1..Len(readings)
  PROVE  /\ Walk(readings, first)[first] = [last |-> first, moved |-> FALSE]
         /\ \A i \in first+1..Len(readings) :
              Walk(readings, first)[i] = Walked(readings, i, Walk(readings, first)[i-1])
<1> DEFINE n == Len(readings)
           start == [last |-> first, moved |-> FALSE]
           next == [k \in 1..(n-first) |-> [x \in WalkStates |-> Walked(readings, first+k, x)]]
           F(u) == [i \in first..n |-> IF i = first THEN start ELSE Walked(readings, i, u[i-1])]
           t == CHOOSE u : u = F(u)
<1>1. n \in Nat /\ first \in Nat /\ n-first \in Nat /\ start \in WalkStates
  BY DEF WalkStates
<1>2. \A k \in 1..(n-first), x \in WalkStates : Walked(readings, first+k, x) \in WalkStates
  BY <1>1 DEF Walked, WalkStates
<1>3. \A k \in 1..(n-first), x \in WalkStates : next[k][x] = Walked(readings, first+k, x)
  OBVIOUS
<1>4. \A k \in 1..(n-first) : \A x \in WalkStates : next[k][x] \in WalkStates
  BY <1>2, <1>3
<1>5. Walk(readings, first) = t
  BY DEF Walk, Walked
<1> HIDE DEF next, n, start
<1>6. PICK s \in [0..(n-first) -> WalkStates] :
        s[0] = start /\ \A k \in 1..(n-first) : s[k] = next[k][s[k-1]]
  <2>1. Stepwise(n-first, WalkStates, start, next)
    BY <1>1, <1>4, StepsExist
  <2> QED BY <2>1 DEF Stepwise
<1>7. \A k \in 1..(n-first) : s[k-1] \in WalkStates
  BY <1>1, <1>6
<1>8. \A k \in 1..(n-first) : s[k] = Walked(readings, first+k, s[k-1])
  BY <1>3, <1>6, <1>7
<1> DEFINE u == [i \in first..n |-> s[i-first]]
<1>9. u = F(u)
  <2>1. \A i \in first..n : i # first => i-first \in 1..(n-first) /\ i-1 \in first..n
                                        /\ u[i-1] = s[(i-first)-1] /\ first + (i-first) = i
    BY <1>1
  <2>2. \A i \in first..n : i # first => s[i-first] = Walked(readings, i, u[i-1])
    BY <1>8, <2>1
  <2>3. s[first-first] = start
    BY <1>1, <1>6
  <2> QED BY <2>2, <2>3
<1>10. t = F(t)
  <2> HIDE DEF F
  <2> QED BY <1>9
<1>11. t[first] = start /\ \A i \in first+1..n : t[i] = Walked(readings, i, t[i-1])
  <2> HIDE DEF t
  <2> QED BY <1>1, <1>10
<1> QED BY <1>5, <1>11 DEF n, start

\* What a sequence of readings is.
LEMMA ReadingTypes ==
  ASSUME NEW readings \in Seq(ReadingSet)
  PROVE  /\ Len(readings) \in Nat
         /\ \A i \in 1..Len(readings) :
              readings[i] \in ReadingSet /\ readings[i].day \in Int /\ readings[i].issued \in Int
<1>1. Len(readings) \in Nat /\ \A i \in 1..Len(readings) : readings[i] \in ReadingSet
  OBVIOUS
<1>2. \A r \in ReadingSet : r.day \in Int /\ r.issued \in Int
  BY DEF ReadingSet
<1> QED BY <1>1, <1>2

LEMMA Limits == MaxBrokenRun \in Nat /\ MaxBrokenRun >= 1 /\ MaxOutage \in Nat /\ MaxOutage >= 1
BY LedgerAssumption

LEMMA AmountsNatural == \A q \in Amounts : q \in Nat
<1>1. Amounts \subseteq Nat \ {0}
  BY LedgerAssumption
<1> QED BY <1>1

\* The next reading kept is at most MaxBrokenRun further on, is one there is
\* unless the last was kept, and those between dip below the one before them.
LEMMA FollowingSkips ==
  ASSUME NEW readings \in Seq(ReadingSet), NEW a \in 1..Len(readings)
  PROVE  /\ Following(readings, a) \in a+1..a+1+MaxBrokenRun
         /\ Following(readings, a) <= Len(readings) \/ Following(readings, a) = a+1
         /\ \A j \in a+1..Following(readings, a)-1 :
              /\ j <= a + MaxBrokenRun
              /\ j <= Len(readings)
              /\ readings[j].issued < readings[a].issued
<1> DEFINE n == Len(readings)
           B == MaxBrokenRun
           back == {j \in a+1..a+1+B : j <= n /\ readings[j].issued >= readings[a].issued}
<1>1. n \in Nat /\ a \in Nat /\ B \in Nat /\ \A i \in 1..n : readings[i].issued \in Int
  BY ReadingTypes, Limits
<1>2. Following(readings, a) = IF back = {} THEN a+1 ELSE Min(back)
  BY DEF Following
<1>3. CASE back = {}
  BY <1>1, <1>2, <1>3
<1>4. CASE back # {}
  <2>1. back \subseteq Nat
    BY <1>1
  <2>2. PICK m \in back : \A k \in back : m <= k
    <3> HIDE DEF back
    <3> QED BY <1>4, <2>1, LeastNatural
  <2>3. Min(back) \in back /\ \A k \in back : Min(back) <= k
    <3> HIDE DEF back
    <3> QED BY <2>2 DEF Min
  <2> DEFINE f == Min(back)
  <2>4. f \in a+1..a+1+B /\ f <= n /\ f = Following(readings, a)
    BY <1>2, <1>4, <2>3
  <2>5. \A k \in back : f <= k
    BY <2>3
  <2> HIDE DEF f
  <2>6. ASSUME NEW j \in a+1..f-1
        PROVE  j <= a + B /\ j <= n /\ readings[j].issued < readings[a].issued
    <3>1. j \in a+1..a+1+B /\ j <= a + B /\ j <= n /\ j \in 1..n /\ j < f
      BY <1>1, <2>4
    <3>2. j \notin back
      BY <3>1, <2>5, <2>1, <2>4
    <3> QED BY <1>1, <3>1, <3>2
  <2> HIDE DEF back
  <2> QED BY <1>1, <2>4, <2>6
<1> QED BY <1>3, <1>4

\* It depends on the next MaxBrokenRun + 1 readings only.
LEMMA FollowingLocal ==
  ASSUME NEW readings \in Seq(ReadingSet), NEW others \in Seq(ReadingSet),
         NEW a \in Nat, a >= 1,
         a+1+MaxBrokenRun <= Len(readings), a+1+MaxBrokenRun <= Len(others),
         \A i \in a..a+1+MaxBrokenRun : readings[i] = others[i]
  PROVE  Following(readings, a) = Following(others, a)
<1>1. Len(readings) \in Nat /\ Len(others) \in Nat /\ MaxBrokenRun \in Nat
  BY ReadingTypes, Limits
<1>2. readings[a] = others[a]
  BY <1>1
<1>3. {j \in a+1..a+1+MaxBrokenRun : j <= Len(readings) /\ readings[j].issued >= readings[a].issued}
      = {j \in a+1..a+1+MaxBrokenRun : j <= Len(others) /\ others[j].issued >= others[a].issued}
  BY <1>1, <1>2
<1> QED BY <1>3 DEF Following

\* After any reading: the walk stands at one it kept, which is the last it kept
\* so far, and what follows that one is still to come.
Standing(readings, first, i) ==
  LET at == Walk(readings, first)
  IN  /\ at[i] \in WalkStates
      /\ at[i].last \in first..i
      /\ at[at[i].last].last = at[i].last
      /\ at[at[i].last].moved = at[i].moved
      /\ i < Following(readings, at[i].last)

LEMMA WalkStands ==
  ASSUME NEW readings \in Seq(ReadingSet), NEW first \in 1..Len(readings)
  PROVE  \A i \in first..Len(readings) : Standing(readings, first, i)
<1> DEFINE n == Len(readings)
           at == Walk(readings, first)
           Good == {k \in 0..(n-first) : Standing(readings, first, first+k)}
<1>1. n \in Nat /\ first \in Nat /\ n-first \in Nat /\ first <= n /\ first >= 1
  BY ReadingTypes
<1>2. /\ at[first] = [last |-> first, moved |-> FALSE]
      /\ \A i \in first+1..n : at[i] = Walked(readings, i, at[i-1])
  BY <1>1, WalkSteps
<1> HIDE DEF at
<1>3. Standing(readings, first, first)
  <2>1. first < Following(readings, first)
    BY <1>1, FollowingSkips
  <2>2. at[first].last = first /\ at[first].moved = FALSE /\ at[first] \in WalkStates
    BY <1>1, <1>2 DEF WalkStates
  <2> QED BY <1>1, <2>1, <2>2 DEF Standing, at
<1>4. ASSUME NEW i \in first+1..n, Standing(readings, first, i-1)
      PROVE  Standing(readings, first, i)
  <2> DEFINE a == at[i-1].last
  <2>1. /\ at[i-1] \in WalkStates /\ a \in first..(i-1) /\ at[a].last = a
        /\ at[a].moved = at[i-1].moved /\ i-1 < Following(readings, a)
    BY <1>4 DEF Standing, at
  <2>2. at[i] = Walked(readings, i, at[i-1])
    BY <1>2
  <2>3. a \in 1..n /\ i \in 1..n /\ i \in Nat
    BY <1>1, <2>1
  <2>4. Following(readings, a) \in Int /\ i < Following(readings, i)
    BY <1>1, <2>3, FollowingSkips, Limits
  <2>5. CASE i # Following(readings, a)
    <3>1. at[i] = at[i-1]
      BY <2>2, <2>5 DEF Walked
    <3>2. i < Following(readings, a)
      BY <2>1, <2>3, <2>4, <2>5
    <3> HIDE DEF a
    <3>3. at[i].last = a
      BY <3>1 DEF a
    <3>4. a \in first..i
      BY <1>1, <2>1, <2>3
    <3> QED BY <2>1, <3>1, <3>2, <3>3, <3>4 DEF Standing, at
  <2>6. CASE i = Following(readings, a)
    <3>1. at[i].last = i /\ at[i] \in WalkStates
      BY <2>1, <2>2, <2>3, <2>6 DEF Walked, WalkStates
    <3> QED BY <1>1, <2>3, <2>4, <3>1 DEF Standing, at
  <2> QED BY <2>5, <2>6
<1>5. 0 \in Good
  BY <1>1, <1>3
<1>6. ASSUME NEW k \in 1..(n-first), k-1 \in Good PROVE k \in Good
  <2>1. first+k \in first+1..n /\ first+(k-1) = (first+k)-1
    BY <1>1
  <2> QED BY <1>4, <1>6, <2>1
<1>7. 0..(n-first) \subseteq Good
  <2> HIDE DEF Good
  <2> QED BY <1>1, <1>5, <1>6, Climb
<1>8. ASSUME NEW i \in first..n PROVE Standing(readings, first, i)
  <2>1. i-first \in 0..(n-first) /\ first+(i-first) = i
    BY <1>1
  <2> QED BY <1>7, <2>1
<1> QED BY <1>8

\* The last reading is always kept.
LEMMA WalkEnds ==
  ASSUME NEW readings \in Seq(ReadingSet), NEW first \in 1..Len(readings)
  PROVE  Walk(readings, first)[Len(readings)].last = Len(readings)
<1> DEFINE n == Len(readings)
           a == Walk(readings, first)[n].last
<1>1. n \in Nat /\ first \in Nat /\ n \in first..n
  BY ReadingTypes
<1>2. a \in first..n /\ n < Following(readings, a)
  BY <1>1, WalkStands DEF Standing
<1>3. a \in 1..n
  BY <1>1, <1>2
<1> HIDE DEF a, n
<1>4. Following(readings, a) <= n \/ Following(readings, a) = a+1
  BY <1>3, FollowingSkips DEF n
<1>5. Following(readings, a) \in Int
  BY <1>1, <1>3, FollowingSkips, Limits DEF n
<1>6. a = n
  BY <1>1, <1>2, <1>4, <1>5
<1> QED BY <1>6 DEF a, n

\* Two readings kept in a row: q follows p.
InARow(readings, first, p, q) ==
  LET at == Walk(readings, first)
  IN  /\ p \in first..q-1 /\ q \in first+1..Len(readings)
      /\ at[p].last = p
      /\ at[q].last = q
      /\ q = Following(readings, p)
      /\ at[q-1] = at[p]

\* The reading kept before one that is kept.
LEMMA RowBefore ==
  ASSUME NEW readings \in Seq(ReadingSet), NEW first \in 1..Len(readings),
         NEW q \in first+1..Len(readings), Walk(readings, first)[q].last = q
  PROVE  InARow(readings, first, Walk(readings, first)[q-1].last, q)
<1> DEFINE n == Len(readings)
           at == Walk(readings, first)
           p == at[q-1].last
<1>1. n \in Nat /\ first \in Nat /\ first >= 1 /\ q \in Nat /\ q-1 \in first..n
  BY ReadingTypes
<1>2. Standing(readings, first, q-1)
  BY <1>1, WalkStands
<1> HIDE DEF at
<1>3. p \in first..q-1 /\ at[p].last = p /\ at[p].moved = at[q-1].moved /\ at[q-1] \in WalkStates
  BY <1>2 DEF Standing, at
<1>4. at[q] = Walked(readings, q, at[q-1])
  BY <1>1, WalkSteps DEF at
<1>5. at[q].last = q
  BY DEF at
<1>6. q = Following(readings, p)
  <2> SUFFICES ASSUME q # Following(readings, p) PROVE FALSE
    OBVIOUS
  <2>1. at[q] = at[q-1]
    BY <1>4 DEF Walked
  <2> QED BY <2>1, <1>1, <1>3, <1>5
<1>7. at[p] = at[q-1]
  <2>1. p \in first..n
    BY <1>1, <1>3
  <2>2. at[p] \in WalkStates
    BY <2>1, WalkStands DEF Standing, at
  <2> QED BY <2>2, <1>3 DEF WalkStates
<1> QED BY <1>3, <1>5, <1>6, <1>7 DEF InARow, at, p

\* The reading kept after one that is kept.
LEMMA RowAfter ==
  ASSUME NEW readings \in Seq(ReadingSet), NEW first \in 1..Len(readings),
         NEW p \in first..Len(readings), Walk(readings, first)[p].last = p,
         Following(readings, p) <= Len(readings)
  PROVE  InARow(readings, first, p, Following(readings, p))
<1> DEFINE n == Len(readings)
           at == Walk(readings, first)
           q == Following(readings, p)
           Good == {k \in 0..(q-1-p) : at[p+k] = at[p]}
<1>1. n \in Nat /\ first \in Nat /\ first >= 1 /\ p \in Nat /\ p \in 1..n
  BY ReadingTypes
<1>2. q \in Nat /\ p < q /\ q <= n
  BY <1>1, FollowingSkips, Limits
<1>3. at[p].last = p
  OBVIOUS
<1>4. \A i \in first+1..n : at[i] = Walked(readings, i, at[i-1])
  BY <1>1, WalkSteps
<1> HIDE DEF at, q, n
<1>5. 0 \in Good
  BY <1>1, <1>2
<1>6. ASSUME NEW k \in 1..(q-1-p), k-1 \in Good PROVE k \in Good
  <2>1. p+k \in first+1..n /\ (p+k)-1 = p+(k-1) /\ p+k # q
    BY <1>1, <1>2
  <2>2. at[(p+k)-1] = at[p]
    BY <1>6, <2>1
  <2>3. at[p+k] = at[p]
    BY <1>3, <1>4, <2>1, <2>2 DEF Walked, q
  <2> QED BY <2>3
<1>7. 0..(q-1-p) \subseteq Good
  <2> DEFINE m == q-1-p
  <2>1. m \in Nat
    BY <1>1, <1>2
  <2> HIDE DEF m
  <2>2. \A k \in 1..m : k-1 \in Good => k \in Good
    BY <1>6 DEF m
  <2> HIDE DEF Good
  <2>3. 0..m \subseteq Good
    BY <1>5, <2>1, <2>2, Climb
  <2> QED BY <2>3 DEF m
<1>8. at[q-1] = at[p]
  <2>1. q-1-p \in 0..(q-1-p) /\ p+(q-1-p) = q-1
    BY <1>1, <1>2
  <2> QED BY <1>7, <2>1
<1>9. at[q].last = q
  <2>1. q \in first+1..n
    BY <1>1, <1>2
  <2>2. at[q] = Walked(readings, q, at[q-1])
    BY <1>4, <2>1
  <2> QED BY <1>3, <1>8, <2>2 DEF Walked, q
<1>10. p \in first..q-1 /\ q \in first+1..n
  BY <1>1, <1>2
<1> QED BY <1>3, <1>8, <1>9, <1>10 DEF InARow, at, q, n

\* A reading that was left out lies soon after one it dips below.
LEMMA LeftOut ==
  ASSUME NEW readings \in Seq(ReadingSet), NEW first \in 1..Len(readings),
         NEW f \in first..Len(readings), Walk(readings, first)[f].last # f
  PROVE  OpensLow(readings, f)
<1> DEFINE n == Len(readings)
           a == Walk(readings, first)[f].last
<1>1. n \in Nat /\ first \in Nat /\ first >= 1 /\ f \in Nat
  BY ReadingTypes
<1>2. a \in first..f /\ f < Following(readings, a)
  BY WalkStands DEF Standing
<1>3. a \in 1..n /\ a < f /\ a # f
  BY <1>1, <1>2
<1> HIDE DEF a, n
<1>4. /\ Following(readings, a) \in Int
      /\ \A j \in a+1..Following(readings, a)-1 :
           j <= a + MaxBrokenRun /\ j <= n /\ readings[j].issued < readings[a].issued
  BY <1>1, <1>3, FollowingSkips, Limits DEF n
<1>5. f \in a+1..Following(readings, a)-1
  BY <1>1, <1>2, <1>3, <1>4
<1>6. f <= a + MaxBrokenRun /\ readings[f].issued < readings[a].issued
  BY <1>4, <1>5
<1> DEFINE k == f-a
<1>7. k \in 1..MaxBrokenRun /\ f-k = a /\ f-k >= 1
  BY <1>1, <1>3, <1>6, Limits
<1>8. readings[a].issued > readings[f].issued
  BY <1>1, <1>3, <1>6, ReadingTypes DEF n
<1> HIDE DEF k
<1> QED BY <1>7, <1>8 DEF OpensLow

\* Days go up from one reading to the next, and never by more than an outage.
Dated(readings) ==
  \A i \in 1..Len(readings)-1 :
    readings[i].day < readings[i+1].day /\ readings[i+1].day - readings[i].day <= MaxOutage

LEMMA DaysGoUp ==
  ASSUME NEW readings \in Seq(ReadingSet), Dated(readings),
         NEW i \in 1..Len(readings), NEW j \in i..Len(readings)
  PROVE  /\ readings[j].day - readings[i].day <= (j-i) * MaxOutage
         /\ j - i <= readings[j].day - readings[i].day
<1> DEFINE n == Len(readings)
           day == [k \in 1..n |-> readings[k].day]
           M == MaxOutage
           Good == {k \in 0..(n-i) : day[i+k] - day[i] <= k * M /\ k <= day[i+k] - day[i]}
<1>1. n \in Nat /\ i \in Nat /\ i >= 1 /\ n-i \in Nat /\ M \in Nat /\ \A k \in 1..n : day[k] \in Int
  BY ReadingTypes, Limits
<1>2. \A k \in 1..n-1 : day[k] < day[k+1] /\ day[k+1] - day[k] <= M
  BY <1>1 DEF Dated
<1>3. \A k \in 1..n : day[k] = readings[k].day
  OBVIOUS
<1> HIDE DEF day, n, M
<1>4. 0 \in Good
  <2>1. i \in 1..n
    BY DEF n
  <2> QED BY <1>1, <2>1
<1>5. ASSUME NEW k \in 1..(n-i), k-1 \in Good PROVE k \in Good
  <2> DEFINE c == day[i+(k-1)]
             e == day[i+k]
  <2>1. i+(k-1) \in 1..n-1 /\ i+(k-1)+1 = i+k /\ i+k \in 1..n /\ i \in 1..n /\ i+(k-1) \in 1..n
    BY <1>1
  <2>2. c < e /\ e - c <= M /\ c \in Int /\ e \in Int /\ day[i] \in Int
    BY <1>1, <1>2, <2>1
  <2>3. c - day[i] <= (k-1) * M /\ k-1 <= c - day[i]
    BY <1>5
  <2>4. (k-1) * M = k*M - M /\ k*M \in Int
    BY <1>1
  <2> HIDE DEF c, e
  <2>5. e - day[i] <= k * M /\ k <= e - day[i]
    BY <1>1, <2>2, <2>3, <2>4
  <2> QED BY <2>5 DEF e
<1>6. 0..(n-i) \subseteq Good
  <2> HIDE DEF Good
  <2> QED BY <1>1, <1>4, <1>5, Climb
<1>7. j-i \in 0..(n-i) /\ i+(j-i) = j /\ j \in 1..n /\ i \in 1..n
  BY <1>1 DEF n
<1>8. day[j] - day[i] <= (j-i) * M /\ j-i <= day[j] - day[i]
  BY <1>6, <1>7
<1> QED BY <1>3, <1>7, <1>8 DEF M

\* Every day of the window lies in an interval of two readings kept in a row.
LEMMA Covering ==
  ASSUME NEW readings \in Seq(ReadingSet), Dated(readings), NEW first \in 1..Len(readings),
         NEW d \in Int, readings[first].day < d, d <= readings[Len(readings)].day
  PROVE  \E i \in Intervals(readings, first) : d \in DaysOf(i)
<1> DEFINE n == Len(readings)
           at == Walk(readings, first)
           Past == {k \in first+1..n : at[k].last = k /\ readings[k].day >= d}
<1>1. n \in Nat /\ first \in Nat /\ first >= 1 /\ \A k \in 1..n : readings[k].day \in Int
  BY ReadingTypes
<1>2. Past \subseteq Nat
  BY <1>1
<1>3. n \in Past
  <2>1. at[n].last = n
    BY WalkEnds
  <2>2. readings[n].day >= d /\ n # first
    BY <1>1
  <2> HIDE DEF at
  <2> QED BY <1>1, <2>1, <2>2
<1>4. PICK q \in Past : \A k \in Past : q <= k
  <2> HIDE DEF Past
  <2> QED BY <1>2, <1>3, LeastNatural
<1>5. q \in first+1..n /\ at[q].last = q /\ readings[q].day >= d
  OBVIOUS
<1> DEFINE p == at[q-1].last
<1>6. InARow(readings, first, p, q)
  BY <1>5, RowBefore
<1>7. p \in first..q-1 /\ at[p].last = p
  BY <1>6 DEF InARow
<1> HIDE DEF at
<1>8. readings[p].day < d
  <2>1. CASE p = first
    BY <2>1
  <2>2. CASE p # first
    <3>1. p \in first+1..n /\ p < q
      BY <1>1, <1>5, <1>7, <2>2
    <3>2. p \notin Past
      BY <1>1, <1>4, <1>5, <3>1
    <3> HIDE DEF p
    <3>3. ~(readings[p].day >= d)
      BY <1>7, <3>1, <3>2
    <3>4. p \in 1..n
      BY <1>1, <3>1
    <3> QED BY <1>1, <3>3, <3>4
  <2> QED BY <2>1, <2>2
<1> DEFINE found == Interval(readings[p], readings[q], at[q-1].moved)
<1>9. found \in Intervals(readings, first)
  <2>1. q \in {j \in first+1..n : at[j].last = j}
    BY <1>5
  <2> QED BY <2>1 DEF Intervals, at, p, n
<1>10. found.start = readings[p].day /\ found.end = readings[q].day
  BY DEF Interval
<1>11. d \in DaysOf(found)
  <2> HIDE DEF found
  <2>1. readings[p].day \in Int /\ readings[q].day \in Int
    BY <1>1, <1>5, <1>7
  <2> QED BY <1>5, <1>8, <1>10, <2>1 DEF DaysOf
<1> QED BY <1>9, <1>11

\* Two series of readings that agree as far as the walk over them looks ahead.
Agree(readings, others, p) ==
  /\ p+1+MaxBrokenRun <= Len(readings) /\ p+1+MaxBrokenRun <= Len(others)
  /\ \A i \in 1..p+1+MaxBrokenRun : readings[i] = others[i]

\* A window that opens later, on a reading the earlier one kept, keeps the same
\* readings; the lot has moved in it only if it had in the earlier one.
LEMMA SameWalk ==
  ASSUME NEW readings \in Seq(ReadingSet), NEW others \in Seq(ReadingSet),
         NEW early \in 1..Len(others), NEW first \in early..Len(others), NEW p \in first..Len(others),
         Agree(readings, others, p),
         Walk(others, early)[first].last = first
  PROVE  \A i \in first..p :
           /\ Walk(readings, first)[i].last = Walk(others, early)[i].last
           /\ Walk(readings, first)[i].moved => Walk(others, early)[i].moved
<1> DEFINE new == Walk(readings, first)
           old == Walk(others, early)
           B == MaxBrokenRun
           Same(i) == new[i].last = old[i].last /\ (new[i].moved => old[i].moved)
           Good == {k \in 0..(p-first) : Same(first+k)}
<1>1. /\ Len(readings) \in Nat /\ Len(others) \in Nat /\ B \in Nat /\ early \in Nat /\ first \in Nat
      /\ p \in Nat /\ early >= 1 /\ first >= 1 /\ early <= first /\ first <= p
  BY ReadingTypes, Limits
<1>2. p+1+B <= Len(readings) /\ p+1+B <= Len(others) /\ \A i \in 1..p+1+B : readings[i] = others[i]
  BY DEF Agree
<1>3. first \in 1..Len(readings)
  BY <1>1, <1>2
<1>4. /\ new[first] = [last |-> first, moved |-> FALSE]
      /\ \A i \in first+1..Len(readings) : new[i] = Walked(readings, i, new[i-1])
  BY <1>1, <1>3, WalkSteps
<1>5. \A i \in early+1..Len(others) : old[i] = Walked(others, i, old[i-1])
  BY <1>1, WalkSteps
<1>6. \A i \in first..Len(readings) : new[i] \in WalkStates /\ new[i].last \in first..i
  BY <1>3, WalkStands DEF Standing
<1>7. \A i \in early..Len(others) : old[i] \in WalkStates
  BY WalkStands DEF Standing
<1>8. old[first].last = first
  OBVIOUS
<1> HIDE DEF new, old, B
<1>9. Same(first)
  BY <1>4, <1>8
<1>10. ASSUME NEW i \in first+1..p, Same(i-1)
       PROVE  Same(i)
  <2> DEFINE a == new[i-1].last
  <2>1. /\ i \in Nat /\ i \in first+1..Len(readings) /\ i \in early+1..Len(others)
        /\ i-1 \in first..Len(readings) /\ i-1 \in early..Len(others) /\ i-1 < p
    BY <1>1, <1>2
  <2>2. a \in first..i-1 /\ a = old[i-1].last /\ (new[i-1].moved => old[i-1].moved)
    BY <1>6, <1>10, <2>1
  <2>3. new[i] = Walked(readings, i, new[i-1]) /\ old[i] = Walked(others, i, old[i-1])
    BY <1>4, <1>5, <2>1
  <2>4. readings[a] = others[a] /\ readings[i] = others[i]
    BY <1>1, <1>2, <2>1, <2>2
  <2>5. Following(readings, a) = Following(others, a)
    <3> HIDE DEF a
    <3>1. /\ a \in Nat /\ a >= 1 /\ a+1+B <= Len(readings) /\ a+1+B <= Len(others)
          /\ \A k \in a..a+1+B : readings[k] = others[k]
      <4>1. a \in Nat /\ a >= 1 /\ a+1+B <= p+1+B
        <5>1. a \in first..i-1
          BY <2>2
        <5> QED BY <1>1, <2>1, <5>1
      <4>2. \A k \in a..a+1+B : k \in 1..p+1+B
        BY <1>1, <4>1
      <4> QED BY <1>1, <1>2, <4>1, <4>2
    <3> QED BY <3>1, FollowingLocal DEF B
  <2>6. CASE i # Following(readings, a)
    <3>1. new[i] = new[i-1] /\ old[i] = old[i-1]
      BY <2>2, <2>3, <2>5, <2>6 DEF Walked
    <3> QED BY <3>1, <1>10
  <2>7. CASE i = Following(readings, a)
    <3>1. new[i] = [last |-> i, moved |-> new[i-1].moved
                       \/ Consumes(Interval(readings[a], readings[i], new[i-1].moved))]
      BY <2>3, <2>7 DEF Walked
    <3>2. old[i] = [last |-> i, moved |-> old[i-1].moved
                       \/ Consumes(Interval(readings[a], readings[i], old[i-1].moved))]
      BY <2>2, <2>3, <2>4, <2>5, <2>7 DEF Walked
    <3>3. new[i].last = old[i].last
      BY <3>1, <3>2
    <3> DEFINE m == new[i-1].moved
               w == old[i-1].moved
    <3>4. m \in BOOLEAN /\ w \in BOOLEAN /\ (m => w)
      BY <1>6, <1>7, <2>1, <2>2 DEF WalkStates
    <3>5. new[i].moved = (m \/ Consumes(Interval(readings[a], readings[i], m)))
      BY <3>1
    <3>6. old[i].moved = (w \/ Consumes(Interval(readings[a], readings[i], w)))
      BY <3>2
    <3> HIDE DEF m, w
    <3>7. CASE w
      BY <3>6, <3>7, <3>3
    <3>8. CASE ~w
      <4>1. m = w
        BY <3>4, <3>8
      <4> QED BY <3>3, <3>5, <3>6, <4>1
    <3> QED BY <3>7, <3>8
  <2> QED BY <2>6, <2>7
<1>11. 0 \in Good
  BY <1>1, <1>9
<1>12. ASSUME NEW k \in 1..(p-first), k-1 \in Good PROVE k \in Good
  <2>1. first+k \in first+1..p /\ first+(k-1) = (first+k)-1
    BY <1>1
  <2> HIDE DEF Same
  <2> QED BY <1>10, <1>12, <2>1
<1>13. 0..(p-first) \subseteq Good
  <2>1. p-first \in Nat
    BY <1>1
  <2> HIDE DEF Good
  <2> QED BY <2>1, <1>11, <1>12, Climb
<1>14. ASSUME NEW i \in first..p PROVE Same(i)
  <2>1. i-first \in 0..(p-first) /\ first+(i-first) = i
    BY <1>1
  <2> QED BY <1>13, <2>1
<1> QED BY <1>14 DEF new, old

LEMMA Windows ==
  /\ Lookback \in Nat /\ Lookback >= 1 /\ Anchor \in Nat
  /\ Anchor >= MaxOutage
  /\ Lookback >= (MaxBrokenRun + 2) * MaxOutage - 1
  /\ Lookback >= MaxOutage
<1>1. Lookback \in Nat /\ Lookback >= 1 /\ Anchor \in Nat
  BY LedgerAssumption
<1>2. /\ Lookback >= (MaxBrokenRun + 2) * MaxOutage - 1
      /\ Anchor >= (MaxBrokenRun + 1) * MaxOutage
  BY WindowAssumption
<1> DEFINE x == MaxBrokenRun * MaxOutage
<1>3. /\ (MaxBrokenRun + 2) * MaxOutage = x + MaxOutage + MaxOutage
      /\ (MaxBrokenRun + 1) * MaxOutage = x + MaxOutage
  BY Limits
<1>4. x \in Nat
  BY Limits
<1> HIDE DEF x
<1> QED BY <1>1, <1>2, <1>3, <1>4, Limits

\* The window opens on the first reading that is not too old for it.
LEMMA OpensOn ==
  ASSUME NEW readings \in Seq(ReadingSet), NEW since \in Int
  PROVE  /\ Opens(readings, since) \in 1..Len(readings)+1
         /\ Opens(readings, since) <= Len(readings) =>
              readings[Opens(readings, since)].day >= since - Anchor
         /\ \A i \in 1..Len(readings) : i < Opens(readings, since) => readings[i].day < since - Anchor
<1> DEFINE n == Len(readings)
           T == {i \in 1..n : readings[i].day >= since - Anchor} \cup {n+1}
<1>1. n \in Nat /\ \A i \in 1..n : readings[i].day \in Int
  BY ReadingTypes
<1>2. T \subseteq Nat /\ T # {}
  BY <1>1
<1>3. PICK m \in T : \A k \in T : m <= k
  <2> HIDE DEF T
  <2> QED BY <1>2, LeastNatural
<1>4. Min(T) \in T /\ \A k \in T : Min(T) <= k
  <2> HIDE DEF T
  <2> QED BY <1>3 DEF Min
<1>5. Opens(readings, since) = Min(T)
  BY DEF Opens, ReadFrom
<1> DEFINE f == Opens(readings, since)
<1>6. f \in T /\ \A k \in T : f <= k
  BY <1>4, <1>5
<1> HIDE DEF f
<1>7. f \in 1..n+1 /\ (f <= n => readings[f].day >= since - Anchor)
  BY <1>1, <1>6
<1>8. ASSUME NEW i \in 1..n, i < f PROVE readings[i].day < since - Anchor
  <2>1. i \notin T
    BY <1>1, <1>2, <1>6, <1>7, <1>8
  <2> QED BY <1>1, <2>1, Windows
<1> QED BY <1>7, <1>8 DEF f

\* The readings of an earlier rebuild: today's may be read again, and more come
\* after it.
Grown(others, readings) ==
  /\ Len(others) \in 1..Len(readings)
  /\ \A i \in 1..Len(others)-1 : readings[i] = others[i]
  /\ readings[Len(others)].day = others[Len(others)].day

LEMMA GrownDays ==
  ASSUME NEW readings \in Seq(ReadingSet), NEW others \in Seq(ReadingSet),
         Grown(others, readings), Dated(readings)
  PROVE  Dated(others) /\ \A i \in 1..Len(others) : others[i].day = readings[i].day
<1>1. Len(others) \in Nat /\ Len(readings) \in Nat
  BY ReadingTypes
<1>2. \A i \in 1..Len(others) : others[i].day = readings[i].day
  BY <1>1 DEF Grown
<1>3. \A i \in 1..Len(others)-1 : i \in 1..Len(readings)-1 /\ i \in 1..Len(others) /\ i+1 \in 1..Len(others)
  BY <1>1 DEF Grown
<1>4. Dated(others)
  BY <1>2, <1>3 DEF Dated
<1> QED BY <1>2, <1>4

\* An interval is logged whether or not the lot is known to have moved before.
LEMMA LoggedStill ==
  ASSUME NEW r, NEW s, NEW m \in BOOLEAN, NEW w \in BOOLEAN, m => w,
         Interval(r, s, w).kind \in Logged
  PROVE  Interval(r, s, m).kind \in Logged
<1>1. Classification(r, s, w) \in Logged
  BY DEF Interval
<1>2. Interval(r, s, m).kind = Classification(r, s, m)
  BY DEF Interval
<1>3. IsCloseout(r, s, w) => IsCloseout(r, s, m)
  BY DEF IsCloseout
<1>4. Classification(r, s, m) \in Logged
  <2> DEFINE X == Classification(r, s, w)
  <2>1. \/ X = "period_roll" /\ Issued(r, s) < 0
        \/ X = "closeout" /\ IsCloseout(r, s, w)
        \/ X \in {"restatement", "books_disagree"} /\ Balance(r, s) # Issued(r, s)
    BY <1>1 DEF Classification, Logged, Excluded
  <2> QED BY <2>1, <1>3 DEF Classification, Logged, Excluded
<1> QED BY <1>2, <1>4

\* An event that reaches back before the range this rebuild writes, found by the
\* last rebuild in its readings, is found again between the same two readings:
\* by then all the readings that decide which are kept had come in, and unless
\* the window opens on a dip its first reading is one the last rebuild kept.
LEMMA Regained ==
  ASSUME NEW readings \in Seq(ReadingSet), NEW others \in Seq(ReadingSet),
         Grown(others, readings), Dated(readings),
         NEW now \in Int, readings[Len(readings)].day = now,
         now - others[Len(others)].day <= MaxOutage,
         ~OpensLow(readings, Opens(readings, now - Lookback)),
         NEW e \in Intervals(others, Opens(others, others[Len(others)].day - Lookback)),
         e.kind \in Logged, e.end >= now - Lookback,
         NEW d \in DaysOf(e), d < now - Lookback
  PROVE  \E i \in Intervals(readings, Opens(readings, now - Lookback)) :
           i.kind \in Logged /\ i.start = e.start /\ i.end = e.end
<1> DEFINE n == Len(readings)
           n0 == Len(others)
           b == others[n0].day
           since == now - Lookback
           first == Opens(readings, since)
           early == Opens(others, b - Lookback)
           new == Walk(readings, first)
           old == Walk(others, early)
           B == MaxBrokenRun
           M == MaxOutage
<1>1. /\ n \in Nat /\ n0 \in Nat /\ B \in Nat /\ M \in Nat /\ M >= 1 /\ n0 >= 1 /\ n0 <= n
      /\ Lookback \in Nat /\ Anchor \in Nat /\ Anchor >= M /\ since \in Int
  BY ReadingTypes, Limits, Windows DEF Grown
<1>2. Dated(others) /\ \A i \in 1..n0 : others[i].day = readings[i].day
  BY GrownDays
<1>3. \A i \in 1..n0 : others[i].day \in Int /\ others[i].issued \in Int
  BY ReadingTypes
<1>4. b \in Int /\ b - Lookback \in Int /\ now - b <= M
  BY <1>1, <1>3
<1>5. \A i \in 1..n0-1 : readings[i] = others[i]
  BY DEF Grown
<1>6. /\ early \in 1..n0+1
      /\ (early <= n0 => others[early].day >= b - Lookback - Anchor)
      /\ \A i \in 1..n0 : i < early => others[i].day < b - Lookback - Anchor
  BY <1>4, OpensOn
<1>7. /\ first \in 1..n+1
      /\ (first <= n => readings[first].day >= since - Anchor)
      /\ \A i \in 1..n : i < first => readings[i].day < since - Anchor
  BY <1>1, OpensOn
<1>8. PICK q \in early+1..n0 : old[q].last = q /\ e = Interval(others[old[q-1].last], others[q], old[q-1].moved)
  BY DEF Intervals
<1> DEFINE p == old[q-1].last
<1> HIDE DEF n, n0, b, since, first, early, B, M
<1>9. early \in 1..n0
  BY <1>1, <1>6, <1>8
<1>10. InARow(others, early, p, q)
  BY <1>8, <1>9, RowBefore DEF early, n0
<1>11. /\ p \in early..q-1 /\ old[p].last = p /\ q = Following(others, p) /\ old[q-1] = old[p]
  BY <1>10 DEF InARow
<1> HIDE DEF old, new, p
<1>12. p \in Nat /\ q \in Nat /\ p >= 1 /\ p < q /\ q <= n0 /\ p \in 1..n0 /\ q \in 1..n0 /\ early <= p
  <2>1. p \in early..q-1 /\ q \in early+1..n0
    BY <1>8, <1>11
  <2> QED BY <1>1, <1>9, <2>1
<1>13. e.start = others[p].day /\ e.end = others[q].day
  BY <1>8 DEF Interval, p
<1>14. others[p].day < d /\ d < since /\ d \in Int /\ since <= others[q].day
  <2>1. d \in e.start+1..e.end /\ e.end >= since /\ d < since
    BY DEF DaysOf, since
  <2> QED BY <1>3, <1>12, <1>13, <2>1
<1>15. others[p].day <= since - 2
  BY <1>1, <1>3, <1>12, <1>14
\* All that decides what follows p had been read.
<1>16. p+1+B < n0
  <2>1. b - others[p].day <= (n0-p) * M
    BY <1>1, <1>2, <1>12, DaysGoUp DEF n0, b, M
  <2>2. Lookback >= (B+2) * M - 1 /\ b >= now - M /\ since = now - Lookback
    BY <1>1, <1>4, Windows DEF B, M, since
  <2> DEFINE x == others[p].day
  <2>3. x \in Int /\ x <= now - Lookback - 2
    BY <1>3, <1>12, <1>15, <2>2
  <2> HIDE DEF x
  <2>4. (B+2) * M = (B+1) * M + M /\ (B+1) * M \in Int /\ (n0-p) * M \in Int
    BY <1>1, <1>12
  <2> DEFINE u == (B+1) * M
             v == (n0-p) * M
             z == (B+2) * M
  <2>5. u < v
    <3>1. Lookback >= z - 1 /\ b - x <= v /\ u \in Int /\ v \in Int /\ z = u + M
      <4>1. Lookback >= z - 1
        BY <2>2
      <4>2. b - x <= v
        BY <2>1 DEF x
      <4> HIDE DEF x
      <4> QED BY <2>4, <4>1, <4>2
    <3> HIDE DEF u, v, z
    <3> QED BY <1>1, <1>4, <2>2, <2>3, <3>1
  <2>6. B+1 < n0-p
    <3> SUFFICES ASSUME n0-p <= B+1 PROVE FALSE
      BY <1>1, <1>12
    <3>1. n0-p \in Nat /\ B+1 \in Nat
      BY <1>1, <1>12
    <3>2. (n0-p) * M <= (B+1) * M
      BY <1>1, <3>1
    <3> QED BY <2>5, <3>2, <2>4
  <2> QED BY <1>1, <1>12, <2>6
<1>17. q <= p+1+B
  BY <1>11, <1>12, FollowingSkips DEF B, n0
<1>18. Agree(readings, others, p)
  BY <1>1, <1>5, <1>12, <1>16 DEF Agree, n, n0, B
<1>19. Following(readings, p) = q
  <2>1. /\ p+1+B <= n /\ p+1+B <= n0 /\ \A i \in p..p+1+B : readings[i] = others[i]
    BY <1>1, <1>5, <1>12, <1>16
  <2>2. Following(readings, p) = Following(others, p)
    BY <1>12, <2>1, FollowingLocal DEF n, n0, B
  <2> QED BY <1>11, <2>2
<1>20. readings[p] = others[p] /\ readings[q] = others[q] /\ \A i \in p..q : readings[i] = others[i]
  BY <1>1, <1>5, <1>12, <1>16, <1>17
\* The window opens no later than on p.
<1>21. first <= p
  <2>1. first <= q
    <3> SUFFICES ASSUME q < first PROVE FALSE
      BY <1>1, <1>7, <1>12
    <3>1. q \in 1..n
      BY <1>1, <1>12
    <3>2. readings[q].day < since - Anchor
      BY <1>7, <3>1
    <3> QED BY <1>1, <1>3, <1>12, <1>14, <1>20, <3>2
  <2>2. first # q
    <3> SUFFICES ASSUME first = q PROVE FALSE
      OBVIOUS
    <3>1. q-1 \in 1..n /\ q-1 < first /\ q-1 \in 1..n0-1 /\ q-1 \in p..q
      BY <1>1, <1>12
    <3>2. readings[q-1].day < since - Anchor
      BY <1>7, <3>1
    <3>3. others[q].day - others[q-1].day <= M
      <4>1. (q-1)+1 = q
        BY <1>12
      <4> QED BY <1>2, <3>1, <4>1 DEF Dated, n0, M
    <3>4. others[q-1].day \in Int /\ others[q].day \in Int /\ readings[q-1] = others[q-1]
      <4>1. q-1 \in 1..n0
        BY <1>1, <3>1
      <4>2. others[q-1].day \in Int /\ others[q].day \in Int
        BY <1>3, <1>12, <4>1
      <4> QED BY <1>20, <3>1, <4>2
    <3> DEFINE x == others[q-1].day
               y == others[q].day
    <3>5. x \in Int /\ y \in Int /\ y - x <= M /\ x < since - Anchor /\ since <= y
      BY <1>14, <3>2, <3>3, <3>4
    <3> HIDE DEF x, y
    <3> QED BY <1>1, <3>5
  <2>3. ~(p < first /\ first < q)
    <3> SUFFICES ASSUME p < first, first < q PROVE FALSE
      OBVIOUS
    <3>1. first \in p+1..q-1 /\ first \in p..q /\ first \in Nat
      BY <1>7, <1>12
    <3>2. first <= p + B /\ others[first].issued < others[p].issued
      BY <1>11, <1>12, <3>1, FollowingSkips DEF B, n0
    <3>3. first-p \in 1..B /\ first - (first-p) = p /\ first - (first-p) >= 1
      BY <1>1, <1>12, <3>1, <3>2
    <3>4. readings[p].issued > readings[first].issued
      BY <1>3, <1>12, <1>20, <3>1, <3>2
    <3>5. OpensLow(readings, first)
      BY <3>3, <3>4 DEF OpensLow, B
    <3> QED BY <3>5 DEF first, since
  <2> QED BY <1>1, <1>7, <1>12, <2>1, <2>2, <2>3
<1>22. first \in 1..n0 /\ first \in 1..n /\ readings[first] = others[first] /\ first <= n0
  BY <1>1, <1>5, <1>7, <1>12, <1>16, <1>21
\* It opens on a reading the last rebuild kept.
<1>23. early <= first
  <2> SUFFICES ASSUME first < early PROVE FALSE
    BY <1>7, <1>9
  <2>1. others[first].day < b - Lookback - Anchor
    BY <1>6, <1>22
  <2>2. others[first].day >= since - Anchor
    BY <1>1, <1>7, <1>22
  <2>3. b <= now
    <3>1. n0 \in 1..n /\ n \in n0..n
      BY <1>1
    <3>2. n - n0 <= readings[n].day - readings[n0].day
      BY <3>1, DaysGoUp DEF n
    <3>3. readings[n0].day = b /\ readings[n].day = now /\ n - n0 >= 0
      BY <1>1, <1>2 DEF b, n
    <3> QED BY <1>1, <1>4, <3>2, <3>3
  <2> QED BY <1>1, <1>3, <1>4, <1>22, <2>1, <2>2, <2>3 DEF since
<1>24. old[first].last = first
  <2> SUFFICES ASSUME old[first].last # first PROVE FALSE
    OBVIOUS
  <2>1. early \in 1..Len(others) /\ first \in early..Len(others) /\ Walk(others, early)[first].last # first
    BY <1>9, <1>22, <1>23 DEF n0, old
  <2>2. OpensLow(others, first)
    BY <2>1, LeftOut
  <2>3. PICK k \in 1..B : first - k >= 1 /\ others[first-k].issued > others[first].issued
    BY <2>2 DEF OpensLow, B
  <2>4. first - k \in 1..n0-1 /\ readings[first-k] = others[first-k]
    BY <1>1, <1>5, <1>22, <2>3
  <2>5. readings[first-k].issued > readings[first].issued
    BY <1>22, <2>3, <2>4
  <2>6. OpensLow(readings, first)
    BY <2>3, <2>5 DEF OpensLow, B
  <2> QED BY <2>6 DEF first, since
<1>25. /\ new[p].last = p
       /\ (new[p].moved => old[p].moved)
  <2>1. /\ early \in 1..Len(others) /\ first \in early..Len(others) /\ p \in first..Len(others)
        /\ Walk(others, early)[first].last = first
    BY <1>7, <1>9, <1>12, <1>21, <1>22, <1>23, <1>24 DEF n0, old
  <2>2. \A i \in first..p : /\ Walk(readings, first)[i].last = Walk(others, early)[i].last
                            /\ Walk(readings, first)[i].moved => Walk(others, early)[i].moved
    BY <1>18, <2>1, SameWalk
  <2>3. p \in first..p
    BY <1>7, <1>12, <1>21
  <2> QED BY <1>11, <2>2, <2>3 DEF new, old
<1>26. InARow(readings, first, p, q)
  <2>1. first \in 1..Len(readings) /\ p \in first..Len(readings) /\ q <= Len(readings)
    BY <1>1, <1>7, <1>12, <1>21, <1>22 DEF n
  <2>2. Walk(readings, first)[p].last = p
    BY <1>25 DEF new
  <2> QED BY <1>19, <2>1, <2>2, RowAfter
<1>27. q \in first+1..n /\ new[q].last = q /\ new[q-1] = new[p]
  BY <1>26 DEF InARow, new, n
<1> DEFINE found == Interval(readings[p], readings[q], new[p].moved)
<1>28. found \in Intervals(readings, first)
  <2>1. q \in {j \in first+1..n : new[j].last = j} /\ found = Interval(readings[new[q-1].last], readings[q], new[q-1].moved)
    BY <1>25, <1>27
  <2> HIDE DEF found
  <2> QED BY <2>1 DEF Intervals, new, n
<1>29. found.kind \in Logged
  <2>1. new[p].moved \in BOOLEAN /\ old[p].moved \in BOOLEAN
    <3>1. Standing(readings, first, p)
      BY <1>1, <1>7, <1>12, <1>21, <1>22, WalkStands DEF n
    <3>2. Standing(others, early, p)
      BY <1>9, <1>11, <1>12, WalkStands DEF n0
    <3> QED BY <3>1, <3>2 DEF Standing, WalkStates, new, old
  <2>2. e = Interval(readings[p], readings[q], old[p].moved)
    BY <1>8, <1>11, <1>20 DEF p
  <2> DEFINE m == new[p].moved
             w == old[p].moved
  <2>3. m \in BOOLEAN /\ w \in BOOLEAN /\ (m => w)
    BY <1>25, <2>1
  <2> HIDE DEF m, w
  <2>4. Interval(readings[p], readings[q], w).kind \in Logged
    BY <2>2 DEF w
  <2>5. Interval(readings[p], readings[q], m).kind \in Logged
    BY <2>3, <2>4, LoggedStill
  <2> QED BY <2>5 DEF m
<1>30. found.start = e.start /\ found.end = e.end
  BY <1>13, <1>20 DEF Interval
<1> HIDE DEF found
<1>31. \E i \in Intervals(readings, first) : i.kind \in Logged /\ i.start = e.start /\ i.end = e.end
  BY <1>28, <1>29, <1>30
<1> QED BY <1>31 DEF first, since

\* An interval is between two of the readings.
LEMMA IntervalDays ==
  ASSUME NEW readings \in Seq(ReadingSet), NEW first \in 1..Len(readings),
         NEW i \in Intervals(readings, first)
  PROVE  i.start \in Int /\ i.end \in Int
<1> DEFINE at == Walk(readings, first)
<1>1. Len(readings) \in Nat /\ first \in Nat /\ first >= 1
  BY ReadingTypes
<1>2. PICK q \in first+1..Len(readings) :
        at[q].last = q /\ i = Interval(readings[at[q-1].last], readings[q], at[q-1].moved)
  BY DEF Intervals
<1> DEFINE p == at[q-1].last
<1>3. InARow(readings, first, p, q)
  BY <1>2, RowBefore
<1>4. p \in first..q-1
  BY <1>3 DEF InARow
<1>5. i.start = readings[p].day /\ i.end = readings[q].day
  BY <1>2 DEF Interval
<1> HIDE DEF p, at
<1>6. p \in 1..Len(readings) /\ q \in 1..Len(readings)
  BY <1>1, <1>2, <1>4
<1> QED BY <1>5, <1>6, ReadingTypes

\* A rebuild on the day of the last reading finds an interval over every day of
\* the range it writes: the window opens before the range does.
LEMMA RangeFound ==
  ASSUME NEW readings \in Seq(ReadingSet), Dated(readings), readings # <<>>,
         NEW now \in Int, readings[Len(readings)].day = now,
         NEW d \in Int, now - Lookback <= d, readings[1].day < d, d <= now
  PROVE  \E i \in Intervals(readings, Opens(readings, now - Lookback)) : d \in DaysOf(i)
<1> DEFINE n == Len(readings)
           since == now - Lookback
           first == Opens(readings, since)
<1>1. /\ n \in Nat /\ n >= 1 /\ MaxOutage \in Nat /\ since \in Int
      /\ Lookback \in Nat /\ Anchor \in Nat /\ Anchor >= MaxOutage
      /\ \A i \in 1..n : readings[i].day \in Int
  BY ReadingTypes, Limits, Windows
<1>2. /\ first \in 1..n+1
      /\ (first <= n => readings[first].day >= since - Anchor)
      /\ \A i \in 1..n : i < first => readings[i].day < since - Anchor
  BY <1>1, OpensOn
<1>3. readings[n].day = now /\ since <= now
  BY <1>1
<1> HIDE DEF n, first
<1>4. first <= n
  <2> SUFFICES ASSUME n < first PROVE FALSE
    BY <1>1, <1>2
  <2>1. n \in 1..n
    BY <1>1
  <2>2. readings[n].day < since - Anchor
    BY <1>2, <2>1
  <2> QED BY <1>1, <1>3, <2>2
<1>5. readings[first].day < d
  <2>1. CASE first = 1
    BY <2>1
  <2>2. CASE first # 1
    <3>1. first-1 \in 1..n /\ first-1 < first /\ first-1 \in 1..n-1 /\ (first-1)+1 = first /\ first \in 1..n
      BY <1>1, <1>2, <1>4, <2>2
    <3>2. readings[first-1].day < since - Anchor
      BY <1>2, <3>1
    <3>3. readings[(first-1)+1].day - readings[first-1].day <= MaxOutage
      BY <3>1 DEF Dated, n
    <3> DEFINE x == readings[first-1].day
               y == readings[first].day
    <3>4. x \in Int /\ y \in Int /\ y - x <= MaxOutage /\ x < since - Anchor
      <4>1. x \in Int /\ y \in Int
        BY <1>1, <3>1
      <4> QED BY <3>1, <3>2, <3>3, <4>1
    <3> HIDE DEF x, y
    <3>5. y < d
      BY <1>1, <3>4
    <3> QED BY <3>5 DEF y
  <2> QED BY <2>1, <2>2
<1>6. first \in 1..Len(readings) /\ d <= readings[Len(readings)].day
  BY <1>1, <1>2, <1>4 DEF n
<1>7. \E i \in Intervals(readings, first) : d \in DaysOf(i)
  BY <1>5, <1>6, Covering
<1> QED BY <1>7 DEF first

-----------------------------------------------------------------------------
(* The invariant. *)

Typed ==
  /\ today \in Nat /\ today >= 1
  /\ sheet \in [Lots -> FigureSet]
  /\ snapshots \in [Lots -> Seq(ReadingSet)]
  /\ built \in Nat
  /\ behind \in BOOLEAN
  /\ \A e \in events : e.of.start \in Int /\ e.of.end \in Int

\* Every lot is read by every sync, and a rebuild follows before an outage is
\* over.
Abreast(l) ==
  /\ Dated(snapshots[l])
  /\ snapshots[l] = <<>> => built = 0
  /\ snapshots[l] # <<>> =>
       /\ Last(snapshots[l]).day <= today
       /\ today - Last(snapshots[l]).day <= MaxOutage
       /\ \A k \in Lots : snapshots[k] # <<>> /\ Last(snapshots[k]).day = Last(snapshots[l]).day
       /\ ~behind => Last(snapshots[l]).day = built
       /\ built = 0 => today <= MaxOutage \/ Head(snapshots[l]).day = today
       /\ built # 0 => today - built <= MaxOutage

\* The last rebuild read the readings there are now, but for those that came in
\* since: the events of its range are intervals it found.
ReadThen(l, others) ==
  /\ Grown(others, snapshots[l])
  /\ others[Len(others)].day = built
  /\ \A e \in events :
       e.lot = l /\ e.of.end >= built - Lookback =>
         /\ e.of \in Intervals(others, Opens(others, built - Lookback))
         /\ e.of.kind \in Logged

ReadAs(l) == built # 0 => \E others \in Seq(ReadingSet) : ReadThen(l, others)

Told(l, d) == d \in coverage \/ \E e \in events : e.lot = l /\ d \in DaysOf(e.of)

Accounted(l) ==
  built # 0 /\ l \notin lows => \A d \in Head(snapshots[l]).day + 1 .. built : Told(l, d)

Inv == Typed /\ \A l \in Lots : Abreast(l) /\ ReadAs(l) /\ Accounted(l)

LEMMA InitInv == Init => Inv
<1> SUFFICES ASSUME Init PROVE Inv
  OBVIOUS
<1>1. Figures \in FigureSet
  BY LedgerAssumption DEF Figures, FigureSet
<1>2. Typed
  <2>1. snapshots \in [Lots -> Seq(ReadingSet)] /\ sheet \in [Lots -> FigureSet]
    BY <1>1 DEF Init
  <2>2. events = {} /\ today = 1 /\ built = 0 /\ behind = FALSE
    BY DEF Init
  <2>3. today \in Nat /\ today >= 1 /\ built \in Nat
    BY <2>2
  <2>5. behind \in BOOLEAN
    BY <2>2
  <2>4. \A e \in events : e.of.start \in Int /\ e.of.end \in Int
    BY <2>2
  <2> QED BY <2>1, <2>3, <2>4, <2>5 DEF Typed
<1>3. ASSUME NEW l \in Lots PROVE Abreast(l) /\ ReadAs(l) /\ Accounted(l)
  <2>1. snapshots[l] = <<>> /\ built = 0
    BY DEF Init
  <2>2. Dated(<<>>)
    BY DEF Dated
  <2> QED BY <2>1, <2>2 DEF Abreast, ReadAs, Accounted
<1> QED BY <1>2, <1>3 DEF Inv

\* Editing the sheet changes nothing the ledger has read.
LEMMA SheetInv ==
  ASSUME Inv, sheet' \in [Lots -> FigureSet],
         UNCHANGED <<today, snapshots, coverage, events, built, behind, lows>>
  PROVE  Inv'
<1>1. Typed'
  BY DEF Inv, Typed
<1>2. ASSUME NEW l \in Lots PROVE (Abreast(l) /\ ReadAs(l) /\ Accounted(l))'
  <2>1. Abreast(l) /\ ReadAs(l) /\ Accounted(l)
    BY DEF Inv
  <2>2. Abreast(l)'
    BY <2>1 DEF Abreast
  <2>3. ReadAs(l)'
    BY <2>1 DEF ReadAs, ReadThen
  <2>4. Accounted(l)'
    BY <2>1 DEF Accounted, Told
  <2> QED BY <2>2, <2>3, <2>4
<1> QED BY <1>1, <1>2 DEF Inv

LEMMA FigureTypes ==
  \A s \in FigureSet : /\ s.opening \in Nat /\ s.received \in Nat /\ s.issued \in Nat
                       /\ s.closing \in Nat /\ s.used \in Nat
BY DEF FigureSet

LEMMA FigureEdits ==
  ASSUME NEW s \in FigureSet, NEW u \in Nat, NEW v \in Nat, NEW w \in Nat
  PROVE  /\ [s EXCEPT !.issued = u, !.closing = v, !.used = w] \in FigureSet
         /\ [s EXCEPT !.received = u, !.closing = v] \in FigureSet
         /\ [s EXCEPT !.opening = u, !.closing = v] \in FigureSet
BY DEF FigureSet

LEMMA EditInv ==
  ASSUME Inv, (\E l \in Lots, q \in Amounts : Issue(l, q) \/ Receive(l, q) \/ Restate(l, q)) \/ NewPeriod
  PROVE  Inv'
<1>1. sheet \in [Lots -> FigureSet] /\ \A l \in Lots : sheet[l] \in FigureSet
  BY DEF Inv, Typed
<1>2. UNCHANGED <<today, snapshots, coverage, events, built, behind, lows>>
  BY DEF Issue, Receive, Restate, NewPeriod
<1>3. sheet' \in [Lots -> FigureSet]
  <2>1. ASSUME NEW l \in Lots, NEW q \in Amounts, Issue(l, q) PROVE sheet' \in [Lots -> FigureSet]
    <3>1. q \in Nat /\ q <= sheet[l].closing
      BY <2>1, AmountsNatural DEF Issue
    <3> DEFINE s == sheet[l]
               u == s.issued + q
               v == s.closing - q
               w == s.used + q
               new == [s EXCEPT !.issued = @ + q, !.closing = @ - q, !.used = @ + q]
    <3>2. new \in FigureSet
      <4>1. s \in FigureSet
        BY <1>1
      <4>2. u \in Nat /\ v \in Nat /\ w \in Nat
        <5>1. /\ s.opening \in Nat /\ s.received \in Nat /\ s.issued \in Nat
              /\ s.closing \in Nat /\ s.used \in Nat
          <6> HIDE DEF s
          <6> QED BY <4>1, FigureTypes
        <5> QED BY <3>1, <5>1
      <4> HIDE DEF s, u, v, w
      <4>3. [s EXCEPT !.issued = u, !.closing = v, !.used = w] \in FigureSet
        BY <4>1, <4>2, FigureEdits
      <4> QED BY <4>3 DEF u, v, w
    <3>3. sheet' = [sheet EXCEPT ![l] = new]
      BY <1>1, <2>1 DEF Issue
    <3> HIDE DEF new
    <3> QED BY <1>1, <3>2, <3>3
  <2>2. ASSUME NEW l \in Lots, NEW q \in Amounts, Receive(l, q) PROVE sheet' \in [Lots -> FigureSet]
    <3>1. q \in Nat
      BY AmountsNatural
    <3> DEFINE s == sheet[l]
               u == s.received + q
               v == s.closing + q
               w == s.closing + q
               new == [s EXCEPT !.received = @ + q, !.closing = @ + q]
    <3>2. new \in FigureSet
      <4>1. s \in FigureSet
        BY <1>1
      <4>2. u \in Nat /\ v \in Nat /\ w \in Nat
        <5>1. /\ s.opening \in Nat /\ s.received \in Nat /\ s.issued \in Nat
              /\ s.closing \in Nat /\ s.used \in Nat
          <6> HIDE DEF s
          <6> QED BY <4>1, FigureTypes
        <5> QED BY <3>1, <5>1
      <4> HIDE DEF s, u, v, w
      <4>3. [s EXCEPT !.received = u, !.closing = v] \in FigureSet
        BY <4>1, <4>2, FigureEdits
      <4> QED BY <4>3 DEF u, v, w
    <3>3. sheet' = [sheet EXCEPT ![l] = new]
      BY <1>1, <2>2 DEF Receive
    <3> HIDE DEF new
    <3> QED BY <1>1, <3>2, <3>3
  <2>3. ASSUME NEW l \in Lots, NEW q \in Amounts, Restate(l, q) PROVE sheet' \in [Lots -> FigureSet]
    <3>1. q \in Nat /\ sheet[l].opening - q >= 0 /\ sheet[l].closing - q >= 0
      BY <2>3, AmountsNatural DEF Restate
    <3> DEFINE s == sheet[l]
               u == s.opening - q
               v == s.closing - q
               w == s.closing - q
               new == [s EXCEPT !.opening = @ - q, !.closing = @ - q]
    <3>2. new \in FigureSet
      <4>1. s \in FigureSet
        BY <1>1
      <4>2. u \in Nat /\ v \in Nat /\ w \in Nat
        <5>1. /\ s.opening \in Nat /\ s.received \in Nat /\ s.issued \in Nat
              /\ s.closing \in Nat /\ s.used \in Nat
          <6> HIDE DEF s
          <6> QED BY <4>1, FigureTypes
        <5> QED BY <3>1, <5>1
      <4> HIDE DEF s, u, v, w
      <4>3. [s EXCEPT !.opening = u, !.closing = v] \in FigureSet
        BY <4>1, <4>2, FigureEdits
      <4> QED BY <4>3 DEF u, v, w
    <3>3. sheet' = [sheet EXCEPT ![l] = new]
      BY <1>1, <2>3 DEF Restate
    <3> HIDE DEF new
    <3> QED BY <1>1, <3>2, <3>3
  <2>4. ASSUME NewPeriod PROVE sheet' \in [Lots -> FigureSet]
    <3>1. \A l \in Lots :
            [sheet[l] EXCEPT !.opening = sheet[l].closing, !.received = 0, !.issued = 0] \in FigureSet
      BY <1>1 DEF FigureSet
    <3> QED BY <2>4, <3>1 DEF NewPeriod
  <2> QED BY <2>1, <2>2, <2>3, <2>4
<1> QED BY <1>2, <1>3, SheetInv

\* A day passes only while the next sync and the next rebuild are not overdue.
LEMMA NextDayInv == ASSUME Inv, NextDay PROVE Inv'
<1>1. /\ today' = today + 1
      /\ UNCHANGED <<sheet, snapshots, coverage, events, built, behind, lows>>
  BY DEF NextDay
<1>2. Typed'
  BY <1>1 DEF Inv, Typed
<1>3. ASSUME NEW l \in Lots PROVE (Abreast(l) /\ ReadAs(l) /\ Accounted(l))'
  <2>1. Abreast(l) /\ ReadAs(l) /\ Accounted(l)
    BY DEF Inv
  <2>2. Abreast(l)'
    <3>1. CASE snapshots[l] = <<>>
      BY <1>1, <2>1, <3>1 DEF Abreast
    <3>2. CASE snapshots[l] # <<>>
      <4> DEFINE x == Last(snapshots[l]).day
      <4>1. snapshots[l] \in Seq(ReadingSet) /\ today \in Nat /\ built \in Nat /\ MaxOutage \in Nat
        BY Limits DEF Inv, Typed
      <4>2. x \in Int
        <5>1. Len(snapshots[l]) \in 1..Len(snapshots[l])
          BY <3>2, <4>1
        <5> QED BY <4>1, <5>1, ReadingTypes DEF Last
      <4>3. snapshots # [k \in Lots |-> <<>>]
        BY <3>2
      <4>4. today - x < MaxOutage /\ today - built < MaxOutage
        BY <3>2, <4>3 DEF NextDay
      <4>5. /\ Dated(snapshots[l])
            /\ x <= today
            /\ \A k \in Lots : snapshots[k] # <<>> /\ Last(snapshots[k]).day = Last(snapshots[l]).day
            /\ (~behind => Last(snapshots[l]).day = built)
        BY <2>1, <3>2 DEF Abreast
      <4>6. x <= today + 1 /\ today + 1 - x <= MaxOutage /\ (built = 0 => today + 1 <= MaxOutage)
            /\ today + 1 - built <= MaxOutage
        <5> HIDE DEF x
        <5> QED BY <4>1, <4>2, <4>4, <4>5
      <4>7. /\ Last(snapshots[l]).day <= today + 1
            /\ (today + 1) - Last(snapshots[l]).day <= MaxOutage
        BY <4>1, <4>2, <4>6
      <4> HIDE DEF x
      <4>8. (Last(snapshots[l]).day)' = Last(snapshots[l]).day /\ Dated(snapshots[l])'
        BY <1>1, <4>5 DEF Dated
      <4>9. (\A k \in Lots : snapshots[k] # <<>> /\ Last(snapshots[k]).day = Last(snapshots[l]).day)'
        BY <1>1, <4>5
      <4>10. (snapshots[l] # <<>>)' /\ today' = today + 1 /\ (behind' <=> behind) /\ built' = built
        BY <1>1, <3>2
      <4>11. /\ (Last(snapshots[l]).day)' <= today'
             /\ today' - (Last(snapshots[l]).day)' <= MaxOutage
             /\ (built' = 0 => today' <= MaxOutage) /\ today' - built' <= MaxOutage
        <5> DEFINE y == (Last(snapshots[l]).day)'
        <5>1. y = x /\ x \in Int /\ today \in Int /\ built \in Int /\ MaxOutage \in Int
          BY <4>1, <4>2, <4>8 DEF x
        <5> HIDE DEF y
        <5>2. y <= today' /\ today' - y <= MaxOutage /\ (built' = 0 => today' <= MaxOutage)
              /\ today' - built' <= MaxOutage
          BY <4>6, <4>10, <5>1
        <5> QED BY <5>2 DEF y
      <4>12. ~behind' => (Last(snapshots[l]).day = built)'
        BY <1>1, <4>5, <4>10
      <4> QED BY <4>8, <4>9, <4>10, <4>11, <4>12 DEF Abreast
    <3> QED BY <3>1, <3>2
  <2>3. ReadAs(l)'
    BY <1>1, <2>1 DEF ReadAs, ReadThen
  <2>4. Accounted(l)'
    BY <1>1, <2>1 DEF Accounted, Told
  <2> QED BY <2>2, <2>3, <2>4
<1> QED BY <1>2, <1>3 DEF Inv

\* The day's reading is added, over one of the same day.
Synchronised(readings, r) ==
  Append(IF readings # <<>> /\ Last(readings).day = r.day THEN Front(readings) ELSE readings, r)

LEMMA SyncGrows ==
  ASSUME NEW readings \in Seq(ReadingSet), NEW r \in ReadingSet, Dated(readings),
         readings # <<>> => Last(readings).day <= r.day /\ r.day - Last(readings).day <= MaxOutage
  PROVE  LET later == Synchronised(readings, r)
         IN  /\ later \in Seq(ReadingSet)
             /\ later # <<>>
             /\ Last(later) = r
             /\ Dated(later)
             /\ IF readings = <<>> THEN Head(later) = r ELSE Head(later).day = Head(readings).day
             /\ \A others \in Seq(ReadingSet) : Grown(others, readings) => Grown(others, later)
<1> DEFINE later == Synchronised(readings, r)
           n == Len(readings)
           front == IF readings # <<>> /\ Last(readings).day = r.day THEN Front(readings) ELSE readings
           m == IF readings # <<>> /\ Last(readings).day = r.day THEN n-1 ELSE n
<1>1. n \in Nat /\ (readings # <<>> <=> n >= 1) /\ \A i \in 1..n : readings[i] \in ReadingSet /\ readings[i].day \in Int
  BY ReadingTypes
<1>2. r.day \in Int
  BY DEF ReadingSet
<1>3. m \in Nat /\ m <= n /\ n <= m+1
  BY <1>1
<1>4. front \in Seq(ReadingSet) /\ Len(front) = m /\ \A i \in 1..m : front[i] = readings[i]
  <2>1. CASE readings # <<>> /\ Last(readings).day = r.day
    <3>1. Front(readings) = SubSeq(readings, 1, n-1)
      BY DEF Front
    <3>2. n-1 \in Nat /\ n >= 1 /\ n-1 <= n
      BY <1>1, <2>1
    <3>3. SubSeq(readings, 1, n-1) \in Seq(ReadingSet)
      BY <1>1, <3>2
    <3>4. Len(SubSeq(readings, 1, n-1)) = n-1
      <4>1. \A i \in 1..n-1 : readings[i] \in ReadingSet
        BY <1>1
      <4>2. n-1 \in Int /\ 1 \in Int
        BY <1>1
      <4> HIDE DEF n
      <4> DEFINE k == n-1
      <4>3. k \in Int /\ \A i \in 1..k : readings[i] \in ReadingSet
        BY <4>1, <4>2
      <4> HIDE DEF k
      <4>4. Len(SubSeq(readings, 1, k)) = IF 1 <= k THEN k-1+1 ELSE 0
        BY <4>2, <4>3, SubSeqProperties
      <4>5. k \in Nat
        BY <3>2 DEF k
      <4>6. Len(SubSeq(readings, 1, k)) = k
        BY <4>4, <4>5
      <4> QED BY <4>6 DEF k
    <3>5. \A i \in 1..n-1 : SubSeq(readings, 1, n-1)[i] = readings[i]
      BY <1>1, <3>2
    <3> QED BY <2>1, <3>1, <3>3, <3>4, <3>5
  <2>2. CASE ~(readings # <<>> /\ Last(readings).day = r.day)
    BY <1>1, <2>2
  <2> QED BY <2>1, <2>2
<1>5. later = Append(front, r)
  BY DEF Synchronised
<1>6. n >= 1 => /\ Last(readings) = readings[n] /\ readings[n].day <= r.day
                /\ r.day - readings[n].day <= MaxOutage
                /\ (m = n-1 <=> readings[n].day = r.day)
                /\ (m = n-1 \/ m = n)
  BY <1>1 DEF Last
<1>7. n = 0 => m = 0
  BY <1>1
<1> HIDE DEF later, front, m, n
<1>8. later \in Seq(ReadingSet) /\ Len(later) = m+1 /\ later[m+1] = r /\ \A i \in 1..m : later[i] = readings[i]
  <2>1. /\ Append(front, r) \in Seq(ReadingSet)
        /\ Len(Append(front, r)) = m+1
        /\ Append(front, r)[m+1] = r
        /\ \A i \in 1..m : Append(front, r)[i] = front[i]
    BY <1>3, <1>4
  <2> QED BY <1>4, <1>5, <2>1
<1>9. later # <<>> /\ Last(later) = r
  BY <1>3, <1>8 DEF Last
<1>10. Dated(later)
  <2> SUFFICES ASSUME NEW i \in 1..m
               PROVE  later[i].day < later[i+1].day /\ later[i+1].day - later[i].day <= MaxOutage
    BY <1>3, <1>8 DEF Dated
  <2>1. i \in 1..n /\ later[i] = readings[i] /\ n >= 1
    BY <1>1, <1>3, <1>8
  <2>2. \A j \in 1..n-1 : readings[j].day < readings[j+1].day /\ readings[j+1].day - readings[j].day <= MaxOutage
    BY DEF Dated, n
  <2>3. CASE i < m
    <3>1. i+1 \in 1..m /\ i \in 1..n-1
      BY <1>1, <1>3, <2>3
    <3>2. later[i+1] = readings[i+1]
      BY <1>8, <3>1
    <3> QED BY <2>1, <2>2, <3>1, <3>2
  <2>4. CASE i = m
    <3>1. later[i+1] = r
      BY <1>8, <2>4
    <3>2. CASE m = n
      <4>1. readings[n].day < r.day /\ r.day - readings[n].day <= MaxOutage
        <5>1. n \in 1..n /\ m # n-1
          BY <1>1, <2>1, <3>2
        <5> QED BY <1>1, <1>2, <1>6, <2>1, <5>1
      <4> QED BY <2>1, <2>4, <3>1, <3>2, <4>1
    <3>3. CASE m = n-1
      <4>1. i \in 1..n-1 /\ i+1 = n
        BY <1>1, <2>4, <3>3
      <4>2. readings[n].day = r.day
        BY <1>6, <2>1, <3>3
      <4>3. readings[i].day < readings[n].day /\ readings[n].day - readings[i].day <= MaxOutage
        BY <2>2, <4>1
      <4> QED BY <2>1, <3>1, <4>2, <4>3
    <3> QED BY <1>6, <2>1, <3>2, <3>3
  <2> QED BY <1>3, <2>3, <2>4
<1>11. IF readings = <<>> THEN Head(later) = r ELSE Head(later).day = Head(readings).day
  <2>1. Head(later) = later[1]
    BY <1>8, <1>9
  <2>2. CASE readings = <<>>
    <3>1. n = 0 /\ m = 0
      BY <1>1, <1>7, <2>2
    <3> QED BY <1>8, <2>1, <2>2, <3>1
  <2>3. CASE readings # <<>>
    <3>1. Head(readings) = readings[1] /\ n >= 1
      BY <1>1, <2>3
    <3>2. CASE m >= 1
      <4>1. later[1] = readings[1]
        BY <1>3, <1>8, <3>2
      <4> QED BY <2>1, <2>3, <3>1, <4>1
    <3>3. CASE m = 0
      <4>1. n = 1 /\ m = n-1
        BY <1>1, <1>3, <3>1, <3>3
      <4>2. later[1] = r
        BY <1>8, <3>3
      <4>3. readings[1].day = r.day
        BY <1>6, <4>1
      <4> QED BY <2>1, <2>3, <3>1, <4>2, <4>3
    <3> QED BY <1>3, <3>2, <3>3
  <2> QED BY <2>2, <2>3
<1>12. ASSUME NEW others \in Seq(ReadingSet), Grown(others, readings)
       PROVE  Grown(others, later)
  <2> DEFINE k == Len(others)
  <2>1. k \in 1..n /\ (\A i \in 1..k-1 : readings[i] = others[i]) /\ readings[k].day = others[k].day
    BY <1>12 DEF Grown, n
  <2> HIDE DEF k
  <2>2. k \in 1..m+1 /\ n >= 1
    BY <1>1, <1>3, <2>1
  <2>3. \A i \in 1..k-1 : later[i] = others[i]
    <3>1. \A i \in 1..k-1 : i \in 1..m
      BY <1>3, <2>2
    <3> QED BY <1>8, <2>1, <3>1
  <2>4. later[k].day = others[k].day
    <3>1. CASE k <= m
      <4>1. later[k] = readings[k]
        BY <1>3, <1>8, <2>2, <3>1
      <4> QED BY <2>1, <4>1
    <3>2. CASE k = m+1
      <4>1. k = n /\ m = n-1
        BY <1>1, <1>3, <2>1, <3>2
      <4>2. later[k] = r
        BY <1>8, <3>2
      <4> QED BY <1>6, <2>1, <2>2, <4>1, <4>2
    <3> QED BY <1>3, <2>2, <3>1, <3>2
  <2> QED BY <1>8, <2>2, <2>3, <2>4 DEF Grown, k
<1> QED BY <1>8, <1>9, <1>10, <1>11, <1>12 DEF later

LEMMA ReadingsTyped ==
  ASSUME Typed, NEW l \in Lots, NEW broken
  PROVE  Reading(l, broken) \in ReadingSet /\ Reading(l, broken).day = today
<1> DEFINE s == sheet[l]
<1>1. s \in FigureSet /\ today \in Nat
  BY DEF Typed
<1>2. /\ s.opening \in Nat /\ s.received \in Nat /\ s.issued \in Nat
      /\ s.closing \in Nat /\ s.used \in Nat
  <2> HIDE DEF s
  <2> QED BY <1>1, FigureTypes
<1> DEFINE i == IF l \in broken THEN 0 ELSE s.issued
           ok == l \notin broken
<1>3. i \in Nat /\ ok \in BOOLEAN
  BY <1>2
<1>4. Reading(l, broken) = [day |-> today, opening |-> s.opening, received |-> s.received,
                            issued |-> i, closing |-> s.closing, used |-> s.used, sound |-> ok]
  BY DEF Reading
<1> HIDE DEF s, i, ok
<1> QED BY <1>1, <1>2, <1>3, <1>4 DEF ReadingSet

LEMMA SyncInv ==
  ASSUME Inv, NEW broken \in SUBSET Lots, Sync(broken)
  PROVE  Inv'
<1> DEFINE r(l) == Reading(l, broken)
<1>1. /\ UNCHANGED <<today, sheet, coverage, events, built, lows>>
      /\ snapshots' = [l \in Lots |-> Append(Earlier(l), r(l))]
      /\ behind' = (behind \/ snapshots' # snapshots)
  BY DEF Sync
<1>2. /\ snapshots \in [Lots -> Seq(ReadingSet)] /\ today \in Nat /\ built \in Nat /\ MaxOutage \in Nat
      /\ behind \in BOOLEAN /\ sheet \in [Lots -> FigureSet]
      /\ Typed
  BY Limits DEF Inv, Typed
<1>3. ASSUME NEW l \in Lots
      PROVE  r(l) \in ReadingSet /\ r(l).day = today
  BY <1>2, ReadingsTyped
<1> HIDE DEF r
<1>4. ASSUME NEW l \in Lots
      PROVE  snapshots'[l] = Synchronised(snapshots[l], r(l))
  BY <1>1, <1>3 DEF Synchronised, Earlier, ReadToday
<1>5. ASSUME NEW l \in Lots
      PROVE  /\ snapshots'[l] \in Seq(ReadingSet)
             /\ snapshots'[l] # <<>>
             /\ Last(snapshots'[l]).day = today
             /\ Dated(snapshots'[l])
             /\ (snapshots[l] = <<>> => Head(snapshots'[l]).day = today)
             /\ (snapshots[l] # <<>> => Head(snapshots'[l]).day = Head(snapshots[l]).day)
             /\ \A others \in Seq(ReadingSet) :
                  Grown(others, snapshots[l]) => Grown(others, snapshots'[l])
  <2> DEFINE R == snapshots[l]
             x == r(l)
  <2>1. R \in Seq(ReadingSet) /\ x \in ReadingSet /\ x.day = today
    BY <1>2, <1>3
  <2>2. /\ Dated(R)
        /\ (R # <<>> => Last(R).day <= today /\ today - Last(R).day <= MaxOutage)
    BY DEF Inv, Abreast
  <2>3. snapshots'[l] = Synchronised(R, x)
    BY <1>4
  <2> HIDE DEF R, x
  <2>4. R # <<>> => Last(R).day <= x.day /\ x.day - Last(R).day <= MaxOutage
    BY <2>1, <2>2
  <2> DEFINE later == Synchronised(R, x)
  <2>5. /\ later \in Seq(ReadingSet)
        /\ later # <<>>
        /\ Last(later) = x
        /\ Dated(later)
        /\ (IF R = <<>> THEN Head(later) = x ELSE Head(later).day = Head(R).day)
        /\ \A others \in Seq(ReadingSet) : Grown(others, R) => Grown(others, later)
    BY <2>1, <2>2, <2>4, SyncGrows
  <2> HIDE DEF later
  <2>6. snapshots'[l] = later
    BY <2>3 DEF later
  <2> QED BY <2>1, <2>5, <2>6 DEF R
<1>6. Typed'
  <2>1. snapshots' \in [Lots -> Seq(ReadingSet)]
    <3>1. \A l \in Lots : snapshots'[l] \in Seq(ReadingSet)
      BY <1>5
    <3> QED BY <1>1, <3>1
  <2>2. behind' \in BOOLEAN
    BY <1>1
  <2> QED BY <1>1, <1>2, <2>1, <2>2 DEF Typed
<1>7. ASSUME NEW l \in Lots PROVE (Abreast(l) /\ ReadAs(l) /\ Accounted(l))'
  <2>1. Abreast(l) /\ ReadAs(l) /\ Accounted(l)
    BY DEF Inv
  <2>2. ~behind' => Last(snapshots'[l]).day = built
    <3> SUFFICES ASSUME ~behind' PROVE Last(snapshots'[l]).day = built
      OBVIOUS
    <3>1. ~behind /\ snapshots' = snapshots
      BY <1>1
    <3>2. snapshots[l] # <<>>
      BY <1>5, <3>1
    <3>3. Last(snapshots[l]).day = built
      BY <2>1, <3>1, <3>2 DEF Abreast
    <3> QED BY <3>1, <3>3
  <2>3. built = 0 => today <= MaxOutage \/ Head(snapshots'[l]).day = today
    <3>1. CASE snapshots[l] = <<>>
      BY <1>5, <3>1
    <3>2. CASE snapshots[l] # <<>>
      BY <1>5, <2>1, <3>2 DEF Abreast
    <3> QED BY <3>1, <3>2
  <2>4. built # 0 => today - built <= MaxOutage /\ snapshots[l] # <<>>
    BY <2>1 DEF Abreast
  <2>5. Abreast(l)'
    <3>1. \A k \in Lots : snapshots'[k] # <<>> /\ Last(snapshots'[k]).day = today
      BY <1>5
    <3>2. Last(snapshots'[l]).day <= today /\ today - Last(snapshots'[l]).day <= MaxOutage
      BY <1>2, <3>1
    <3>3. today' = today /\ built' = built
      BY <1>1
    <3>4. Dated(snapshots'[l])
      BY <1>5
    <3> QED BY <2>2, <2>3, <2>4, <3>1, <3>2, <3>3, <3>4 DEF Abreast
  <2>6. ReadAs(l)'
    <3> SUFFICES ASSUME built' # 0
                 PROVE  (\E others \in Seq(ReadingSet) : ReadThen(l, others))'
      BY DEF ReadAs
    <3>1. PICK others \in Seq(ReadingSet) : ReadThen(l, others)
      BY <1>1, <2>1 DEF ReadAs
    <3>2. Grown(others, snapshots'[l])
      BY <1>5, <3>1 DEF ReadThen
    <3>3. ReadThen(l, others)'
      BY <1>1, <3>1, <3>2 DEF ReadThen
    <3> QED BY <3>3
  <2>7. Accounted(l)'
    <3>1. CASE built = 0
      BY <1>1, <3>1 DEF Accounted
    <3>2. CASE built # 0
      <4>1. Head(snapshots'[l]).day = Head(snapshots[l]).day
        BY <1>5, <2>4, <3>2
      <4> QED BY <1>1, <2>1, <4>1 DEF Accounted, Told
    <3> QED BY <3>1, <3>2
  <2> QED BY <2>5, <2>6, <2>7
<1> QED BY <1>6, <1>7 DEF Inv

\* What a rebuild writes.
LEMMA RebuildWrites ==
  ASSUME RebuildFrom(today - Lookback)
  PROVE  LET since == today - Lookback
             found(l) == Intervals(snapshots[l], Opens(snapshots[l], since))
         IN  /\ \A d \in coverage : d < since => d \in coverage'
             /\ \A l \in Lots : \A i \in found(l) : \A d \in DaysOf(i) :
                  i.kind \notin Excluded /\ d >= since => d \in coverage'
             /\ \A l \in Lots : \A i \in found(l) :
                  i.kind \in Logged /\ i.end >= since => [lot |-> l, of |-> i] \in events'
             /\ \A e \in events : e.of.end < since => e \in events'
             /\ \A e \in events' :
                  \/ e \in events /\ e.of.end < since
                  \/ e.lot \in Lots /\ e.of \in found(e.lot) /\ e.of.kind \in Logged
             /\ built' = today /\ behind' = FALSE /\ UNCHANGED <<today, sheet, snapshots>>
             /\ lows \subseteq lows'
             /\ \A l \in Lots : l \notin lows' => ~OpensLow(snapshots[l], Opens(snapshots[l], since))
<1> DEFINE since == today - Lookback
           first == [l \in Lots |-> Opens(snapshots[l], since)]
           intervals == [l \in Lots |-> Intervals(snapshots[l], first[l])]
           counted == [l \in Lots |-> Counted(intervals[l])]
           found(l) == Intervals(snapshots[l], Opens(snapshots[l], since))
<1>1. /\ coverage' = Rewritten(coverage, CoveredDays(counted), since)
      /\ events' = {e \in events : e.of.end < since} \cup {e \in LoggedBy(intervals) : e.of.end >= since}
      /\ built' = today /\ behind' = FALSE /\ UNCHANGED <<today, sheet, snapshots>>
      /\ lows' = lows \cup {l \in Lots : OpensLow(snapshots[l], first[l])}
  BY DEF RebuildFrom
<1>2. \A l \in Lots : first[l] = Opens(snapshots[l], since) /\ intervals[l] = found(l) /\ counted[l] = Counted(found(l))
  OBVIOUS
<1> HIDE DEF since, first, intervals, counted, found
<1>3. \A d \in coverage : d < since => d \in coverage'
  BY <1>1 DEF Rewritten
<1>4. ASSUME NEW l \in Lots, NEW i \in found(l), NEW d \in DaysOf(i), i.kind \notin Excluded, d >= since
      PROVE  d \in coverage'
  <2>1. i \in counted[l]
    BY <1>2, <1>4 DEF Counted
  <2>2. d \in CoveredDays(counted)
    BY <2>1 DEF CoveredDays
  <2> QED BY <1>1, <1>4, <2>2 DEF Rewritten
<1>5. ASSUME NEW l \in Lots, NEW i \in found(l), i.kind \in Logged, i.end >= since
      PROVE  [lot |-> l, of |-> i] \in events'
  <2> DEFINE e == [lot |-> l, of |-> i]
  <2>1. e.of = i
    OBVIOUS
  <2>2. i \in {j \in intervals[l] : j.kind \in Logged}
    BY <1>2, <1>5
  <2>3. e \in {[lot |-> l, of |-> j] : j \in {k \in intervals[l] : k.kind \in Logged}}
    BY <2>2
  <2> HIDE DEF e
  <2>4. e \in LoggedBy(intervals)
    BY <2>3 DEF LoggedBy
  <2>5. e \in events'
    BY <1>1, <1>5, <2>1, <2>4
  <2> QED BY <2>5 DEF e
<1>6. \A e \in events : e.of.end < since => e \in events'
  BY <1>1
<1>7. ASSUME NEW e \in events'
      PROVE  \/ e \in events /\ e.of.end < since
             \/ e.lot \in Lots /\ e.of \in found(e.lot) /\ e.of.kind \in Logged
  <2>1. CASE e \in events /\ e.of.end < since
    BY <2>1
  <2>2. CASE e \in LoggedBy(intervals)
    <3>1. PICK l \in Lots : e \in {[lot |-> l, of |-> i] : i \in {j \in intervals[l] : j.kind \in Logged}}
      BY <2>2 DEF LoggedBy
    <3>2. PICK i \in {j \in intervals[l] : j.kind \in Logged} : e = [lot |-> l, of |-> i]
      BY <3>1
    <3>3. e.lot = l /\ e.of = i
      BY <3>2
    <3>4. i \in intervals[l] /\ i.kind \in Logged
      OBVIOUS
    <3> QED BY <1>2, <3>3, <3>4
  <2> QED BY <1>1, <2>1, <2>2
<1>8. lows \subseteq lows' /\ \A l \in Lots : l \notin lows' => ~OpensLow(snapshots[l], Opens(snapshots[l], since))
  BY <1>1, <1>2
<1> QED BY <1>1, <1>3, <1>4, <1>5, <1>6, <1>7, <1>8 DEF since, found

\* On the day of a rebuild every lot's last reading is the day's.
LEMMA RebuildReads ==
  ASSUME Inv, Synced, NEW l \in Lots
  PROVE  LET R == snapshots[l]
         IN  /\ R \in Seq(ReadingSet) /\ R # <<>> /\ Dated(R)
             /\ Len(R) \in Nat /\ Len(R) >= 1
             /\ R[Len(R)].day = today /\ Head(R) = R[1]
             /\ \A i \in 1..Len(R) : R[i].day \in Int
             /\ Opens(R, today - Lookback) \in 1..Len(R)
<1> DEFINE R == snapshots[l]
<1>1. PICK k \in Lots : snapshots[k] # <<>> /\ Last(snapshots[k]).day = today
  BY DEF Synced, ReadToday
<1>2. R # <<>> /\ Last(R).day = today
  BY <1>1 DEF Inv, Abreast
<1>3. R \in Seq(ReadingSet) /\ Dated(R) /\ today \in Nat
  BY DEF Inv, Typed, Abreast
<1> HIDE DEF R
<1>4. Len(R) \in Nat /\ Len(R) >= 1 /\ \A i \in 1..Len(R) : R[i].day \in Int
  BY <1>2, <1>3, ReadingTypes
<1>5. R[Len(R)].day = today /\ Head(R) = R[1]
  BY <1>2, <1>3 DEF Last
<1>6. Opens(R, today - Lookback) \in 1..Len(R)
  <2> DEFINE f == Opens(R, today - Lookback)
  <2>1. today - Lookback \in Int /\ Lookback \in Nat /\ Anchor \in Nat
    BY <1>3, Windows
  <2>2. f \in 1..Len(R)+1 /\ \A i \in 1..Len(R) : i < f => R[i].day < (today - Lookback) - Anchor
    BY <1>3, <2>1, OpensOn
  <2> HIDE DEF f
  <2>3. f <= Len(R)
    <3> SUFFICES ASSUME Len(R) < f PROVE FALSE
      BY <1>4, <2>2
    <3>1. Len(R) \in 1..Len(R)
      BY <1>4
    <3>2. R[Len(R)].day < (today - Lookback) - Anchor
      BY <2>2, <3>1
    <3> QED BY <1>3, <1>5, <2>1, <3>2
  <2>4. f \in 1..Len(R)
    BY <1>4, <2>2, <2>3
  <2> QED BY <2>4 DEF f
<1> QED BY <1>2, <1>3, <1>4, <1>5, <1>6 DEF R

LEMMA RebuildInv == ASSUME Inv, Rebuild PROVE Inv'
<1> DEFINE since == today - Lookback
           found(l) == Intervals(snapshots[l], Opens(snapshots[l], since))
<1>1. Synced /\ RebuildFrom(today - Lookback)
  BY DEF Rebuild
<1>2. /\ \A d \in coverage : d < since => d \in coverage'
      /\ \A l \in Lots : \A i \in found(l) : \A d \in DaysOf(i) :
           i.kind \notin Excluded /\ d >= since => d \in coverage'
      /\ \A l \in Lots : \A i \in found(l) :
           i.kind \in Logged /\ i.end >= since => [lot |-> l, of |-> i] \in events'
      /\ \A e \in events : e.of.end < since => e \in events'
      /\ \A e \in events' :
           \/ e \in events /\ e.of.end < since
           \/ e.lot \in Lots /\ e.of \in found(e.lot) /\ e.of.kind \in Logged
      /\ built' = today /\ behind' = FALSE /\ UNCHANGED <<today, sheet, snapshots>>
      /\ lows \subseteq lows'
      /\ \A l \in Lots : l \notin lows' => ~OpensLow(snapshots[l], Opens(snapshots[l], since))
  BY <1>1, RebuildWrites
<1>3. /\ today \in Nat /\ today >= 1 /\ built \in Nat /\ MaxOutage \in Nat
      /\ Lookback \in Nat /\ Lookback >= MaxOutage /\ Lookback >= 1
      /\ \A e \in events : e.of.start \in Int /\ e.of.end \in Int
  BY Limits, Windows DEF Inv, Typed
<1>4. since = today - Lookback /\ since \in Int
  BY <1>3
<1>5. ASSUME NEW l \in Lots, NEW i \in found(l)
      PROVE  i.start \in Int /\ i.end \in Int
  BY <1>1, <1>5, RebuildReads, IntervalDays
<1> HIDE DEF since
<1>6. Typed'
  <2>1. \A e \in events' : e.of.start \in Int /\ e.of.end \in Int
    <3> SUFFICES ASSUME NEW e \in events' PROVE e.of.start \in Int /\ e.of.end \in Int
      OBVIOUS
    <3>1. CASE e \in events
      BY <1>3, <3>1
    <3>2. CASE e.lot \in Lots /\ e.of \in found(e.lot)
      <4> HIDE DEF found
      <4> QED BY <1>5, <3>2
    <3> HIDE DEF found
    <3> QED BY <1>2, <3>1, <3>2
  <2>2. sheet \in [Lots -> FigureSet] /\ snapshots \in [Lots -> Seq(ReadingSet)]
    BY DEF Inv, Typed
  <2> QED BY <1>2, <1>3, <2>1, <2>2 DEF Typed
<1>7. ASSUME NEW l \in Lots
      PROVE  (Abreast(l) /\ ReadAs(l) /\ Accounted(l))'
  <2> DEFINE R == snapshots[l]
  <2>1. /\ R \in Seq(ReadingSet) /\ R # <<>> /\ Dated(R)
        /\ Len(R) \in Nat /\ Len(R) >= 1
        /\ R[Len(R)].day = today /\ Head(R) = R[1]
        /\ \A i \in 1..Len(R) : R[i].day \in Int
        /\ Opens(R, since) \in 1..Len(R)
    BY <1>1, RebuildReads DEF since
  <2>2. Abreast(l) /\ ReadAs(l) /\ Accounted(l)
    BY DEF Inv
  <2>3. \A k \in Lots : snapshots[k] # <<>> /\ Last(snapshots[k]).day = today
    <3> SUFFICES ASSUME NEW k \in Lots PROVE snapshots[k] # <<>> /\ Last(snapshots[k]).day = today
      OBVIOUS
    <3> QED BY <1>1, RebuildReads DEF Last
  <2>4. Abreast(l)'
    <3>1. today <= today /\ today - today <= MaxOutage /\ today # 0
      BY <1>3
    <3> QED BY <1>2, <2>1, <2>3, <3>1 DEF Abreast
  <2>5. ReadAs(l)'
    <3>1. Grown(R, R)
      BY <2>1 DEF Grown
    <3>2. ASSUME NEW e \in events', e.lot = l, e.of.end >= since
          PROVE  e.of \in found(l) /\ e.of.kind \in Logged
      <4>1. e.of.end \in Int
        BY <1>6 DEF Typed
      <4>2. ~(e.of.end < since)
        BY <1>4, <3>2, <4>1
      <4> HIDE DEF found
      <4> QED BY <1>2, <3>2, <4>2
    <3>3. ReadThen(l, R)'
      <4>1. (built - Lookback)' = since /\ snapshots'[l] = R /\ built' = today
        BY <1>2, <1>4
      <4>2. \A e \in events' :
              e.lot = l /\ e.of.end >= since => e.of \in Intervals(R, Opens(R, since)) /\ e.of.kind \in Logged
        BY <3>2
      <4>3. Grown(R, snapshots'[l]) /\ R[Len(R)].day = built'
        BY <2>1, <3>1, <4>1
      <4>4. \A e \in events' :
              e.lot = l /\ e.of.end >= built' - Lookback =>
                e.of \in Intervals(R, Opens(R, built' - Lookback)) /\ e.of.kind \in Logged
        BY <4>1, <4>2
      <4> PICK S \in {R} : TRUE
        OBVIOUS
      <4>5. S = R
        OBVIOUS
      <4> HIDE DEF R, found
      <4>6. ReadThen(l, S)'
        BY <4>3, <4>4, <4>5 DEF ReadThen
      <4> QED BY <4>6, <4>5, <1>2 DEF R
    <3> QED BY <1>2, <2>1, <3>3 DEF ReadAs
  <2>6. Accounted(l)'
    <3> SUFFICES ASSUME l \notin lows', NEW d \in R[1].day + 1 .. today
                 PROVE  Told(l, d)'
      BY <1>2, <2>1 DEF Accounted
    <3>1. d \in Int /\ R[1].day \in Int /\ R[1].day < d /\ d <= today
      BY <1>3, <2>1
    <3>2. CASE d >= since
      <4>1. PICK i \in found(l) : d \in DaysOf(i)
        <5>1. today \in Int /\ today - Lookback <= d
          BY <1>3, <1>4, <3>1, <3>2
        <5>2. \E i \in Intervals(R, Opens(R, today - Lookback)) : d \in DaysOf(i)
          <6> HIDE DEF R
          <6> QED BY <2>1, <3>1, <5>1, RangeFound
        <5> QED BY <1>4, <5>2
      <4>2. i.start \in Int /\ i.end \in Int
        BY <1>5
      <4>3. d <= i.end /\ i.end >= since
        BY <1>4, <3>1, <3>2, <4>1, <4>2 DEF DaysOf
      <4> HIDE DEF found
      <4>4. CASE i.kind \notin Excluded
        BY <1>2, <3>2, <4>1, <4>4 DEF Told
      <4>5. CASE i.kind \in Excluded
        <5> DEFINE e == [lot |-> l, of |-> i]
        <5>1. i.kind \in Logged
          BY <4>5 DEF Logged
        <5>2. e \in events' /\ e.lot = l /\ e.of = i
          BY <1>2, <4>3, <5>1
        <5> HIDE DEF e
        <5> QED BY <4>1, <5>2 DEF Told
      <4> QED BY <4>4, <4>5
    <3>3. CASE d < since
      <4>1. built # 0
        <5> SUFFICES ASSUME built = 0 PROVE FALSE
          OBVIOUS
        <5>1. today <= MaxOutage \/ R[1].day = today
          BY <2>1, <2>2 DEF Abreast
        <5>2. R[1].day >= 0
          <6>1. R[1] \in ReadingSet
            BY <2>1
          <6> QED BY <6>1 DEF ReadingSet
        <5> HIDE DEF R
        <5> QED BY <1>3, <1>4, <3>1, <3>3, <5>1, <5>2
      <4>2. today - built <= MaxOutage
        BY <2>1, <2>2, <4>1 DEF Abreast
      <4>3. d <= built
        BY <1>3, <1>4, <3>1, <3>3, <4>2
      <4>4. Told(l, d)
        <5>1. l \notin lows
          BY <1>2
        <5>2. d \in Head(R).day + 1 .. built
          BY <1>3, <2>1, <3>1, <4>3
        <5> QED BY <2>2, <4>1, <5>1, <5>2 DEF Accounted
      <4>5. CASE d \in coverage
        BY <1>2, <3>3, <4>5 DEF Told
      <4>6. ASSUME NEW e \in events, e.lot = l, d \in DaysOf(e.of)
            PROVE  Told(l, d)'
        <5>1. e.of.end \in Int
          BY <1>3
        <5>2. CASE e.of.end < since
          BY <1>2, <4>6, <5>2 DEF Told
        <5>3. CASE e.of.end >= since
          <6>1. PICK others \in Seq(ReadingSet) : ReadThen(l, others)
            BY <2>2, <4>1 DEF ReadAs
          <6>2. Grown(others, R) /\ others[Len(others)].day = built
            BY <6>1 DEF ReadThen
          <6>3. built <= today
            <7>1. Len(others) \in 1..Len(R) /\ R[Len(others)].day = built
              BY <6>2 DEF Grown
            <7>2. Len(R) \in Len(others)..Len(R) /\ Len(R) - Len(others) >= 0
              BY <2>1, <7>1
            <7>3. Len(R) - Len(others) <= R[Len(R)].day - R[Len(others)].day
              BY <2>1, <7>1, <7>2, DaysGoUp
            <7> HIDE DEF R
            <7> QED BY <1>3, <2>1, <7>1, <7>2, <7>3
          <6>4. e.of.end >= built - Lookback
            BY <1>3, <1>4, <5>1, <5>3, <6>3
          <6>5. e.of \in Intervals(others, Opens(others, others[Len(others)].day - Lookback))
                /\ e.of.kind \in Logged
            BY <4>6, <6>1, <6>2, <6>4 DEF ReadThen
          <6>6. ~OpensLow(R, Opens(R, today - Lookback))
            BY <1>2, <1>4
          <6>7. today \in Int /\ today - others[Len(others)].day <= MaxOutage
            BY <1>3, <4>2, <6>2
          <6>8. e.of.end >= today - Lookback /\ d < today - Lookback
            BY <1>4, <3>3, <5>3
          <6>9. PICK i \in Intervals(R, Opens(R, today - Lookback)) :
                  i.kind \in Logged /\ i.start = e.of.start /\ i.end = e.of.end
            <7> DEFINE x == e.of
            <7>1. x \in Intervals(others, Opens(others, others[Len(others)].day - Lookback))
                  /\ x.kind \in Logged /\ x.end >= today - Lookback /\ d \in DaysOf(x)
              BY <4>6, <6>5, <6>8
            <7> HIDE DEF x, R
            <7>2. \E i \in Intervals(R, Opens(R, today - Lookback)) :
                    i.kind \in Logged /\ i.start = x.start /\ i.end = x.end
              <8>1. /\ R \in Seq(ReadingSet) /\ Grown(others, R) /\ Dated(R)
                    /\ today \in Int /\ R[Len(R)].day = today
                    /\ today - others[Len(others)].day <= MaxOutage
                    /\ ~OpensLow(R, Opens(R, today - Lookback))
                BY <2>1, <6>2, <6>6, <6>7
              <8>2. d < today - Lookback
                BY <6>8
              <8> QED BY <7>1, <8>1, <8>2, Regained
            <7> QED BY <7>2 DEF x
          <6>10. i \in found(l) /\ i.end >= since
            BY <1>4, <5>3, <6>9
          <6> DEFINE f == [lot |-> l, of |-> i]
          <6>11. f \in events' /\ f.lot = l /\ f.of = i
            <7> HIDE DEF found
            <7> QED BY <1>2, <6>9, <6>10
          <6>12. d \in DaysOf(i)
            BY <4>6, <6>9 DEF DaysOf
          <6> HIDE DEF f
          <6> QED BY <6>11, <6>12 DEF Told
        <5> QED BY <1>4, <5>1, <5>2, <5>3
      <4> QED BY <4>4, <4>5, <4>6 DEF Told
    <3> QED BY <1>4, <3>1, <3>2, <3>3
  <2> QED BY <2>4, <2>5, <2>6
<1> QED BY <1>6, <1>7 DEF Inv

-----------------------------------------------------------------------------
\* Between the steps of the sheet, the syncs and the rebuilds, in every state.
THEOREM ConsumptionInv == Spec => []Inv
<1>1. Init => Inv
  BY InitInv
<1>2. Inv /\ [Next]_vars => Inv'
  <2> SUFFICES ASSUME Inv, [Next]_vars PROVE Inv'
    OBVIOUS
  <2>1. CASE (\E l \in Lots, q \in Amounts : Issue(l, q) \/ Receive(l, q) \/ Restate(l, q)) \/ NewPeriod
    BY <2>1, EditInv
  <2>2. CASE \E broken \in SUBSET Lots : Sync(broken)
    BY <2>2, SyncInv
  <2>3. CASE Rebuild
    BY <2>3, RebuildInv
  <2>4. CASE NextDay
    BY <2>4, NextDayInv
  <2>5. CASE UNCHANGED vars
    <3>1. sheet' \in [Lots -> FigureSet]
      BY <2>5 DEF Inv, Typed, vars
    <3>2. UNCHANGED <<today, snapshots, coverage, events, built, behind, lows>>
      BY <2>5 DEF vars
    <3> QED BY <3>1, <3>2, SheetInv
  <2> QED BY <2>1, <2>2, <2>3, <2>4, <2>5 DEF Next
<1> QED BY <1>1, <1>2, PTL DEF Spec

\* Every day between two readings of a lot was watched or lies in an event that
\* says why its consumption is not counted, for every number of lots and days:
\* rebuild_plant_consumption() may delete an event of which a part lies before
\* the range it writes, because it always finds it again.
THEOREM NoSilentDaysHolds == Spec => []NoSilentDays
<1>1. Inv => NoSilentDays
  <2> SUFFICES ASSUME Inv, ~behind, Started, NEW l \in Lots \ lows,
                      NEW d \in Head(snapshots[l]).day + 1 .. Last(snapshots[l]).day
               PROVE  Told(l, d)
    BY DEF NoSilentDays, Told
  <2>1. l \in Lots /\ snapshots[l] # <<>>
    BY DEF Started
  <2>2. snapshots[l] \in Seq(ReadingSet) /\ Abreast(l) /\ Accounted(l)
    BY <2>1 DEF Inv, Typed
  <2>3. Last(snapshots[l]).day = built
    BY <2>1, <2>2 DEF Abreast
  <2>4. built # 0
    <3>1. Head(snapshots[l]) \in ReadingSet
      BY <2>1, <2>2
    <3>2. Head(snapshots[l]).day \in Nat
      BY <3>1 DEF ReadingSet
    <3>3. built \in Nat
      BY DEF Inv, Typed
    <3> QED BY <2>3, <3>2, <3>3
  <2> QED BY <2>2, <2>3, <2>4 DEF Accounted
<1> QED BY <1>1, ConsumptionInv, PTL

-----------------------------------------------------------------------------
(* Quantities: the shares of an interval. *)

\* What the days up to the k-th of an interval are given.
SharesTo(quantity, days, k) == IF k < days THEN k * Share(quantity, days) ELSE quantity

\* The shares are not more than the quantity, unless that is small and the days
\* are many.
LEMMA ShareBounds ==
  ASSUME NEW quantity \in Nat, NEW days \in Nat, days >= 1, days <= 45,
         quantity = 0 \/ quantity >= 1000
  PROVE  /\ Share(quantity, days) \in Nat
         /\ days * Share(quantity, days) \in Nat
         /\ (days-1) * Share(quantity, days) <= quantity
         /\ quantity = 0 => Share(quantity, days) = 0
<1> DEFINE whole == quantity \div days
           rest == quantity % days
           s == Share(quantity, days)
<1>1. whole \in Nat /\ rest \in Nat /\ rest < days /\ quantity = days * whole + rest
  OBVIOUS
<1>2. s = whole \/ (s = whole + 1 /\ 2 * rest >= days)
  BY <1>1 DEF Share
<1>3. CASE quantity = 0
  <2>1. whole = 0 /\ rest = 0
    BY <1>3
  <2> HIDE DEF whole, rest
  <2>2. s = 0
    BY <1>2, <2>1
  <2> HIDE DEF s
  <2>3. days * s = 0 /\ (days-1) * s = 0
    BY <2>2
  <2> QED BY <1>3, <2>2, <2>3 DEF s
<1>4. CASE quantity >= 1000
  <2> HIDE DEF whole, rest, s
  <2>1. s \in Nat
    BY <1>1, <1>2
  <2> DEFINE u == days * whole
             v == days * s
             w == (days-1) * s
  <2>2. u \in Nat /\ v \in Nat /\ w \in Int /\ w = v - s
    BY <1>1, <2>1
  <2>3. v = u \/ (v = u + days /\ 2 * rest >= days)
    <3>1. days * (whole+1) = days * whole + days
      BY <1>1
    <3> QED BY <1>2, <3>1
  <2>4. 2 * v <= 2 * quantity + days
    <3> HIDE DEF u, v
    <3>1. quantity = u + rest
      BY <1>1 DEF u
    <3> QED BY <1>1, <2>2, <2>3, <3>1
  <2>5. w <= quantity
    <3> SUFFICES ASSUME w >= quantity + 1 PROVE FALSE
      BY <2>2
    <3>1. days * w >= days * (quantity + 1)
      BY <2>2
    <3>2. days * w = (days-1) * v
      BY <2>1
    <3>3. (days-1) * (2*v) <= (days-1) * (2 * quantity + days)
      BY <2>2, <2>4
    <3>4. (days-1) * (2*v) = 2 * ((days-1) * v)
      BY <2>2
    <3>5. (days-1) * (2 * quantity + days) = 2 * (days * quantity) - 2 * quantity + days * days - days
      OBVIOUS
    <3>6. days * (quantity+1) = days * quantity + days
      OBVIOUS
    <3>7. days * days <= 45 * days
      OBVIOUS
    <3> DEFINE a == days * w
               b == days * quantity
               c == days * days
    <3>8. a \in Int /\ b \in Int /\ c \in Int
      BY <2>2
    <3>9. a >= b + days /\ 2 * a <= 2*b - 2*quantity + c - days /\ c <= 45 * days
      BY <3>1, <3>2, <3>3, <3>4, <3>5, <3>6, <3>7
    <3> HIDE DEF a, b, c
    <3> QED BY <1>4, <3>8, <3>9
  <2> QED BY <1>4, <2>1, <2>2, <2>5 DEF s
<1> QED BY <1>3, <1>4

\* They begin with nothing and end with the quantity, day by day.
LEMMA SharesAdd ==
  ASSUME NEW quantity \in Nat, NEW days \in Nat, days >= 1, days <= 45,
         quantity = 0 \/ quantity >= 1000
  PROVE  /\ SharesTo(quantity, days, 0) = 0
         /\ SharesTo(quantity, days, days) = quantity
         /\ \A k \in 0..days : SharesTo(quantity, days, k) \in Nat
         /\ \A k \in 1..days :
              /\ SharesTo(quantity, days, k) >= SharesTo(quantity, days, k-1)
              /\ SharesTo(quantity, days, k) =
                   SharesTo(quantity, days, k-1)
                   + (IF k < days THEN Share(quantity, days) ELSE quantity - Share(quantity, days) * (days-1))
<1> DEFINE s == Share(quantity, days)
<1>1. s \in Nat /\ (days-1) * s <= quantity /\ s * (days-1) = (days-1) * s
  BY ShareBounds
<1> HIDE DEF s
<1>2. \A k \in 0..days : k * s \in Nat
  BY <1>1
<1>3. ASSUME NEW k \in 1..days
      PROVE  /\ SharesTo(quantity, days, k) >= SharesTo(quantity, days, k-1)
             /\ SharesTo(quantity, days, k) =
                  SharesTo(quantity, days, k-1) + (IF k < days THEN s ELSE quantity - s * (days-1))
  <2>1. SharesTo(quantity, days, k-1) = (k-1) * s
    BY DEF SharesTo, s
  <2>2. (k-1) * s = k * s - s /\ k * s \in Int
    BY <1>1
  <2>3. CASE k < days
    <3>1. SharesTo(quantity, days, k) = k * s
      BY <2>3 DEF SharesTo, s
    <3> QED BY <1>1, <2>1, <2>2, <2>3, <3>1
  <2>4. CASE k = days
    <3>1. SharesTo(quantity, days, k) = quantity
      BY <2>4 DEF SharesTo, s
    <3>2. SharesTo(quantity, days, k-1) = (days-1) * s /\ (days-1) * s \in Int
      BY <1>1, <2>1, <2>4
    <3> QED BY <1>1, <2>4, <3>1, <3>2
  <2> QED BY <2>3, <2>4
<1>4. SharesTo(quantity, days, 0) = 0 /\ SharesTo(quantity, days, days) = quantity
  <2>1. 0 * s = 0
    BY <1>1
  <2> QED BY <2>1 DEF SharesTo, s
<1>5. ASSUME NEW k \in 0..days PROVE SharesTo(quantity, days, k) \in Nat
  BY <1>2 DEF SharesTo, s
<1> QED BY <1>3, <1>4, <1>5 DEF s

-----------------------------------------------------------------------------
(* What the sheet guarantees of a lot's readings. *)

\* What was issued since reading i is what was used, or a new period has begun
\* and all issued in it was used since.
Tallies(readings, i, issued, used) ==
  \/ issued - readings[i].issued = used - readings[i].used
  \/ issued <= used - readings[i].used

Faithful(readings) ==
  /\ 1 <= Len(readings) => readings[1].sound
  /\ \A i \in 1..Len(readings) :
       /\ readings[i].day >= 1
       /\ readings[i].issued % 1000 = 0
       /\ ~readings[i].sound => readings[i].issued = 0
       /\ i + MaxBrokenRun <= Len(readings) => \E j \in i..i+MaxBrokenRun : readings[j].sound
  /\ \A i, j \in 1..Len(readings) : i < j =>
       /\ readings[i].used <= readings[j].used
       /\ readings[i].sound /\ readings[j].sound =>
            Tallies(readings, i, readings[j].issued, readings[j].used)

LEMMA ReadingFigures ==
  ASSUME NEW readings \in Seq(ReadingSet)
  PROVE  \A i \in 1..Len(readings) :
           /\ readings[i].issued \in Nat /\ readings[i].used \in Nat /\ readings[i].closing \in Nat
           /\ readings[i].day \in Nat /\ readings[i].sound \in BOOLEAN
<1>1. \A i \in 1..Len(readings) : readings[i] \in ReadingSet
  BY ReadingTypes
<1>2. \A r \in ReadingSet : /\ r.issued \in Nat /\ r.used \in Nat /\ r.closing \in Nat
                            /\ r.day \in Nat /\ r.sound \in BOOLEAN
  BY DEF ReadingSet
<1> QED BY <1>1, <1>2

\* What follows a kept reading is not below it, unless all that the walk looks
\* at is.
LEMMA FollowingUp ==
  ASSUME NEW readings \in Seq(ReadingSet), NEW a \in 1..Len(readings)
  PROVE  \/ readings[Following(readings, a)].issued >= readings[a].issued
         \/ /\ Following(readings, a) = a+1
            /\ \A j \in a+1..a+1+MaxBrokenRun :
                 j <= Len(readings) => readings[j].issued < readings[a].issued
<1> DEFINE n == Len(readings)
           B == MaxBrokenRun
           back == {j \in a+1..a+1+B : j <= n /\ readings[j].issued >= readings[a].issued}
<1>1. n \in Nat /\ a \in Nat /\ B \in Nat /\ \A i \in 1..n : readings[i].issued \in Int
  BY ReadingTypes, Limits
<1>2. Following(readings, a) = IF back = {} THEN a+1 ELSE Min(back)
  BY DEF Following
<1>3. CASE back = {}
  <2>1. ASSUME NEW j \in a+1..a+1+B, j <= n PROVE readings[j].issued < readings[a].issued
    <3>1. j \notin back /\ j \in 1..n /\ a \in 1..n
      BY <1>1, <1>3, <2>1
    <3> QED BY <1>1, <2>1, <3>1
  <2> QED BY <1>2, <1>3, <2>1
<1>4. CASE back # {}
  <2>1. back \subseteq Nat
    BY <1>1
  <2>2. PICK m \in back : \A k \in back : m <= k
    <3> HIDE DEF back
    <3> QED BY <1>4, <2>1, LeastNatural
  <2>3. Min(back) \in back
    <3> HIDE DEF back
    <3> QED BY <2>2 DEF Min
  <2> QED BY <1>2, <1>4, <2>3
<1> QED BY <1>3, <1>4

-----------------------------------------------------------------------------
(* What a reading may say was used so far. *)

\* What is booked between two readings, if anything.
Gained(readings, p, q) ==
  IF readings[q].issued >= readings[p].issued THEN readings[q].issued - readings[p].issued ELSE 0

\* Reading a knows what had been used at p: p does not dip below it, or stays
\* below it for so long that the period is a new one.
Anchored(readings, a, p) ==
  /\ readings[a].sound
  /\ \/ readings[p].issued >= readings[a].issued
     \/ \A j \in a+1..a+1+MaxBrokenRun : j <= Len(readings) => readings[j].issued < readings[a].issued

LEMMA GainedUnits ==
  ASSUME NEW readings \in Seq(ReadingSet), Faithful(readings),
         NEW p \in 1..Len(readings), NEW q \in 1..Len(readings)
  PROVE  /\ Gained(readings, p, q) \in Nat
         /\ Gained(readings, p, q) = 0 \/ Gained(readings, p, q) >= 1000
<1> DEFINE x == readings[p].issued
           y == readings[q].issued
<1>1. x \in Nat /\ y \in Nat /\ x % 1000 = 0 /\ y % 1000 = 0
  BY ReadingFigures DEF Faithful
<1> HIDE DEF x, y
<1>2. y >= x => y - x = 0 \/ y - x >= 1000
  BY <1>1
<1>3. Gained(readings, p, q) = IF y >= x THEN y - x ELSE 0
  BY DEF Gained, x, y
<1> QED BY <1>1, <1>2, <1>3

\* What an interval adds to the usage known before it is known after it.
LEMMA AnchorStep ==
  ASSUME NEW readings \in Seq(ReadingSet), Faithful(readings),
         NEW p \in 1..Len(readings), NEW q \in 1..Len(readings), q = Following(readings, p),
         NEW a \in 1..p, Anchored(readings, a, p)
  PROVE  \E c \in 1..q : /\ Anchored(readings, c, q)
                         /\ readings[a].used + Gained(readings, p, q) <= readings[c].used
<1> DEFINE n == Len(readings)
           B == MaxBrokenRun
           r(i) == readings[i]
<1>1. n \in Nat /\ B \in Nat /\ p \in Nat /\ q \in Nat /\ a \in Nat /\ a >= 1 /\ a <= p /\ p < q /\ q <= n
  BY ReadingTypes, Limits, FollowingSkips
<1>2. a \in 1..n /\ p \in 1..n /\ q \in 1..n
  BY <1>1
<1>3. \A i \in 1..n : r(i).issued \in Nat /\ r(i).used \in Nat /\ r(i).sound \in BOOLEAN
  BY ReadingFigures
<1>4. \A i \in 1..n : ~r(i).sound => r(i).issued = 0
  BY DEF Faithful
<1>5. \A i, j \in 1..n : i < j => r(i).used <= r(j).used
  BY DEF Faithful
<1>6. \A i, j \in 1..n : i < j /\ r(i).sound /\ r(j).sound =>
         r(j).issued - r(i).issued = r(j).used - r(i).used \/ r(j).issued <= r(j).used - r(i).used
  BY DEF Faithful, Tallies
<1>7. \A i \in 1..n : i + B <= n => \E j \in i..i+B : r(j).sound
  BY DEF Faithful
<1>8. \/ r(q).issued >= r(p).issued
      \/ q = p+1 /\ \A j \in p+1..p+1+B : j <= n => r(j).issued < r(p).issued
  BY FollowingUp
<1>9. /\ r(a).sound
      /\ \/ r(p).issued >= r(a).issued
         \/ \A j \in a+1..a+1+B : j <= n => r(j).issued < r(a).issued
  BY DEF Anchored
<1>10. Gained(readings, p, q) = IF r(q).issued >= r(p).issued THEN r(q).issued - r(p).issued ELSE 0
  BY DEF Gained
<1>11. \A c \in 1..n : Anchored(readings, c, q) <=>
         /\ r(c).sound
         /\ \/ r(q).issued >= r(c).issued
            \/ \A j \in c+1..c+1+B : j <= n => r(j).issued < r(c).issued
  BY DEF Anchored
<1>12. r(a).used <= r(p).used
  BY <1>1, <1>2, <1>3, <1>5
<1> SUFFICES \E c \in 1..q : /\ Anchored(readings, c, q)
                             /\ r(a).used + Gained(readings, p, q) <= r(c).used
  OBVIOUS
<1> HIDE DEF r, n, B
<1>13. CASE ~r(q).sound
  <2>1. r(q).issued = 0 /\ Gained(readings, p, q) = 0
    <3>1. r(q).issued = 0
      BY <1>2, <1>4, <1>13
    <3> QED BY <1>2, <1>3, <1>10, <3>1
  <2>2. CASE r(p).sound
    <3>1. Anchored(readings, p, q)
      BY <1>2, <1>8, <1>11, <2>2
    <3>2. r(a).used + 0 <= r(p).used
      BY <1>2, <1>3, <1>12
    <3>3. p \in 1..q
      BY <1>1
    <3> QED BY <2>1, <3>1, <3>2, <3>3
  <2>3. CASE ~r(p).sound
    <3>1. r(p).issued = 0
      BY <1>2, <1>4, <2>3
    <3>2. Anchored(readings, a, q)
      BY <1>2, <1>9, <1>11, <2>1, <3>1
    <3>3. r(a).used + 0 <= r(a).used /\ a \in 1..q
      BY <1>1, <1>2, <1>3
    <3> QED BY <2>1, <3>2, <3>3
  <2> QED BY <2>2, <2>3
<1>14. CASE r(q).sound
  <2>1. Anchored(readings, q, q) /\ q \in 1..q
    BY <1>1, <1>2, <1>3, <1>11, <1>14
  <2>2. r(a).used + Gained(readings, p, q) <= r(q).used
    <3>1. CASE r(p).sound
      <4>1. r(q).issued - r(p).issued = r(q).used - r(p).used \/ r(q).issued <= r(q).used - r(p).used
        BY <1>1, <1>2, <1>6, <1>14, <3>1
      <4>2. r(p).used <= r(q).used
        BY <1>1, <1>2, <1>5
      <4>3. r(q).issued \in Nat /\ r(p).issued \in Nat /\ r(q).used \in Nat /\ r(p).used \in Nat /\ r(a).used \in Nat
        BY <1>2, <1>3
      <4> QED BY ONLY <1>10, <1>12, <4>1, <4>2, <4>3, SMTT(20)
    <3>2. CASE ~r(p).sound
      <4>1. r(p).issued = 0
        BY <1>2, <1>4, <3>2
      <4>2. /\ r(q).issued \in Nat /\ r(p).issued \in Nat /\ r(a).issued \in Nat
            /\ r(q).used \in Nat /\ r(a).used \in Nat
        BY <1>2, <1>3
      <4>3. Gained(readings, p, q) = r(q).issued
        BY <1>10, <4>1, <4>2
      <4>4. r(q).issued - r(a).issued = r(q).used - r(a).used \/ r(q).issued <= r(q).used - r(a).used
        BY <1>1, <1>2, <1>6, <1>9, <1>14
      <4>5. r(a).used <= r(q).used
        BY <1>1, <1>2, <1>5
      <4>6. CASE r(p).issued >= r(a).issued
        <5>1. r(a).issued = 0
          BY <4>1, <4>2, <4>6
        <5> QED BY <4>2, <4>3, <4>4, <5>1
      <4>7. CASE \A j \in a+1..a+1+B : j <= n => r(j).issued < r(a).issued
        <5>1. CASE q <= a+1+B
          <6>1. r(q).issued < r(a).issued
            BY <1>1, <4>7, <5>1
          <6> QED BY <4>2, <4>3, <4>4, <4>5, <6>1
        <5>2. CASE q > a+1+B
          <6>1. a+1 \in 1..n /\ a+1+B <= n
            BY <1>1, <5>2
          <6>2. PICK j \in a+1..a+1+B : r(j).sound
            BY <1>7, <6>1
          <6>3. j \in 1..n /\ a < j /\ j < q /\ r(j).issued < r(a).issued
            BY <1>1, <4>7, <5>2
          <6>4. r(j).issued - r(a).issued = r(j).used - r(a).used \/ r(j).issued <= r(j).used - r(a).used
            BY <1>2, <1>6, <1>9, <6>2, <6>3
          <6>5. r(q).issued - r(j).issued = r(q).used - r(j).used \/ r(q).issued <= r(q).used - r(j).used
            BY <1>2, <1>6, <1>14, <6>2, <6>3
          <6>6. r(a).used <= r(j).used /\ r(j).used <= r(q).used
            BY <1>2, <1>5, <6>3
          <6>7. r(j).issued \in Nat /\ r(j).used \in Nat
            BY <1>3, <6>3
          <6>8. r(j).issued <= r(j).used - r(a).used
            BY <4>2, <6>3, <6>4, <6>6, <6>7
          <6>9. r(q).issued <= r(q).used - r(a).used
            <7>1. CASE r(q).issued <= r(q).used - r(j).used
              BY ONLY <4>2, <6>6, <6>7, <7>1
            <7>2. CASE r(q).issued - r(j).issued = r(q).used - r(j).used
              <8> DEFINE qi == r(q).issued
                         qu == r(q).used
                         ji == r(j).issued
                         ju == r(j).used
                         au == r(a).used
              <8>1. /\ qi \in Nat /\ qu \in Nat /\ ji \in Nat /\ ju \in Nat /\ au \in Nat
                    /\ ji <= ju - au /\ qi - ji = qu - ju
                BY <4>2, <6>7, <6>8, <7>2
              <8> HIDE DEF qi, qu, ji, ju, au
              <8>2. qi <= qu - au
                BY ONLY <8>1
              <8> QED BY <8>2 DEF qi, qu, au
            <7> QED BY <6>5, <7>1, <7>2
          <6> QED BY <4>2, <4>3, <6>9
        <5> QED BY <1>1, <5>1, <5>2
      <4> QED BY <1>9, <4>6, <4>7
    <3> QED BY <3>1, <3>2
  <2> QED BY <2>1, <2>2
<1> QED BY <1>13, <1>14

-----------------------------------------------------------------------------
(* The interval over a day. *)

\* The walk stands at the last reading it kept.
LEMMA WalkLatest ==
  ASSUME NEW readings \in Seq(ReadingSet), NEW first \in 1..Len(readings)
  PROVE  \A i \in first..Len(readings) : \A k \in first..i :
           Walk(readings, first)[k].last = k => k <= Walk(readings, first)[i].last
<1> DEFINE n == Len(readings)
           at == Walk(readings, first)
           Latest(i) == \A k \in first..i : at[k].last = k => k <= at[i].last
           Good == {j \in 0..(n-first) : Latest(first+j)}
<1>1. n \in Nat /\ first \in Nat /\ n-first \in Nat /\ first <= n /\ first >= 1
  BY ReadingTypes
<1>2. /\ at[first] = [last |-> first, moved |-> FALSE]
      /\ \A i \in first+1..n : at[i] = Walked(readings, i, at[i-1])
  BY <1>1, WalkSteps
<1>3. \A i \in first..n : at[i].last \in first..i
  BY WalkStands DEF Standing
<1> HIDE DEF at, n
<1>4. Latest(first)
  BY <1>1, <1>2
<1>5. ASSUME NEW i \in first+1..n, Latest(i-1) PROVE Latest(i)
  <2>1. at[i] = Walked(readings, i, at[i-1]) /\ i \in Nat /\ i-1 \in first..n
    BY <1>1, <1>2
  <2>2. CASE i = Following(readings, at[i-1].last)
    <3>1. at[i].last = i
      BY <2>1, <2>2 DEF Walked
    <3> QED BY <1>1, <2>1, <3>1
  <2>3. CASE i # Following(readings, at[i-1].last)
    <3>1. at[i] = at[i-1] /\ at[i-1].last \in first..i-1
      BY <1>3, <2>1, <2>3 DEF Walked
    <3>2. at[i].last # i /\ \A k \in first..i : k # i => k \in first..i-1
      BY <1>1, <2>1, <3>1
    <3> QED BY <1>5, <3>1, <3>2
  <2> QED BY <2>2, <2>3
<1>6. 0 \in Good
  BY <1>1, <1>4
<1>7. ASSUME NEW j \in 1..(n-first), j-1 \in Good PROVE j \in Good
  <2>1. first+j \in first+1..n /\ first+(j-1) = (first+j)-1
    BY <1>1
  <2> HIDE DEF Latest
  <2> QED BY <1>5, <1>7, <2>1
<1>8. 0..(n-first) \subseteq Good
  <2> HIDE DEF Good
  <2> QED BY <1>1, <1>6, <1>7, Climb
<1>9. ASSUME NEW i \in first..n PROVE Latest(i)
  <2>1. i-first \in 0..(n-first) /\ first+(i-first) = i
    BY <1>1
  <2> QED BY <1>8, <2>1
<1> QED BY <1>9 DEF at, n

\* Readings kept in a row are apart from others kept in a row.
LEMMA RowsApart ==
  ASSUME NEW readings \in Seq(ReadingSet), NEW first \in 1..Len(readings),
         NEW p, NEW q, InARow(readings, first, p, q),
         NEW k \in first..q-1, Walk(readings, first)[k].last = k
  PROVE  k <= p
<1> DEFINE at == Walk(readings, first)
<1>1. Len(readings) \in Nat /\ first \in Nat
  BY ReadingTypes
<1>2. q \in first+1..Len(readings) /\ at[p].last = p /\ at[q-1] = at[p]
  BY DEF InARow
<1>3. q-1 \in first..Len(readings)
  BY <1>1, <1>2
<1>4. k <= at[q-1].last
  BY <1>3, WalkLatest
<1> QED BY <1>2, <1>4

\* No two intervals are over one day.
LEMMA OnePair ==
  ASSUME NEW readings \in Seq(ReadingSet), Dated(readings), NEW first \in 1..Len(readings),
         NEW p, NEW q, InARow(readings, first, p, q),
         NEW u, NEW v, InARow(readings, first, u, v),
         NEW d \in Int,
         readings[p].day < d, d <= readings[q].day, readings[u].day < d, d <= readings[v].day
  PROVE  p = u /\ q = v
<1> DEFINE n == Len(readings)
           at == Walk(readings, first)
<1>1. n \in Nat /\ first \in Nat /\ first >= 1 /\ \A i \in 1..n : readings[i].day \in Int
  BY ReadingTypes
<1>2. ASSUME NEW a, NEW b, InARow(readings, first, a, b)
      PROVE  /\ a \in Nat /\ b \in Nat /\ first <= a /\ a < b /\ b <= n
             /\ at[a].last = a /\ at[b].last = b /\ at[b-1] = at[a]
  <2>1. /\ a \in first..b-1 /\ b \in first+1..n
        /\ at[a].last = a /\ at[b].last = b /\ at[b-1] = at[a]
    BY <1>2 DEF InARow
  <2> QED BY <1>1, <2>1
<1>3. ASSUME NEW a, NEW b, InARow(readings, first, a, b),
             NEW x, NEW y, InARow(readings, first, x, y),
             d <= readings[b].day, readings[x].day < d
      PROVE  ~(b < y)
  <2> SUFFICES ASSUME b < y PROVE FALSE
    OBVIOUS
  <2>1. /\ a \in Nat /\ b \in Nat /\ first <= a /\ a < b /\ b <= n /\ at[b].last = b
    BY <1>2, <1>3
  <2>2. x \in Nat /\ y \in Nat /\ first <= x /\ x < y /\ y <= n
    BY <1>2, <1>3
  <2>3. b \in first..y-1
    BY <1>1, <2>1, <2>2
  <2> HIDE DEF at
  <2>4. b <= x
    BY <1>3, <2>1, <2>3, RowsApart DEF at
  <2>5. b \in 1..n /\ x \in b..n /\ x - b >= 0
    BY <1>1, <2>1, <2>2, <2>4
  <2>6. x - b <= readings[x].day - readings[b].day
    BY <2>5, DaysGoUp DEF n
  <2>7. x \in 1..n
    BY <1>1, <2>2
  <2> QED BY <1>1, <1>3, <2>2, <2>5, <2>6, <2>7
<1>4. ~(q < v)
  BY <1>3
<1>5. ~(v < q)
  BY <1>3
<1>6. p \in Nat /\ q \in Nat /\ at[p].last = p /\ at[q-1] = at[p]
  BY <1>2
<1>7. u \in Nat /\ v \in Nat /\ at[u].last = u /\ at[v-1] = at[u]
  BY <1>2
<1> HIDE DEF at
<1>8. q = v
  BY <1>4, <1>5, <1>6, <1>7
<1> QED BY <1>6, <1>7, <1>8

\* An interval is no longer than its outages.
LEMMA RowSpan ==
  ASSUME NEW readings \in Seq(ReadingSet), Dated(readings), NEW first \in 1..Len(readings),
         NEW p, NEW q, InARow(readings, first, p, q)
  PROVE  /\ p \in 1..Len(readings) /\ q \in 1..Len(readings) /\ first <= p /\ p < q
         /\ q = Following(readings, p)
         /\ readings[q].day - readings[p].day >= 1 /\ readings[q].day - readings[p].day <= 45
<1> DEFINE n == Len(readings)
           B == MaxBrokenRun
           M == MaxOutage
           x == (q-p) * M
           y == (B+1) * M
<1>1. n \in Nat /\ first \in Nat /\ first >= 1 /\ B \in Nat /\ M \in Nat /\ \A i \in 1..n : readings[i].day \in Int
  BY ReadingTypes, Limits
<1>2. p \in first..q-1 /\ q \in first+1..n /\ q = Following(readings, p)
  BY DEF InARow
<1>3. p \in 1..n /\ q \in 1..n /\ p < q /\ first <= p /\ p \in Nat /\ q \in Nat
  BY <1>1, <1>2
<1>4. q <= p+1+B
  BY <1>2, <1>3, FollowingSkips
<1>5. readings[q].day - readings[p].day <= x /\ q-p <= readings[q].day - readings[p].day
  <2>1. q \in p..n
    BY <1>1, <1>3
  <2> QED BY <1>3, <2>1, DaysGoUp
<1>6. x <= y
  <2>1. q-p \in Nat /\ B+1 \in Nat /\ q-p <= B+1
    BY <1>1, <1>3, <1>4
  <2> QED BY <1>1, <2>1
<1>7. y <= 45
  BY WindowAssumption
<1>8. x \in Int /\ y \in Int
  BY <1>1, <1>3
<1> DEFINE c == readings[p].day
           e == readings[q].day
<1>9. c \in Int /\ e \in Int
  BY <1>1, <1>3
<1> HIDE DEF x, y, c, e
<1>10. e - c >= 1 /\ e - c <= 45
  BY <1>3, <1>5, <1>6, <1>7, <1>8, <1>9 DEF c, e
<1> QED BY <1>2, <1>3, <1>10 DEF c, e

\* A day without an interval is given nothing.
LEMMA AddedNowhere ==
  ASSUME NEW readings \in Seq(ReadingSet), NEW first \in 1..Len(readings),
         NEW d \in Int,
         \A p, q \in 1..Len(readings) :
           InARow(readings, first, p, q) => ~(readings[p].day < d /\ d <= readings[q].day)
  PROVE  Added(Counted(Intervals(readings, first)), d) = 0
<1> DEFINE at == Walk(readings, first)
           over == {i \in Counted(Intervals(readings, first)) : d \in DaysOf(i) /\ Allocated(i, d) > 0}
<1>1. Len(readings) \in Nat /\ first \in Nat /\ first >= 1
  BY ReadingTypes
<1>2. ASSUME NEW i \in Intervals(readings, first), d \in DaysOf(i) PROVE FALSE
  <2>1. PICK q \in first+1..Len(readings) :
          at[q].last = q /\ i = Interval(readings[at[q-1].last], readings[q], at[q-1].moved)
    BY DEF Intervals
  <2> DEFINE p == at[q-1].last
  <2>2. InARow(readings, first, p, q)
    BY <2>1, RowBefore
  <2>3. i.start = readings[p].day /\ i.end = readings[q].day
    BY <2>1 DEF Interval
  <2>4. p \in first..q-1
    BY <2>2 DEF InARow
  <2> HIDE DEF p, at
  <2>5. p \in 1..Len(readings) /\ q \in 1..Len(readings)
    BY <1>1, <2>1, <2>4
  <2>6. readings[p].day \in Int /\ readings[q].day \in Int
    BY <2>5, ReadingTypes
  <2>7. readings[p].day < d /\ d <= readings[q].day
    BY <1>2, <2>3, <2>6 DEF DaysOf
  <2> QED BY <2>2, <2>5, <2>7
<1>3. over = {}
  BY <1>2 DEF Counted
<1> QED BY <1>3 DEF Added

\* A day of an interval is given that interval's share of what was gained, all
\* of it unless the lot is then empty.
LEMMA AddedHere ==
  ASSUME NEW readings \in Seq(ReadingSet), Dated(readings), Faithful(readings),
         NEW first \in 1..Len(readings),
         NEW p, NEW q, InARow(readings, first, p, q),
         NEW d \in Int, readings[p].day < d, d <= readings[q].day,
         NEW x, x = Gained(readings, p, q),
         NEW n, n = readings[q].day - readings[p].day,
         NEW k, k = d - readings[p].day
  PROVE  /\ k \in 1..n /\ n \in Nat /\ n >= 1 /\ n <= 45
         /\ Added(Counted(Intervals(readings, first)), d) \in Nat
         /\ Added(Counted(Intervals(readings, first)), d) <= SharesTo(x, n, k) - SharesTo(x, n, k-1)
         /\ readings[q].closing > 0 =>
              Added(Counted(Intervals(readings, first)), d) = SharesTo(x, n, k) - SharesTo(x, n, k-1)
<1> DEFINE at == Walk(readings, first)
           found == Interval(readings[p], readings[q], at[p].moved)
           counted == Counted(Intervals(readings, first))
           over == {i \in counted : d \in DaysOf(i) /\ Allocated(i, d) > 0}
           diff == SharesTo(x, n, k) - SharesTo(x, n, k-1)
<1>1. /\ p \in 1..Len(readings) /\ q \in 1..Len(readings)
      /\ n >= 1 /\ n <= 45
  BY RowSpan
<1>2. /\ readings[p].day \in Nat /\ readings[q].day \in Nat
      /\ readings[p].issued \in Nat /\ readings[q].issued \in Nat
      /\ readings[p].closing \in Nat /\ readings[q].closing \in Nat
  BY <1>1, ReadingFigures
<1>3. n \in Nat /\ k \in 1..n /\ (k < n <=> d < readings[q].day) /\ (k = n <=> d = readings[q].day)
  <2> DEFINE c == readings[p].day
             e == readings[q].day
  <2>1. c \in Int /\ e \in Int /\ n = e - c /\ k = d - c /\ c < d /\ d <= e
    BY <1>2
  <2> HIDE DEF c, e
  <2>2. n \in Nat /\ k \in 1..n /\ (k < n <=> d < e) /\ (k = n <=> d = e)
    BY <1>1, <2>1
  <2> QED BY <2>2 DEF e
<1>4. x \in Nat /\ (x = 0 \/ x >= 1000)
  BY <1>1, GainedUnits
<1>5. /\ diff >= 0 /\ diff \in Int
      /\ diff = IF k < n THEN Share(x, n) ELSE x - Share(x, n) * (n-1)
      /\ x = 0 => diff = 0
  <2>1. /\ \A j \in 0..n : SharesTo(x, n, j) \in Nat
        /\ \A j \in 1..n :
             /\ SharesTo(x, n, j) >= SharesTo(x, n, j-1)
             /\ SharesTo(x, n, j) =
                  SharesTo(x, n, j-1) + (IF j < n THEN Share(x, n) ELSE x - Share(x, n) * (n-1))
    <3>1. x \in Nat /\ (x = 0 \/ x >= 1000) /\ n \in Nat /\ n >= 1 /\ n <= 45
      BY <1>1, <1>3, <1>4
    <3> QED BY ONLY <3>1, SharesAdd
  <2>2. /\ Share(x, n) \in Nat /\ (x = 0 => Share(x, n) = 0)
    <3>1. x \in Nat /\ (x = 0 \/ x >= 1000) /\ n \in Nat /\ n >= 1 /\ n <= 45
      BY <1>1, <1>3, <1>4
    <3> QED BY ONLY <3>1, ShareBounds
  <2> DEFINE s == Share(x, n)
             now == SharesTo(x, n, k)
             before == SharesTo(x, n, k-1)
             last == s * (n-1)
  <2>3. k \in 0..n /\ k-1 \in 0..n
    BY <1>3
  <2>4. now \in Nat /\ before \in Nat /\ now >= before
        /\ now = before + (IF k < n THEN s ELSE x - last)
    BY <1>3, <2>1, <2>3
  <2>5. s \in Nat /\ (x = 0 => s = 0)
    BY <2>2
  <2>6. last \in Int /\ (s = 0 => last = 0)
    BY <1>3, <2>5
  <2> HIDE DEF s, now, before, last
  <2>7. /\ now - before >= 0 /\ now - before \in Int
        /\ now - before = IF k < n THEN s ELSE x - last
        /\ x = 0 => now - before = 0
    BY <1>4, <2>4, <2>5, <2>6
  <2> QED BY <2>7 DEF now, before, s, last
<1>6. found \in Intervals(readings, first)
  <2>1. q \in {j \in first+1..Len(readings) : at[j].last = j} /\ at[q-1] = at[p] /\ at[p].last = p
    BY DEF InARow
  <2>2. found = Interval(readings[at[q-1].last], readings[q], at[q-1].moved)
    BY <2>1
  <2> HIDE DEF found
  <2> QED BY <2>1, <2>2 DEF Intervals
<1>7. /\ found.start = readings[p].day /\ found.end = readings[q].day
      /\ found.kind = Classification(readings[p], readings[q], at[p].moved)
      /\ found.quantity = IF found.kind # "period_roll" THEN Issued(readings[p], readings[q])
                          ELSE IF Balance(readings[p], readings[q]) > 0
                               THEN Balance(readings[p], readings[q]) ELSE 0
  BY DEF Interval
<1>8. d \in DaysOf(found)
  BY <1>2, <1>7, SMTT(20) DEF DaysOf
<1>9. ASSUME NEW i \in over PROVE i = found
  <2>1. i \in Intervals(readings, first) /\ d \in DaysOf(i)
    BY DEF Counted
  <2>2. PICK v \in first+1..Len(readings) :
          at[v].last = v /\ i = Interval(readings[at[v-1].last], readings[v], at[v-1].moved)
    BY <2>1 DEF Intervals
  <2> DEFINE u == at[v-1].last
  <2>3. InARow(readings, first, u, v)
    BY <2>2, RowBefore
  <2>4. i.start = readings[u].day /\ i.end = readings[v].day
    BY <2>2 DEF Interval
  <2>5. at[v-1] = at[u]
    BY <2>3 DEF InARow
  <2>6. i = Interval(readings[u], readings[v], at[u].moved)
    BY <2>2, <2>5
  <2> HIDE DEF u, at, found
  <2>7. u \in 1..Len(readings) /\ v \in 1..Len(readings)
    BY <2>3, RowSpan
  <2>8. readings[u].day \in Int /\ readings[v].day \in Int
    BY <2>7, ReadingTypes
  <2>9. readings[u].day < d /\ d <= readings[v].day
    BY <2>1, <2>4, <2>8 DEF DaysOf
  <2>10. p = u /\ q = v
    BY <2>3, <2>9, OnePair
  <2> QED BY <2>6, <2>10 DEF found
<1>10. found.kind \notin Excluded =>
         found.quantity = readings[q].issued - readings[p].issued /\ readings[q].issued >= readings[p].issued
  <2>1. ASSUME found.kind \notin Excluded PROVE readings[q].issued - readings[p].issued >= 0
    <3>1. ~(Issued(readings[p], readings[q]) < 0)
      BY <1>7, <2>1 DEF Classification, Excluded
    <3> QED BY <1>2, <3>1, SMTT(20) DEF Issued
  <2>2. found.kind \notin Excluded => found.quantity = Issued(readings[p], readings[q])
    BY <1>7 DEF Excluded
  <2> QED BY <1>2, <2>1, <2>2, SMTT(20) DEF Issued
<1>11. found.kind \notin Excluded => found.quantity = x
  BY <1>2, <1>10 DEF Gained
<1>12. ASSUME found.kind \notin Excluded
       PROVE  Allocated(found, d) = diff
  <2>1. found.end - found.start = n /\ found.quantity = x
    BY <1>7, <1>11, <1>12
  <2>2. CASE x = 0
    BY <1>5, <2>1, <2>2 DEF Allocated
  <2>3. CASE x # 0
    <3>1. ~(x <= 0)
      BY <1>4, <2>3
    <3>2. Allocated(found, d) = IF d < found.end THEN Share(x, n) ELSE x - Share(x, n) * (n-1)
      BY <1>8, <2>1, <3>1 DEF Allocated
    <3>3. d < found.end <=> k < n
      BY <1>3, <1>7
    <3> QED BY <1>5, <3>2, <3>3
  <2> QED BY <2>2, <2>3
<1>13. readings[q].closing > 0 => found.kind \notin Excluded \/ x = 0
  <2> SUFFICES ASSUME readings[q].closing > 0, found.kind \in Excluded PROVE x = 0
    OBVIOUS
  <2>1. ~IsCloseout(readings[p], readings[q], at[p].moved)
    BY <1>2 DEF IsCloseout
  <2>2. Issued(readings[p], readings[q]) < 0
    BY <1>7, <2>1 DEF Classification, Excluded
  <2> QED BY <1>2, <2>2 DEF Issued, Gained
<1> HIDE DEF found, diff
<1>14. Added(counted, d) = IF over = {} THEN 0 ELSE Allocated(CHOOSE i \in over : TRUE, d)
  BY DEF Added
<1>15. found \in over <=> found.kind \notin Excluded /\ Allocated(found, d) > 0
  BY <1>6, <1>8 DEF Counted
<1>16. CASE found \in over
  <2>1. over = {found}
    BY <1>9, <1>16
  <2>2. (CHOOSE i \in over : TRUE) = found
    BY <2>1
  <2>3. Added(counted, d) = Allocated(found, d) /\ Allocated(found, d) = diff
    BY <1>12, <1>14, <1>15, <1>16, <2>2
  <2> QED BY <1>1, <1>3, <1>5, <2>3 DEF diff
<1>17. CASE found \notin over
  <2>1. over = {}
    BY <1>9, <1>17
  <2>2. Added(counted, d) = 0
    BY <1>14, <2>1
  <2>3. readings[q].closing > 0 => diff = 0
    <3>1. CASE found.kind \notin Excluded
      BY <1>5, <1>12, <1>15, <1>17, <3>1
    <3>2. CASE x = 0
      BY <1>5, <3>2
    <3> QED BY <1>13, <3>1, <3>2
  <2>4. Added(counted, d) \in Nat /\ Added(counted, d) <= diff /\ (readings[q].closing > 0 => Added(counted, d) = diff)
    BY <1>5, <2>2, <2>3
  <2> QED BY <1>1, <1>3, <2>4 DEF diff
<1> QED BY <1>16, <1>17

-----------------------------------------------------------------------------
(* While the books are clean, the figures kept only go up. *)

\* Up to reading p the lot never ran empty, and what the sound readings show is
\* all that was used.
Clean(readings, p) ==
  \A i \in 1..p : readings[i].closing > 0 /\ (readings[i].sound => readings[i].issued = readings[i].used)

Record(readings, p) == \A i \in 1..p : readings[i].issued <= readings[p].issued

LEMMA CleanFigures ==
  ASSUME NEW readings \in Seq(ReadingSet), Faithful(readings),
         NEW p \in 1..Len(readings), Clean(readings, p)
  PROVE  /\ \A i \in 1..p : readings[i].issued <= readings[i].used
         /\ \A g \in 1..p : readings[g].sound =>
              Record(readings, g) /\ \A i \in g..p : readings[i].sound => readings[i].issued >= readings[g].issued
<1> DEFINE r(i) == readings[i]
<1>1. Len(readings) \in Nat /\ p \in Nat /\ p <= Len(readings)
  BY ReadingTypes
<1>2. \A i \in 1..p : i \in 1..Len(readings)
  BY <1>1
<1>3. \A i \in 1..p : /\ r(i).issued \in Nat /\ r(i).used \in Nat
                      /\ ~r(i).sound => r(i).issued = 0
                      /\ r(i).sound => r(i).issued = r(i).used
  BY <1>2, ReadingFigures DEF Faithful, Clean
<1>4. \A i, j \in 1..p : i < j => r(i).used <= r(j).used
  BY <1>2 DEF Faithful
<1> HIDE DEF r
<1>5. \A i \in 1..p : r(i).issued <= r(i).used
  BY <1>3
<1>6. ASSUME NEW g \in 1..p, r(g).sound, NEW i \in 1..g PROVE r(i).issued <= r(g).issued
  <2>1. i \in 1..p /\ (i = g \/ i < g)
    BY <1>1
  <2>2. r(i).used <= r(g).used
    BY <1>3, <1>4, <2>1
  <2> QED BY <1>3, <1>5, <1>6, <2>1, <2>2
<1>7. ASSUME NEW g \in 1..p, NEW i \in g..p, r(i).sound PROVE r(i).issued >= r(g).issued
  <2>1. i \in 1..p /\ g \in 1..i
    BY <1>1
  <2> QED BY <1>3, <1>6, <1>7, <2>1
<1> QED BY <1>5, <1>6, <1>7 DEF r, Record

\* If reading p is as high as any before it, so is the one kept before p, once
\* the window has come to a sound reading.
LEMMA RowRecord ==
  ASSUME NEW readings \in Seq(ReadingSet), Faithful(readings), NEW first \in 1..Len(readings),
         NEW o, NEW p, InARow(readings, first, o, p), p \in 1..Len(readings),
         NEW g \in first..p-1, readings[g].sound,
         Clean(readings, p), Record(readings, p)
  PROVE  Record(readings, o)
<1> DEFINE n == Len(readings)
           B == MaxBrokenRun
           at == Walk(readings, first)
           r(i) == readings[i].issued
           High(i) == \A j \in 1..i : r(j) <= r(at[i].last)
           Good == {k \in 0..(p-1-g) : High(g+k)}
<1>1. n \in Nat /\ B \in Nat /\ first \in Nat /\ first >= 1 /\ g \in Nat /\ p \in Nat /\ first <= g /\ g < p /\ p <= n
  BY ReadingTypes, Limits
<1>2. \A i \in 1..n : r(i) \in Nat
  BY ReadingFigures
<1>3. /\ at[first] = [last |-> first, moved |-> FALSE]
      /\ \A i \in first+1..n : at[i] = Walked(readings, i, at[i-1])
  BY <1>1, WalkSteps
<1>4. \A i \in first..n : at[i].last \in first..i /\ i < Following(readings, at[i].last)
  BY WalkStands DEF Standing
<1>5. \A j \in 1..p : readings[j].sound =>
        (\A i \in 1..j : r(i) <= r(j)) /\ \A i \in j..p : readings[i].sound => r(i) >= r(j)
  BY <1>1, CleanFigures DEF Record
<1>6. \A j \in 1..p : r(j) <= r(p)
  BY DEF Record
<1>7. ASSUME NEW x \in 1..n, NEW j \in x+1..Following(readings, x)-1
      PROVE  r(j) < r(x)
  BY FollowingSkips
<1>8. at[p-1].last = o /\ o \in first..p-1
  BY DEF InARow
<1> HIDE DEF at, n
<1>9. High(g)
  <2> DEFINE x == at[g].last
  <2>1. x \in first..g /\ g < Following(readings, x)
    BY <1>1, <1>4
  <2>2. x \in 1..n /\ g \in 1..p /\ x \in 1..g
    BY <1>1, <2>1
  <2>3. r(x) <= r(g)
    BY <1>5, <2>2
  <2>4. x = g
    <3> SUFFICES ASSUME x # g PROVE FALSE
      OBVIOUS
    <3> HIDE DEF x
    <3>1. Following(readings, x) \in Int
      BY <2>2, FollowingSkips, Limits DEF n
    <3>2. g \in x+1..Following(readings, x)-1
      BY <1>1, <2>1, <2>2, <3>1
    <3>3. r(g) < r(x)
      BY <1>7, <2>2, <3>2
    <3>4. g \in 1..n
      BY <1>1
    <3> QED BY <1>2, <2>2, <2>3, <3>3, <3>4
  <2> QED BY <1>5, <2>2, <2>4
<1>10. ASSUME NEW i \in g+1..p-1, High(i-1) PROVE High(i)
  <2> DEFINE x == at[i-1].last
  <2>1. at[i] = Walked(readings, i, at[i-1]) /\ i \in first+1..n /\ i-1 \in first..n /\ i \in 1..n /\ i \in Nat
    BY <1>1, <1>3
  <2>2. x \in first..i-1
    BY <1>4, <2>1
  <2>3. x \in 1..n /\ x \in 1..p /\ x < p /\ x <= i-1
    BY <1>1, <2>1, <2>2
  <2>4. \A j \in 1..i-1 : r(j) <= r(x)
    BY <1>10
  <2>5. CASE i # Following(readings, x)
    <3>1. at[i] = at[i-1]
      BY <2>1, <2>5 DEF Walked
    <3>2. i < Following(readings, x)
      <4>1. i < Following(readings, at[i].last)
        BY <1>4, <2>1
      <4> QED BY <3>1, <4>1
    <3> HIDE DEF x
    <3>3. Following(readings, x) \in Int
      BY <2>3, FollowingSkips, Limits DEF n
    <3>4. i \in x+1..Following(readings, x)-1
      BY <1>1, <2>1, <2>3, <3>2, <3>3
    <3>5. r(i) < r(x)
      BY <1>7, <2>3, <3>4
    <3>6. \A j \in 1..i : r(j) <= r(x)
      <4>1. \A j \in 1..i : j = i \/ j \in 1..i-1
        BY <2>1
      <4> QED BY <1>2, <2>1, <2>3, <2>4, <3>5, <4>1
    <3>7. at[i].last = x
      BY <3>1 DEF x
    <3> QED BY <3>6, <3>7
  <2>6. CASE i = Following(readings, x)
    <3>1. at[i].last = i
      BY <2>1, <2>6 DEF Walked
    <3>2. r(i) >= r(x)
      <4> SUFFICES ASSUME ~(r(i) >= r(x)) PROVE FALSE
        OBVIOUS
      <4> HIDE DEF x
      <4>1. \A j \in x+1..x+1+B : j <= n => r(j) < r(x)
        <5>1. \/ r(Following(readings, x)) >= r(x)
              \/ \A j \in x+1..x+1+B : j <= n => r(j) < r(x)
          BY <2>3, FollowingUp DEF n
        <5> QED BY <2>6, <5>1
      <4>2. CASE p <= x+1+B
        <5>1. r(p) < r(x)
          BY <1>1, <2>3, <4>1, <4>2
        <5>2. r(x) <= r(p) /\ p \in 1..n
          BY <1>1, <1>6, <2>3
        <5> QED BY <1>2, <2>3, <5>1, <5>2
      <4>3. CASE p > x+1+B
        <5>1. x+1 \in 1..n /\ (x+1)+B <= n
          BY <1>1, <2>3, <4>3
        <5>2. PICK j \in x+1..(x+1)+B : readings[j].sound
          BY <5>1 DEF Faithful, n
        <5>3. j \in 1..p /\ x \in 1..j /\ j \in 1..n
          BY <1>1, <2>3, <4>3
        <5>4. r(x) <= r(j)
          BY <1>5, <5>2, <5>3
        <5>5. r(j) < r(x)
          BY <1>1, <2>3, <4>1, <5>3
        <5> QED BY <1>2, <2>3, <5>3, <5>4, <5>5
      <4> QED BY <1>1, <2>3, <4>2, <4>3
    <3>3. \A j \in 1..i : r(j) <= r(i)
      <4>1. \A j \in 1..i : j = i \/ j \in 1..i-1
        BY <2>1
      <4>2. \A j \in 1..i : j \in 1..n
        BY <1>1, <2>1
      <4> HIDE DEF x
      <4> QED BY <1>2, <2>1, <2>3, <2>4, <3>2, <4>1, <4>2
    <3> QED BY <3>1, <3>3
  <2> QED BY <2>5, <2>6
<1>11. 0 \in Good
  BY <1>1, <1>9
<1>12. ASSUME NEW k \in 1..(p-1-g), k-1 \in Good PROVE k \in Good
  <2>1. g+k \in g+1..p-1 /\ g+(k-1) = (g+k)-1
    BY <1>1
  <2> HIDE DEF High
  <2> QED BY <1>10, <1>12, <2>1
<1>13. 0..(p-1-g) \subseteq Good
  <2> DEFINE m == p-1-g
  <2>1. m \in Nat
    BY <1>1
  <2> HIDE DEF m
  <2>2. \A k \in 1..m : k-1 \in Good => k \in Good
    BY <1>12 DEF m
  <2> HIDE DEF Good
  <2>3. 0..m \subseteq Good
    BY <1>11, <2>1, <2>2, Climb
  <2> QED BY <2>3 DEF m
<1>14. High(p-1)
  <2>1. p-1-g \in 0..(p-1-g) /\ g+(p-1-g) = p-1
    BY <1>1
  <2> HIDE DEF High
  <2> QED BY <1>13, <2>1
<1>15. \A j \in 1..o : j \in 1..p-1
  BY <1>1, <1>8
<1> QED BY <1>8, <1>14, <1>15 DEF Record

-----------------------------------------------------------------------------
(* Two rebuilds. *)

\* The first reading back at the kept one's figure is the next kept, at the latest.
LEMMA FollowingNext ==
  ASSUME NEW readings \in Seq(ReadingSet), NEW a \in 1..Len(readings),
         NEW j \in a+1..a+1+MaxBrokenRun, j <= Len(readings), readings[j].issued >= readings[a].issued
  PROVE  Following(readings, a) <= j
<1> DEFINE n == Len(readings)
           back == {i \in a+1..a+1+MaxBrokenRun : i <= n /\ readings[i].issued >= readings[a].issued}
<1>1. n \in Nat /\ a \in Nat /\ MaxBrokenRun \in Nat
  BY ReadingTypes, Limits
<1>2. j \in back /\ back \subseteq Nat
  BY <1>1
<1>3. PICK m \in back : \A k \in back : m <= k
  <2> HIDE DEF back
  <2> QED BY <1>2, LeastNatural
<1>4. Min(back) \in back /\ \A k \in back : Min(back) <= k
  <2> HIDE DEF back
  <2> QED BY <1>3 DEF Min
<1>5. Following(readings, a) = Min(back)
  BY <1>2 DEF Following
<1> QED BY <1>2, <1>4, <1>5

\* Two walks that keep one reading keep the same from there on, while the
\* readings are the same.
LEMMA Joined ==
  ASSUME NEW readings \in Seq(ReadingSet), NEW others \in Seq(ReadingSet),
         NEW first \in 1..Len(readings), NEW early \in 1..Len(others),
         NEW s \in Nat, first <= s, early <= s, NEW p \in Nat, s <= p,
         p + MaxBrokenRun <= Len(readings), p + MaxBrokenRun <= Len(others),
         \A i \in 1..p+MaxBrokenRun : readings[i] = others[i],
         Walk(readings, first)[s].last = s, Walk(others, early)[s].last = s
  PROVE  \A i \in s..p : Walk(readings, first)[i].last = Walk(others, early)[i].last
<1> DEFINE B == MaxBrokenRun
           new == Walk(readings, first)
           old == Walk(others, early)
           Same(i) == new[i].last = old[i].last
           Good == {k \in 0..(p-s) : Same(s+k)}
<1>1. /\ Len(readings) \in Nat /\ Len(others) \in Nat /\ B \in Nat /\ first \in Nat /\ early \in Nat
      /\ first >= 1 /\ early >= 1 /\ s >= 1
  BY ReadingTypes, Limits
<1>2. \A i \in first+1..Len(readings) : new[i] = Walked(readings, i, new[i-1])
  BY <1>1, WalkSteps
<1>3. \A i \in early+1..Len(others) : old[i] = Walked(others, i, old[i-1])
  BY <1>1, WalkSteps
<1>4. \A i \in first..Len(readings) : new[i].last \in first..i
  BY WalkStands DEF Standing
<1>5. ASSUME NEW i \in s+1..p, Same(i-1) PROVE Same(i)
  <2>1. /\ i \in Nat /\ i \in first+1..Len(readings) /\ i \in early+1..Len(others)
        /\ i-1 \in first..Len(readings)
    BY <1>1
  <2>2. new[i] = Walked(readings, i, new[i-1]) /\ old[i] = Walked(others, i, old[i-1])
    BY <1>2, <1>3, <2>1
  <2>3. PICK a \in first..i-1 : a = new[i-1].last /\ a = old[i-1].last
    BY <1>4, <1>5, <2>1
  <2> HIDE DEF new, old
  <2>4. a \in Nat /\ a >= 1 /\ a+1+B <= p+B
    BY <1>1, <2>1, <2>3, SMTT(20)
  <2>5. Following(readings, a) = Following(others, a)
    <3>1. a+1+B <= Len(readings) /\ a+1+B <= Len(others)
      BY <1>1, <2>4
    <3>2. \A k \in a..a+1+B : readings[k] = others[k]
      <4>1. \A k \in a..a+1+B : k \in 1..p+B
        BY <1>1, <2>4
      <4> QED BY <4>1 DEF B
    <3> QED BY <2>4, <3>1, <3>2, FollowingLocal DEF B
  <2>6. CASE i = Following(readings, a)
    <3>1. new[i].last = i /\ old[i].last = i
      BY <2>2, <2>3, <2>5, <2>6 DEF Walked
    <3> QED BY <3>1
  <2>7. CASE i # Following(readings, a)
    <3>1. new[i] = new[i-1] /\ old[i] = old[i-1]
      BY <2>2, <2>3, <2>5, <2>7 DEF Walked
    <3> QED BY <2>3, <3>1
  <2> QED BY <2>6, <2>7
<1>6. 0 \in Good
  BY <1>1
<1>7. ASSUME NEW k \in 1..(p-s), k-1 \in Good PROVE k \in Good
  <2>1. s+k \in s+1..p /\ s+(k-1) = (s+k)-1
    BY <1>1
  <2> HIDE DEF Same
  <2> QED BY <1>5, <1>7, <2>1
<1>8. 0..(p-s) \subseteq Good
  <2>1. p-s \in Nat
    OBVIOUS
  <2> HIDE DEF Good
  <2> QED BY <2>1, <1>6, <1>7, Climb
<1>9. ASSUME NEW i \in s..p PROVE Same(i)
  <2>1. i-s \in 0..(p-s) /\ s+(i-s) = i
    OBVIOUS
  <2> QED BY <1>8, <2>1
<1> QED BY <1>9 DEF new, old

\* The readings of the rebuild of day now, and those of the one before it.
Followed(others, readings, now) ==
  /\ Grown(others, readings)
  /\ Dated(readings)
  /\ now \in Int
  /\ readings[Len(readings)].day = now
  /\ now - others[Len(others)].day <= MaxOutage

LEMMA FollowedFacts ==
  ASSUME NEW readings \in Seq(ReadingSet), NEW others \in Seq(ReadingSet), NEW now,
         Followed(others, readings, now)
  PROVE  /\ Len(readings) \in Nat /\ Len(others) \in Nat /\ Len(others) >= 1 /\ Len(others) <= Len(readings)
         /\ Dated(others)
         /\ \A i \in 1..Len(readings) : readings[i].day \in Int
         /\ \A i \in 1..Len(others) : others[i].day \in Int /\ others[i].day = readings[i].day
         /\ \A i \in 1..Len(others)-1 : readings[i] = others[i]
         /\ now \in Int /\ readings[Len(readings)].day = now
         /\ others[Len(others)].day >= now - MaxOutage
         /\ others[Len(others)].day <= now
<1>1. /\ Len(readings) \in Nat /\ Len(others) \in Nat /\ Len(others) >= 1 /\ Len(others) <= Len(readings)
      /\ \A i \in 1..Len(readings) : readings[i].day \in Int
      /\ \A i \in 1..Len(others) : others[i].day \in Int
  BY ReadingTypes DEF Followed, Grown
<1>2. Dated(others) /\ \A i \in 1..Len(others) : others[i].day = readings[i].day
  BY GrownDays DEF Followed
<1>3. Len(others) \in 1..Len(others)
  BY <1>1
<1>4. others[Len(others)].day >= now - MaxOutage
  BY <1>1, <1>3, Limits DEF Followed
<1>5. others[Len(others)].day <= now
  <2> DEFINE i == Len(others)
             j == Len(readings)
  <2>1. i \in 1..j /\ j \in i..j /\ i \in 1..i /\ j \in 1..j
    BY <1>1
  <2>2. j - i <= readings[j].day - readings[i].day
    BY <2>1, DaysGoUp DEF Followed
  <2> HIDE DEF i, j
  <2>3. others[i].day = readings[i].day /\ readings[i].day \in Int /\ readings[j].day = now /\ j - i >= 0 /\ j - i \in Int
    <3>1. j \in Nat /\ i \in Nat /\ i <= j
      BY <1>1 DEF i, j
    <3>2. others[i].day = readings[i].day /\ readings[i].day \in Int
      BY <1>1, <1>2, <2>1 DEF i, j
    <3> QED BY <3>1, <3>2 DEF Followed, i, j
  <2>4. now \in Int
    BY DEF Followed
  <2> QED BY <2>2, <2>3, <2>4 DEF i
<1> QED BY <1>1, <1>2, <1>4, <1>5 DEF Followed, Grown

\* What decides about a reading before the range had been read by then.
LEMMA Settled ==
  ASSUME NEW readings \in Seq(ReadingSet), NEW others \in Seq(ReadingSet), NEW now,
         Followed(others, readings, now),
         NEW p \in 1..Len(others), others[p].day <= now - Lookback - 1
  PROVE  /\ p + 1 + MaxBrokenRun <= Len(others)
         /\ others[p].day <= now - Lookback - 2 => p + 1 + MaxBrokenRun < Len(others)
<1> DEFINE n0 == Len(others)
           B == MaxBrokenRun
           M == MaxOutage
           b == others[n0].day
           c == others[p].day
           x == (n0-p) * M
           y == B * M
<1>1. n0 \in Nat /\ n0 >= 1 /\ B \in Nat /\ M \in Nat /\ M >= 1 /\ p \in Nat /\ p >= 1 /\ p <= n0
  BY FollowedFacts, Limits
<1>2. n0 \in p..n0 /\ p \in 1..n0 /\ n0 \in 1..n0
  BY <1>1
<1>3. b \in Int /\ c \in Int /\ b >= now - M /\ now \in Int /\ Dated(others)
  BY <1>2, FollowedFacts
<1>4. b - c <= x
  BY <1>2, <1>3, DaysGoUp
<1>5. (B+2) * M = y + M + M
  BY <1>1
<1>6. Lookback \in Int /\ Lookback >= (B+2) * M - 1
  BY Windows
<1>7. x \in Int /\ y \in Int
  BY <1>1
<1>8. c <= now - Lookback - 1
  OBVIOUS
<1>9. n0-p <= B => x <= y
  BY <1>1
<1>10. n0-p <= B+1 => x <= y + M
  <2>1. (B+1) * M = y + M
    BY <1>1
  <2>2. n0-p <= B+1 => x <= (B+1) * M
    BY <1>1
  <2> QED BY <2>1, <2>2
<1> HIDE DEF x, y, b, c, n0, B, M
<1>11. ~(n0-p <= B)
  BY <1>1, <1>3, <1>4, <1>5, <1>6, <1>7, <1>8, <1>9
<1>12. c <= now - Lookback - 2 => ~(n0-p <= B+1)
  BY <1>1, <1>3, <1>4, <1>5, <1>6, <1>7, <1>10
<1>13. p+1+B <= n0
  BY <1>1, <1>11
<1>14. c <= now - Lookback - 2 => p+1+B < n0
  BY <1>1, <1>12
<1> QED BY <1>13, <1>14 DEF n0, B, c

\* Both rebuilds keep one reading of before the range, the first of this window
\* or, when that is a dip, the one back up after it.
LEMMA WindowsMeet ==
  ASSUME NEW readings \in Seq(ReadingSet), NEW others \in Seq(ReadingSet), NEW now,
         Followed(others, readings, now),
         NEW first, first = Opens(readings, now - Lookback),
         NEW early, early = Opens(others, others[Len(others)].day - Lookback),
         readings[1].day <= now - Lookback - 1
  PROVE  /\ first \in 1..Len(readings) /\ early \in 1..Len(others)
         /\ \E s \in 1..Len(others)-1 :
              /\ first <= s /\ early <= s
              /\ readings[s].day <= now - Lookback - 1
              /\ Walk(readings, first)[s].last = s
              /\ Walk(others, early)[s].last = s
<1> DEFINE n == Len(readings)
           n0 == Len(others)
           b == others[n0].day
           since == now - Lookback
           new == Walk(readings, first)
           old == Walk(others, early)
           B == MaxBrokenRun
           M == MaxOutage
<1>1. /\ n \in Nat /\ n0 \in Nat /\ n0 >= 1 /\ n0 <= n /\ Dated(others)
      /\ \A i \in 1..n : readings[i].day \in Int
      /\ \A i \in 1..n0 : others[i].day \in Int /\ others[i].day = readings[i].day
      /\ \A i \in 1..n0-1 : readings[i] = others[i]
      /\ now \in Int /\ readings[n].day = now /\ b >= now - M /\ b <= now
  BY FollowedFacts
<1>2. /\ B \in Nat /\ B >= 1 /\ M \in Nat /\ M >= 1 /\ Lookback \in Nat /\ Anchor \in Nat
      /\ Anchor >= M /\ Lookback >= M
  BY Limits, Windows
<1>3. n0 \in 1..n0 /\ n \in 1..n /\ b \in Int /\ since \in Int /\ b - Lookback \in Int
  BY <1>1, <1>2
<1>4. since <= b
  BY <1>1, <1>2, <1>3
<1>5. /\ first \in 1..n+1
      /\ first <= n => readings[first].day >= since - Anchor
      /\ \A i \in 1..n : i < first => readings[i].day < since - Anchor
  BY <1>3, OpensOn
<1>6. /\ early \in 1..n0+1
      /\ early <= n0 => others[early].day >= (b - Lookback) - Anchor
      /\ \A i \in 1..n0 : i < early => others[i].day < (b - Lookback) - Anchor
  BY <1>3, OpensOn
<1>7. readings[1].day <= since - 1 /\ Dated(readings)
  BY DEF Followed
<1> HIDE DEF n, n0, b, since
<1>8. first \in 1..n
  <2>1. ~(n < first)
    <3>1. now >= since - Anchor
      BY <1>1, <1>2, <1>3 DEF since
    <3> QED BY <1>1, <1>2, <1>3, <1>5, <3>1
  <2> QED BY <1>1, <1>5, <2>1
<1>9. early \in 1..n0
  <2>1. b >= (b - Lookback) - Anchor
    BY <1>2, <1>3
  <2>2. ~(n0 < early)
    BY <1>2, <1>3, <1>6, <2>1 DEF b
  <2> QED BY <1>1, <1>6, <2>2
<1>10. early <= first
  <2> SUFFICES ASSUME first < early PROVE FALSE
    BY <1>8, <1>9
  <2>1. first \in 1..n0
    BY <1>8, <1>9, <1>1
  <2>2. others[first].day < (b - Lookback) - Anchor
    BY <1>6, <2>1
  <2>3. readings[first].day >= since - Anchor /\ others[first].day = readings[first].day /\ readings[first].day \in Int
    BY <1>1, <1>5, <1>8, <2>1
  <2>4. b - Lookback <= since
    BY <1>1, <1>2, <1>3 DEF since
  <2> QED BY <1>2, <1>3, <2>2, <2>3, <2>4
\* What lies before the range lies before the last reading of then.
<1>11. ASSUME NEW i \in 1..n, readings[i].day <= since - 1 PROVE i < n0 /\ i \in 1..n0-1
  <2>1. i < n0
    <3> SUFFICES ASSUME i >= n0 PROVE FALSE
      BY <1>1
    <3>1. i \in n0..n /\ n0 \in 1..n
      BY <1>1
    <3>2. i - n0 <= readings[i].day - readings[n0].day
      BY <1>7, <3>1, DaysGoUp DEF n
    <3>3. readings[n0].day = b /\ readings[i].day \in Int /\ i - n0 >= 0 /\ i - n0 \in Int
      BY <1>1, <1>3, <3>1 DEF b
    <3> QED BY <1>3, <1>4, <1>11, <3>2, <3>3
  <2> QED BY <1>1, <2>1
<1>12. new[first].last = first /\ old[early].last = early
  <2>1. new[first] = [last |-> first, moved |-> FALSE] /\ old[early] = [last |-> early, moved |-> FALSE]
    BY <1>1, <1>8, <1>9, WalkSteps DEF n, n0
  <2> QED BY <2>1
<1> SUFFICES \E s \in 1..n0-1 :
               /\ first <= s /\ early <= s /\ readings[s].day <= since - 1
               /\ new[s].last = s /\ old[s].last = s
  BY <1>8, <1>9 DEF n, n0, since
<1> HIDE DEF new, old, B, M
<1>13. CASE first = 1
  <2>1. early = 1 /\ 1 \in 1..n
    BY <1>1, <1>9, <1>10, <1>13
  <2>2. 1 \in 1..n0-1
    BY <1>7, <1>11, <2>1
  <2> QED BY <1>7, <1>12, <1>13, <2>1, <2>2
<1>14. CASE first # 1
  <2> DEFINE h == first - 1
             c == readings[h].day
  <2>1. h \in 1..n /\ h < first /\ first \in h..n /\ first = h+1 /\ h \in Nat
    BY <1>1, <1>8, <1>14
  <2>2. c < since - Anchor /\ c \in Int
    BY <1>1, <1>5, <2>1
  <2> HIDE DEF h, c
  <2>3. ASSUME NEW k \in Nat, h+k <= n, k <= B+1
        PROVE  readings[h+k].day <= since - 1
    <3>1. h+k \in h..n /\ h \in 1..n /\ (h+k) - h = k /\ h+k \in 1..n
      BY <2>1, <2>3
    <3>2. readings[h+k].day - readings[h].day <= k * M
      <4>1. readings[h+k].day - readings[h].day <= ((h+k)-h) * MaxOutage
        BY <1>7, <3>1, DaysGoUp DEF n
      <4> QED BY <3>1, <4>1 DEF M
    <3>3. k * M <= (B+1) * M
      BY <1>2, <2>3
    <3>4. Anchor >= (B+1) * M
      BY WindowAssumption DEF B, M
    <3> DEFINE x == k * M
               y == (B+1) * M
    <3>5. x \in Int /\ y \in Int /\ x <= y /\ Anchor >= y
      BY <1>2, <3>3, <3>4
    <3>6. readings[h+k].day \in Int /\ readings[h+k].day - c <= x
      BY <1>1, <3>1, <3>2 DEF c
    <3> HIDE DEF x, y
    <3> QED BY <1>2, <1>3, <2>2, <3>5, <3>6
  <2>4. readings[first].day <= since - 1
    <3>1. readings[h+1].day <= since - 1
      BY <1>2, <1>8, <2>1, <2>3
    <3> QED BY <2>1, <3>1
  <2>5. first \in 1..n0-1
    BY <1>8, <1>11, <2>4
  <2>6. CASE old[first].last = first
    BY <1>10, <1>12, <2>4, <2>5, <2>6
  <2>7. CASE old[first].last # first
    <3> DEFINE a == old[first].last
               t == Following(others, a)
    <3>1. first \in early..n0 /\ early \in Nat /\ early >= 1 /\ first \in Nat
      BY <1>1, <1>8, <1>9, <1>10, <2>5
    <3>2. Standing(others, early, first)
      BY <1>9, <3>1, WalkStands DEF n0
    <3>3. a \in early..first /\ old[a].last = a /\ first < t
      BY <3>2 DEF Standing, old
    <3>4. a \in 1..n0 /\ a < first /\ a \in Nat /\ a >= 1 /\ a \in early..n0
      BY <1>1, <2>5, <2>7, <3>1, <3>3
    <3>5. /\ t \in a+1..a+1+B
          /\ t <= n0 \/ t = a+1
          /\ \A j \in a+1..t-1 : others[j].issued < others[a].issued
      BY <3>4, FollowingSkips DEF n0, B
    <3>6. \/ others[t].issued >= others[a].issued
          \/ t = a+1
      BY <3>4, FollowingUp DEF n0
    <3> HIDE DEF a, t
    <3>7. /\ t \in Nat /\ t <= n0 /\ a < first /\ first < t /\ t <= a+1+B
          /\ others[t].issued >= others[a].issued
      BY <1>1, <1>2, <3>1, <3>3, <3>4, <3>5, <3>6
    <3>8. t \in 1..n /\ readings[t].day <= since - 1
      <4> DEFINE k == t - h
      <4>1. k \in Nat /\ h+k <= n /\ k <= B+1 /\ h+k = t
        <5>1. h \in Nat /\ first = h+1 /\ t \in Nat /\ a \in Nat /\ a < first /\ first < t /\ t <= a+1+B
          BY <2>1, <3>4, <3>7
        <5>2. t <= n /\ B \in Nat
          <6>1. n \in Nat /\ n0 \in Nat /\ n0 <= n
            BY <1>1
          <6> QED BY <1>2, <3>7, <6>1
        <5> QED BY <5>1, <5>2
      <4> HIDE DEF k
      <4>2. readings[h+k].day <= since - 1
        BY <2>3, <4>1
      <4>3. t \in 1..n
        BY <1>1, <3>1, <3>7
      <4> QED BY <4>1, <4>2, <4>3
    <3>9. t \in 1..n0-1
      BY <1>11, <3>8
    <3>10. old[t].last = t
      <4>1. InARow(others, early, a, t)
        BY <1>9, <3>3, <3>4, <3>7, RowAfter DEF n0, old, t
      <4> QED BY <4>1 DEF InARow, old
    <3>11. new[t].last = t
      <4> DEFINE k == new[t-1].last
      <4>1. t-1 \in first..n /\ t \in first+1..n
        BY <1>1, <3>1, <3>7
      <4>2. Standing(readings, first, t-1)
        BY <1>8, <4>1, WalkStands DEF n
      <4>3. k \in first..t-1 /\ t-1 < Following(readings, k)
        BY <4>2 DEF Standing, new
      <4>4. new[t] = Walked(readings, t, new[t-1])
        <5>1. Len(readings) \in Nat /\ first \in 1..Len(readings) /\ t \in first+1..Len(readings)
          BY <1>1, <1>8, <4>1 DEF n
        <5>2. Walk(readings, first)[t] = Walked(readings, t, Walk(readings, first)[t-1])
          BY ONLY <5>1, WalkSteps
        <5> QED BY <5>2 DEF new
      <4> HIDE DEF k
      <4>5. k \in Nat /\ k \in a+1..t-1 /\ k \in 1..n /\ k \in 1..n0-1
        BY <1>1, <3>1, <3>4, <3>7, <3>9, <4>3
      <4>6. others[k].issued < others[a].issued
        BY <3>5, <4>5
      <4>7. /\ others[k].issued \in Int /\ others[a].issued \in Int /\ others[t].issued \in Int
        <5>1. k \in 1..n0 /\ a \in 1..n0 /\ t \in 1..n0
          BY <1>1, <3>4, <3>9, <4>5
        <5> QED BY <5>1, ReadingTypes DEF n0
      <4>8. readings[t].issued >= readings[k].issued
        BY <1>1, <3>7, <3>9, <4>5, <4>6, <4>7, SMTT(20)
      <4>9. t \in k+1..k+1+B
        BY <1>2, <3>4, <3>7, <4>5
      <4>10. Following(readings, k) <= t
        BY <3>8, <4>5, <4>8, <4>9, FollowingNext DEF n, B
      <4>11. Following(readings, k) = t
        <5>1. Following(readings, k) \in Int
          BY <1>2, <4>5, FollowingSkips DEF n, B
        <5> QED BY <3>7, <4>3, <4>10, <5>1
      <4> QED BY <4>4, <4>11 DEF k, Walked
    <3>12. first <= t /\ early <= t
      BY <1>10, <3>1, <3>7
    <3> QED BY <3>8, <3>9, <3>10, <3>11, <3>12
  <2> QED BY <2>6, <2>7
<1> QED BY <1>13, <1>14

-----------------------------------------------------------------------------
(* What the rows say of a lot. *)

\* Of what is gained between two readings, the shares of the days up to d.
OwedTo(readings, p, q, d) ==
  SharesTo(Gained(readings, p, q), readings[q].day - readings[p].day, d - readings[p].day)

\* The rows of a lot up to day d, part of them in an interval, say no more than
\* was known to be used, and while the books are clean just that.
Carried(readings, first, part, d) ==
  \A p, q \in 1..Len(readings) :
    InARow(readings, first, p, q) /\ readings[p].day <= d /\ d < readings[q].day =>
      /\ \E a \in 1..p :
           /\ Anchored(readings, a, p)
           /\ Total(part, d) <= readings[a].used - readings[1].used + OwedTo(readings, p, q, d)
      /\ Record(readings, p) /\ Clean(readings, p) /\ (readings[p].day < d => Clean(readings, q)) =>
           Total(part, d) = readings[p].issued - readings[1].issued + OwedTo(readings, p, q, d)

\* Nothing is owed yet on the day of the reading.
LEMMA OwedNothing ==
  ASSUME NEW readings \in Seq(ReadingSet), Dated(readings), Faithful(readings),
         NEW first \in 1..Len(readings),
         NEW p, NEW q, InARow(readings, first, p, q),
         NEW d, d = readings[p].day
  PROVE  OwedTo(readings, p, q, d) = 0
<1> DEFINE x == Gained(readings, p, q)
           n == readings[q].day - readings[p].day
           k == d - readings[p].day
<1>1. /\ p \in 1..Len(readings) /\ q \in 1..Len(readings)
      /\ n >= 1 /\ n <= 45
  BY RowSpan
<1>2. readings[p].day \in Int /\ readings[q].day \in Int
  BY <1>1, ReadingTypes
<1>3. n \in Nat /\ k = 0
  BY <1>1, <1>2
<1>4. x \in Nat /\ (x = 0 \/ x >= 1000)
  BY <1>1, GainedUnits
<1> HIDE DEF x, n, k
<1>5. SharesTo(x, n, 0) = 0
  BY <1>1, <1>3, <1>4, SharesAdd
<1> QED BY <1>3, <1>5 DEF OwedTo, x, n, k

\* What the last rebuild left of the rows before the range fits the intervals of
\* this one.
LEMMA CarriedOver ==
  ASSUME NEW readings \in Seq(ReadingSet), NEW others \in Seq(ReadingSet), NEW now,
         Followed(others, readings, now), Faithful(readings), Faithful(others),
         NEW first, first = Opens(readings, now - Lookback),
         NEW early, early = Opens(others, others[Len(others)].day - Lookback),
         NEW d, d = now - Lookback - 1,
         NEW part, Carried(others, early, part, d)
  PROVE  Carried(readings, first, part, d)
<1> DEFINE n == Len(readings)
           n0 == Len(others)
           b == others[n0].day
           new == Walk(readings, first)
           old == Walk(others, early)
           B == MaxBrokenRun
<1>1. /\ n \in Nat /\ n0 \in Nat /\ n0 >= 1 /\ n0 <= n /\ Dated(others)
      /\ \A i \in 1..n : readings[i].day \in Int
      /\ \A i \in 1..n0 : others[i].day \in Int /\ others[i].day = readings[i].day
      /\ \A i \in 1..n0-1 : readings[i] = others[i]
      /\ now \in Int /\ readings[n].day = now /\ b >= now - MaxOutage /\ b <= now
  BY FollowedFacts
<1>2. B \in Nat /\ B >= 1 /\ MaxOutage \in Nat /\ Lookback \in Nat /\ Lookback >= MaxOutage
  BY Limits, Windows
<1>3. Dated(readings)
  BY DEF Followed
<1>sizes. n \in Nat /\ n0 \in Nat /\ n0 >= 1 /\ n0 <= n /\ B \in Nat /\ B >= 1
  BY <1>1, <1>2
<1>dates. /\ now \in Int /\ d \in Int /\ b \in Int /\ d = now - Lookback - 1 /\ d < b
          /\ now - Lookback - 1 \in Int /\ now - Lookback - 2 \in Int /\ now - Lookback - 2 = d - 1
  <2>1. b \in Int /\ now \in Int /\ b >= now - MaxOutage
    <3>1. n0 \in 1..n0
      BY <1>1
    <3> QED BY <1>1, <3>1
  <2> HIDE DEF b
  <2> QED BY <1>2, <2>1
<1> SUFFICES ASSUME NEW p \in 1..n, NEW q \in 1..n,
                    InARow(readings, first, p, q), readings[p].day <= d, d < readings[q].day
             PROVE  /\ \E a \in 1..p :
                         /\ Anchored(readings, a, p)
                         /\ Total(part, d) <= readings[a].used - readings[1].used + OwedTo(readings, p, q, d)
                    /\ Record(readings, p) /\ Clean(readings, p) /\ (readings[p].day < d => Clean(readings, q)) =>
                         Total(part, d) = readings[p].issued - readings[1].issued + OwedTo(readings, p, q, d)
  BY DEF Carried
<1>4. 1 \in 1..n /\ p \in 1..n /\ p >= 1 /\ p \in Nat
  BY <1>1
<1>5. readings[1].day <= now - Lookback - 1
  <2>1. p - 1 <= readings[p].day - readings[1].day
    <3>1. p \in 1..n /\ 1 \in 1..n /\ p \in 1..n
      BY <1>4
    <3> QED BY <1>3, <3>1, DaysGoUp
  <2>2. readings[p].day \in Int /\ readings[1].day \in Int
    BY <1>1, <1>4
  <2> QED BY <1>1, <1>2, <1>4, <2>1, <2>2
<1>6. /\ first \in 1..n /\ early \in 1..n0
      /\ \E s \in 1..n0-1 :
           /\ first <= s /\ early <= s
           /\ readings[s].day <= now - Lookback - 1
           /\ new[s].last = s
           /\ old[s].last = s
  BY <1>5, WindowsMeet
<1>7. PICK s \in 1..n0-1 :
        first <= s /\ early <= s /\ readings[s].day <= d /\ new[s].last = s /\ old[s].last = s
  BY <1>6
<1>8. first \in 1..n /\ early \in 1..n0 /\ first \in Nat /\ early \in Nat
  BY <1>6
<1>9. /\ p \in first..q-1 /\ q \in first+1..n /\ new[p].last = p
      /\ q = Following(readings, p)
  BY DEF InARow
<1> HIDE DEF n, n0, b, new, old, B
<1>10. s <= p
  <2>1. s < q
    <3> SUFFICES ASSUME s >= q PROVE FALSE
      BY <1>1, <1>9
    <3>1. s \in q..n /\ q \in 1..n
      BY <1>1, <1>9
    <3>2. s - q <= readings[s].day - readings[q].day
      BY <1>3, <3>1, DaysGoUp DEF n
    <3>3. readings[s].day \in Int /\ readings[q].day \in Int /\ s - q >= 0 /\ s - q \in Int /\ d \in Int
      BY <1>1, <1>2, <3>1
    <3> QED BY <1>7, <3>2, <3>3
  <2>2. s \in first..q-1
    BY <1>1, <1>7, <1>8, <1>9, <2>1
  <2> QED BY <1>7, <1>8, <2>2, RowsApart DEF n, new
<1>11. p < n0
  <2> SUFFICES ASSUME p >= n0 PROVE FALSE
    BY <1>1
  <2>1. p \in n0..n /\ n0 \in 1..n /\ n0 \in 1..n0
    BY <1>1
  <2>2. p - n0 <= readings[p].day - readings[n0].day
    BY <1>3, <2>1, DaysGoUp DEF n
  <2>3. readings[n0].day = b /\ b \in Int /\ readings[p].day \in Int /\ p - n0 >= 0 /\ p - n0 \in Int
    BY <1>1, <2>1 DEF b
  <2> QED BY <1>dates, <2>2, <2>3, SMTT(20)
<1>12. p \in 1..n0 /\ p \in 1..n0-1 /\ others[p] = readings[p] /\ others[p].day = readings[p].day
       /\ others[p].day \in Int
  BY <1>1, <1>4, <1>11
<1>13. others[p].day <= now - Lookback - 1
  BY <1>12
<1>14. /\ p+1+B <= n0
       /\ others[p].day <= now - Lookback - 2 => p+1+B < n0
  BY <1>12, <1>13, Settled DEF n0, B
\* The last rebuild kept p.
<1>15. old[p].last = p
  <2>1. p + B <= n /\ p + B <= n0
    BY <1>1, <1>2, <1>4, <1>14
  <2>2. \A i \in 1..p+B : readings[i] = others[i]
    <3>1. \A i \in 1..p+B : i \in 1..n0-1
      BY <1>1, <1>2, <1>4, <1>14
    <3> QED BY <1>1, <3>1
  <2>3. p \in s..p /\ s \in Nat
    BY <1>10
  <2>4. \A i \in s..p : new[i].last = old[i].last
    <3>1. first \in 1..Len(readings) /\ early \in 1..Len(others)
      BY <1>8 DEF n, n0
    <3>2. s \in Nat /\ first <= s /\ early <= s /\ p \in Nat /\ s <= p
      BY <1>4, <1>7, <1>10
    <3>3. /\ p + MaxBrokenRun <= Len(readings) /\ p + MaxBrokenRun <= Len(others)
          /\ \A i \in 1..p+MaxBrokenRun : readings[i] = others[i]
      BY <2>1, <2>2 DEF n, n0, B
    <3>4. Walk(readings, first)[s].last = s /\ Walk(others, early)[s].last = s
      BY <1>7 DEF new, old
    <3>5. \A i \in s..p : Walk(readings, first)[i].last = Walk(others, early)[i].last
      BY ONLY readings \in Seq(ReadingSet), others \in Seq(ReadingSet), <3>1, <3>2, <3>3, <3>4, Joined
    <3> QED BY <3>5 DEF new, old
  <2> QED BY <1>9, <2>3, <2>4
<1> DEFINE v == Following(others, p)
<1>16. InARow(others, early, p, v) /\ v \in 1..n0 /\ p < v
  <2>1. v \in p+1..p+1+B /\ (v <= n0 \/ v = p+1)
    BY <1>12, FollowingSkips DEF n0, B
  <2>2. v <= n0 /\ v \in 1..n0 /\ p < v
    BY <1>1, <1>4, <1>2, <1>11, <2>1
  <2>3. p \in early..n0
    BY <1>7, <1>8, <1>10, <1>11, <1>4, <1>1
  <2> QED BY <1>8, <1>15, <2>2, <2>3, RowAfter DEF n0, old
<1> HIDE DEF v
<1>17. d < others[v].day
  <2>1. CASE others[p].day <= now - Lookback - 2
    <3>1. p+1+B < n0
      BY <1>14, <2>1
    <3>2. v = q
      <4>1. \A i \in p..p+1+B : readings[i] = others[i]
        <5>1. \A i \in p..p+1+B : i \in 1..n0-1
          BY <1>1, <1>2, <1>4, <3>1
        <5> QED BY <1>1, <5>1
      <4>2. p+1+B <= n /\ p+1+B <= n0
        BY <1>4, <1>sizes, <3>1
      <4>3. Following(readings, p) = Following(others, p)
        BY <1>4, <4>1, <4>2, FollowingLocal DEF n, n0, B
      <4> QED BY <1>9, <4>3 DEF v
    <3> QED BY <1>1, <1>16, <3>2
  <2>2. CASE ~(others[p].day <= now - Lookback - 2)
    <3>1. others[p].day = d
      BY <1>dates, <1>12, <1>13, <2>2
    <3>2. v \in p..n0 /\ p \in 1..n0
      BY <1>4, <1>12, <1>16
    <3>3. v - p <= others[v].day - others[p].day
      BY <1>1, <3>2, DaysGoUp DEF n0
    <3>4. others[v].day \in Int /\ others[p].day \in Int /\ v - p >= 1 /\ v - p \in Int
      BY <1>1, <1>4, <1>12, <1>16
    <3> QED BY <3>1, <3>3, <3>4
  <2> QED BY <2>1, <2>2
<1>18. /\ \E a \in 1..p :
            /\ Anchored(others, a, p)
            /\ Total(part, d) <= others[a].used - others[1].used + OwedTo(others, p, v, d)
       /\ Record(others, p) /\ Clean(others, p) /\ (others[p].day < d => Clean(others, v)) =>
            Total(part, d) = others[p].issued - others[1].issued + OwedTo(others, p, v, d)
  <2>1. others[p].day <= d
    BY <1>12
  <2> QED BY <1>12, <1>16, <1>17, <2>1 DEF Carried, n0
<1>19. \A i \in 1..p : others[i] = readings[i] /\ i \in 1..n0-1
  <2>1. \A i \in 1..p : i \in 1..n0-1
    BY <1>1, <1>4, <1>11
  <2> QED BY <1>1, <2>1
<1>20. others[1] = readings[1]
  BY <1>4, <1>19
<1>21. /\ OwedTo(others, p, v, d) = OwedTo(readings, p, q, d)
       /\ readings[p].day < d => v = q /\ \A i \in 1..q : others[i] = readings[i]
  <2>1. CASE others[p].day <= now - Lookback - 2
    <3>1. p+1+B < n0
      BY <1>14, <2>1
    <3>2. v = q
      <4>1. \A i \in p..p+1+B : readings[i] = others[i]
        <5>1. \A i \in p..p+1+B : i \in 1..n0-1
          BY <1>1, <1>2, <1>4, <3>1
        <5> QED BY <1>1, <5>1
      <4>2. p+1+B <= n /\ p+1+B <= n0
        BY <1>4, <1>sizes, <3>1
      <4>3. Following(readings, p) = Following(others, p)
        BY <1>4, <4>1, <4>2, FollowingLocal DEF n, n0, B
      <4> QED BY <1>9, <4>3 DEF v
    <3>3. q <= p+1+B
      BY <1>2, <1>9, FollowingSkips DEF n, B
    <3>4. \A i \in 1..q : i \in 1..n0-1
      BY <1>1, <1>2, <1>4, <1>9, <3>1, <3>3
    <3>5. \A i \in 1..q : others[i] = readings[i]
      BY <1>1, <3>4
    <3>6. others[q] = readings[q]
      <4>1. q \in 1..q
        BY <1>1, <1>9
      <4> QED BY <3>5, <4>1
    <3>7. OwedTo(others, p, v, d) = OwedTo(readings, p, q, d)
      BY <1>12, <3>2, <3>6 DEF OwedTo, Gained
    <3> QED BY <3>2, <3>5, <3>7
  <2>2. CASE ~(others[p].day <= now - Lookback - 2)
    <3>1. others[p].day = d /\ readings[p].day = d /\ d \in Int
      BY <1>dates, <1>12, <1>13, <2>2
    <3>2. OwedTo(others, p, v, d) = 0
      BY <1>1, <1>8, <1>16, <3>1, OwedNothing DEF n0
    <3>3. OwedTo(readings, p, q, d) = 0
      BY <1>3, <1>8, <3>1, OwedNothing DEF n
    <3> QED BY <3>1, <3>2, <3>3
  <2> QED BY <2>1, <2>2
<1>22. ASSUME NEW a \in 1..p, Anchored(others, a, p) PROVE Anchored(readings, a, p)
  <2>1. others[a] = readings[a] /\ others[p] = readings[p]
    BY <1>12, <1>19
  <2>2. CASE a = p
    <3>1. readings[p].issued \in Nat
      BY ReadingFigures DEF n
    <3> QED BY <1>22, <2>1, <2>2, <3>1 DEF Anchored
  <2>3. CASE a < p
    <3>1. \A j \in a+1..a+1+B : j \in 1..n0-1 /\ j <= n /\ j <= n0
      BY <1>1, <1>2, <1>4, <1>14, <2>3
    <3>2. \A j \in a+1..a+1+B : others[j] = readings[j]
      BY <1>1, <3>1
    <3> QED BY <1>22, <2>1, <3>1, <3>2 DEF Anchored, n, n0, B
  <2> QED BY <1>4, <2>2, <2>3
<1>23. PICK a \in 1..p :
         /\ Anchored(others, a, p)
         /\ Total(part, d) <= others[a].used - others[1].used + OwedTo(others, p, v, d)
  BY <1>18
<1>24. /\ Anchored(readings, a, p)
       /\ Total(part, d) <= readings[a].used - readings[1].used + OwedTo(readings, p, q, d)
  BY <1>19, <1>20, <1>21, <1>22, <1>23
<1>25. ASSUME Record(readings, p), Clean(readings, p), readings[p].day < d => Clean(readings, q)
       PROVE  Total(part, d) = readings[p].issued - readings[1].issued + OwedTo(readings, p, q, d)
  <2>1. Record(others, p) /\ Clean(others, p)
    BY <1>12, <1>19, <1>25 DEF Record, Clean
  <2>2. others[p].day < d => Clean(others, v)
    BY <1>12, <1>21, <1>25 DEF Clean
  <2> QED BY <1>12, <1>18, <1>20, <1>21, <2>1, <2>2
<1> QED BY <1>24, <1>25

\* Before the range the window holds a sound reading.
LEMMA SoundBefore ==
  ASSUME NEW readings \in Seq(ReadingSet), Dated(readings), Faithful(readings),
         NEW since \in Int, NEW first \in 1..Len(readings), first = Opens(readings, since),
         NEW p \in first+1..Len(readings), readings[p].day >= since
  PROVE  \E g \in first..p-1 : readings[g].sound
<1> DEFINE n == Len(readings)
           B == MaxBrokenRun
           M == MaxOutage
<1>1. n \in Nat /\ B \in Nat /\ M \in Nat /\ M >= 1 /\ Anchor \in Nat /\ first \in Nat /\ first >= 1 /\ first <= n
      /\ p \in Nat /\ first < p /\ p <= n
  BY ReadingTypes, Limits, Windows
<1>2. CASE first = 1
  <2>1. readings[1].sound
    BY <1>1 DEF Faithful
  <2> QED BY <1>1, <1>2, <2>1
<1>3. CASE first # 1
  <2> DEFINE h == first-1
             c == readings[h].day
             e == readings[p].day
             x == (p-h) * M
             y == (B+1) * M
  <2>1. h \in 1..n /\ h < first /\ p \in h..n /\ p \in 1..n
    BY <1>1, <1>3
  <2>2. c < since - Anchor
    <3>1. \A i \in 1..Len(readings) : i < Opens(readings, since) => readings[i].day < since - Anchor
      BY OpensOn
    <3> QED BY <2>1, <3>1
  <2>3. e - c <= x
    BY <2>1, DaysGoUp
  <2>4. c \in Int /\ e \in Int
    BY <2>1, ReadingTypes
  <2>5. Anchor >= y
    BY WindowAssumption
  <2>6. p-h <= B+1 => x <= y
    BY <1>1
  <2>7. x \in Int /\ y \in Int
    BY <1>1
  <2> HIDE DEF x, y, c, e
  <2>8. e >= since
    BY DEF e
  <2>9. ~(p-h <= B+1)
    BY <1>1, <2>2, <2>3, <2>4, <2>5, <2>6, <2>7, <2>8
  <2>10. first + B <= p-1
    BY <1>1, <2>9
  <2>11. PICK g \in first..first+B : readings[g].sound
    <3>1. first + MaxBrokenRun <= Len(readings)
      BY <1>1, <2>10
    <3> QED BY <3>1 DEF Faithful
  <2>12. g \in first..p-1
    BY <1>1, <2>10
  <2> QED BY <2>11, <2>12
<1> QED BY <1>2, <1>3

\* On the day of reading p the rows say no more than was known to be used by then.
BookedAt(readings, part, p) ==
  /\ \E c \in 1..p :
       /\ Anchored(readings, c, p)
       /\ Total(part, readings[p].day) <= readings[c].used - readings[1].used
  /\ Record(readings, p) /\ Clean(readings, p) =>
       Total(part, readings[p].day) = readings[p].issued - readings[1].issued

\* With that day the interval before it is booked in full.
LEMMA Arrived ==
  ASSUME NEW readings \in Seq(ReadingSet), Dated(readings), Faithful(readings),
         NEW first \in 1..Len(readings), NEW part \in [1..LastDay -> Nat],
         NEW p \in first+1..Len(readings), Walk(readings, first)[p].last = p,
         NEW d, d = readings[p].day, d <= LastDay,
         Carried(readings, first, part, d-1),
         part[d] = Added(Counted(Intervals(readings, first)), d),
         NEW g \in first..p-1, readings[g].sound
  PROVE  BookedAt(readings, part, p)
<1> DEFINE N == Len(readings)
           o == Walk(readings, first)[p-1].last
           x == Gained(readings, o, p)
           n == readings[p].day - readings[o].day
<1>1. InARow(readings, first, o, p)
  BY RowBefore
<1> HIDE DEF o
<1>2. /\ o \in 1..N /\ p \in 1..N /\ first <= o /\ o < p /\ p = Following(readings, o)
      /\ n >= 1 /\ n <= 45
  BY <1>1, RowSpan
<1>3. N \in Nat /\ 1 \in 1..N /\ o \in Nat /\ p \in Nat
  BY <1>2, ReadingTypes
<1>4. \A i \in 1..N : /\ readings[i].day \in Nat /\ readings[i].issued \in Nat /\ readings[i].used \in Nat
                      /\ readings[i].closing \in Nat
  BY ReadingFigures
<1>5. readings[o].day >= 1 /\ LastDay \in Nat
  BY <1>2, LedgerAssumption DEF Faithful
<1> DEFINE w == readings[o].day
<1>6. d \in Nat /\ w \in Nat /\ w < d /\ d - 1 \in Nat /\ w <= d - 1 /\ d \in 1..LastDay /\ d - 1 < d
  <2>1. readings[p].day \in Nat /\ w \in Nat /\ w >= 1
    BY <1>2, <1>4, <1>5
  <2> HIDE DEF w
  <2>2. d - w >= 1
    BY <1>2 DEF w
  <2>3. d \in Nat /\ d <= LastDay /\ LastDay \in Nat /\ w \in Nat /\ w >= 1
    BY <1>5, <2>1
  <2> QED BY ONLY <2>2, <2>3
<1> HIDE DEF w
<1> DEFINE u == OwedTo(readings, o, p, d-1)
           add == Added(Counted(Intervals(readings, first)), d)
<1>7. /\ \E a \in 1..o : Anchored(readings, a, o) /\ Total(part, d-1) <= readings[a].used - readings[1].used + u
      /\ Record(readings, o) /\ Clean(readings, o) /\ (readings[o].day < d-1 => Clean(readings, p)) =>
           Total(part, d-1) = readings[o].issued - readings[1].issued + u
  <2>1. readings[o].day <= d-1 /\ d-1 < readings[p].day
    BY <1>6 DEF w
  <2> QED BY <1>1, <1>2, <2>1 DEF Carried
<1>8. x \in Nat /\ (x = 0 \/ x >= 1000)
  BY <1>2, GainedUnits
<1>9. /\ n \in Nat /\ d - w \in 1..n /\ d - w = n /\ (d-1) - w = n-1 /\ n-1 \in 0..n
  <2>1. n = d - w
    BY DEF w
  <2> HIDE DEF n
  <2>2. d \in Nat /\ w \in Nat /\ w < d
    BY <1>6
  <2> QED BY ONLY <2>1, <2>2
<1>10. SharesTo(x, n, n) = x /\ SharesTo(x, n, n-1) \in Nat
  <2> HIDE DEF x, n
  <2> QED BY <1>2, <1>8, <1>9, SharesAdd
<1>11. u = SharesTo(x, n, n-1)
  BY <1>9 DEF OwedTo, w
<1>12. /\ add \in Nat /\ add <= x - u
       /\ readings[p].closing > 0 => add = x - u
  <2>1. readings[o].day < d /\ d <= readings[p].day /\ d \in Int
    BY <1>6 DEF w
  <2> DEFINE k == d - readings[o].day
  <2>2. k = n
    BY <1>9 DEF w
  <2>3. /\ add \in Nat
        /\ add <= SharesTo(x, n, k) - SharesTo(x, n, k-1)
        /\ readings[p].closing > 0 => add = SharesTo(x, n, k) - SharesTo(x, n, k-1)
    <3>1. x = Gained(readings, o, p) /\ n = readings[p].day - readings[o].day /\ k = d - readings[o].day
      OBVIOUS
    <3> HIDE DEF x, n, k
    <3> QED BY ONLY readings \in Seq(ReadingSet), Dated(readings), Faithful(readings),
              first \in 1..Len(readings), <1>1, <2>1, <3>1, AddedHere DEF add
  <2> HIDE DEF n, k, x, u, add
  <2> QED BY <1>10, <1>11, <2>2, <2>3
<1>13. /\ Total(part, d) = Total(part, d-1) + add
       /\ Total(part, d-1) \in Int
  <2>1. part \in [1..LastDay -> Int]
    OBVIOUS
  <2>2. d-1 \in 0..LastDay
    BY ONLY <1>5, <1>6
  <2>3. LastDay \in Nat /\ d \in 1..LastDay
    BY <1>5, <1>6
  <2>4. /\ \A m \in 0..LastDay : Total(part, m) \in Int
        /\ \A m \in 1..LastDay : Total(part, m) = Total(part, m-1) + part[m]
    BY ONLY <2>1, <2>3, TotalClimbs
  <2>5. add = part[d]
    OBVIOUS
  <2> QED BY ONLY <2>2, <2>3, <2>4, <2>5
<1> DEFINE total == Total(part, d)
           before == Total(part, d-1)
<1>14. u \in Nat
  BY <1>10, <1>11
<1> HIDE DEF x, n, u, add, total, before
<1>15. total = before + add /\ before \in Int /\ total \in Int
  BY <1>12, <1>13 DEF total, before
<1>16. \E c \in 1..p : Anchored(readings, c, p) /\ total <= readings[c].used - readings[1].used
  <2>1. PICK a \in 1..o : Anchored(readings, a, o) /\ before <= readings[a].used - readings[1].used + u
    BY <1>7 DEF before
  <2>2. PICK c \in 1..p : Anchored(readings, c, p) /\ readings[a].used + x <= readings[c].used
    BY <1>2, <2>1, AnchorStep DEF x
  <2>3. a \in 1..N /\ c \in 1..N
    BY <1>2, <1>3
  <2>4. /\ readings[a].used \in Nat /\ readings[c].used \in Nat /\ readings[1].used \in Nat
    BY <1>3, <1>4, <2>3
  <2>5. total <= readings[c].used - readings[1].used
    <3>1. add \in Int /\ add <= x - u
      BY <1>12
    <3>2. x \in Int /\ u \in Int
      BY <1>8, <1>14
    <3>3. before <= readings[a].used - readings[1].used + u
      BY <2>1
    <3>4. readings[a].used + x <= readings[c].used
      BY <2>2
    <3> DEFINE ua == readings[a].used
               uc == readings[c].used
               u1 == readings[1].used
    <3>5. ua \in Int /\ uc \in Int /\ u1 \in Int
      BY <2>4
    <3>6. before <= ua - u1 + u /\ ua + x <= uc
      BY <3>3, <3>4
    <3> HIDE DEF ua, uc, u1
    <3>7. before + add <= uc - u1
      BY ONLY <1>15, <3>1, <3>2, <3>5, <3>6
    <3> QED BY <1>15, <3>7 DEF uc, u1
  <2> QED BY <2>2, <2>5
<1>17. ASSUME Record(readings, p), Clean(readings, p)
       PROVE  total = readings[p].issued - readings[1].issued
  <2>1. Record(readings, o)
    BY <1>1, <1>2, <1>17, RowRecord
  <2>2. Clean(readings, o) /\ readings[p].closing > 0
    <3>1. \A i \in 1..o : i \in 1..p
      BY <1>2, <1>3
    <3>2. p \in 1..p
      BY <1>2
    <3> QED BY <1>17, <3>1, <3>2 DEF Clean
  <2>3. before = readings[o].issued - readings[1].issued + u
    BY <1>7, <1>17, <2>1, <2>2 DEF before
  <2>4. readings[o].issued <= readings[p].issued
    <3>1. o \in 1..p
      BY <1>2, <1>3
    <3> QED BY <1>17, <3>1 DEF Record
  <2>5. x = readings[p].issued - readings[o].issued
    BY <1>2, <1>4, <2>4 DEF x, Gained
  <2>6. add = x - u
    BY <1>12, <2>2
  <2>7. readings[o].issued \in Nat /\ readings[p].issued \in Nat /\ readings[1].issued \in Nat
    BY <1>2, <1>3, <1>4
  <2>8. add = readings[p].issued - readings[o].issued - u
    BY <2>5, <2>6
  <2> DEFINE io == readings[o].issued
             ip == readings[p].issued
             i1 == readings[1].issued
  <2>9. io \in Int /\ ip \in Int /\ i1 \in Int /\ u \in Int
    BY <1>14, <2>7
  <2>10. total = before + add /\ before = io - i1 + u /\ add = ip - io - u
    BY <1>15, <2>3, <2>8
  <2> HIDE DEF io, ip, i1
  <2>11. total = ip - i1
    BY ONLY <2>9, <2>10
  <2> QED BY <2>11 DEF ip, i1
<1> QED BY <1>16, <1>17 DEF total, BookedAt

\* Up to the day of the last reading they say no more than was used, just that
\* while the books are clean.
AddsUp(readings, part, day) ==
  LET n == Len(readings)
  IN  /\ Total(part, day) <= readings[n].used - readings[1].used
      /\ Clean(readings, n) /\ readings[n].sound => Total(part, day) = readings[n].used - readings[1].used

\* A rebuild carries them on over its range, to the last reading.
LEMMA CarriedThrough ==
  ASSUME NEW readings \in Seq(ReadingSet), Len(readings) >= 1, Dated(readings), Faithful(readings),
         NEW now \in Int, readings[Len(readings)].day = now, now <= LastDay,
         NEW since, since = now - Lookback,
         NEW first, first = Opens(readings, since),
         NEW part \in [1..LastDay -> Nat],
         Carried(readings, first, part, since-1),
         \A d \in 1..LastDay : d >= since => part[d] = Added(Counted(Intervals(readings, first)), d),
         \A d \in 1..LastDay : part[d] # 0 => readings[1].day < d
  PROVE  /\ \A d \in since-1..now-1 : Carried(readings, first, part, d)
         /\ AddsUp(readings, part, now)
<1> DEFINE n == Len(readings)
           new == Walk(readings, first)
<1>1. /\ n \in Nat /\ n >= 1 /\ n \in 1..n /\ 1 \in 1..n /\ Lookback \in Nat /\ Lookback >= 1 /\ Anchor \in Nat
      /\ Anchor >= MaxOutage /\ MaxOutage \in Nat /\ since \in Int /\ LastDay \in Nat
  BY ReadingTypes, Windows, Limits, LedgerAssumption
<1>2. \A i \in 1..n : /\ readings[i].day \in Nat /\ readings[i].issued \in Nat /\ readings[i].used \in Nat
                      /\ readings[i].closing \in Nat
  BY ReadingFigures
<1>3. \A i \in 1..n : readings[i].day >= 1
  BY DEF Faithful
<1>4. part \in [1..LastDay -> Int]
  OBVIOUS
<1>5. /\ first \in 1..n+1
      /\ first <= n => readings[first].day >= since - Anchor
      /\ \A i \in 1..n : i < first => readings[i].day < since - Anchor
  BY <1>1, OpensOn
<1> HIDE DEF n, new
<1>6. first \in 1..n
  <2>1. ~(n < first)
    <3>1. readings[n].day = now
      BY DEF n
    <3>2. now >= since - Anchor
      BY <1>1
    <3> QED BY <1>1, <1>5, <3>1, <3>2, SMTT(20)
  <2> QED BY <1>1, <1>5, <2>1
<1>7. first \in Nat /\ first >= 1
  BY <1>6
<1>8. ASSUME NEW i \in 1..n PROVE readings[i].day <= now
  <2>1. n \in i..n
    BY <1>1
  <2>2. n - i <= readings[n].day - readings[i].day
    BY <1>8, <2>1, DaysGoUp DEF n
  <2>3. readings[n].day = now /\ readings[i].day \in Int /\ n - i >= 0 /\ n - i \in Int
    BY <1>1, <1>2, <2>1 DEF n
  <2> QED BY <2>2, <2>3
\* Before the range only a window over all the readings opens.
<1>9. first # 1 => readings[first].day < since
  <2> SUFFICES ASSUME first # 1 PROVE readings[first].day < since
    OBVIOUS
  <2> DEFINE h == first-1
  <2>1. h \in 1..n /\ h < first /\ first \in h..n /\ first - h = 1
    BY <1>1, <1>6
  <2>2. readings[h].day < since - Anchor
    BY <1>5, <2>1
  <2>3. readings[first].day - readings[h].day <= (first-h) * MaxOutage
    BY <2>1, DaysGoUp DEF n
  <2> HIDE DEF h
  <2>4. (first-h) * MaxOutage = MaxOutage
    BY <1>1, <2>1
  <2>5. readings[first].day \in Int /\ readings[h].day \in Int
    BY <1>2, <1>6, <2>1
  <2> QED BY <1>1, <2>2, <2>3, <2>4, <2>5, SMTT(20)
<1>10. ASSUME NEW p \in first+1..n, new[p].last = p, readings[p].day >= since,
              Carried(readings, first, part, readings[p].day - 1)
       PROVE  BookedAt(readings, part, p)
  <2>1. p \in 1..n
    BY <1>1, <1>7
  <2>0. PICK d : d = readings[p].day
    OBVIOUS
  <2>2. d \in 1..LastDay /\ d <= LastDay /\ d >= since
    <3>1. d <= now /\ d >= 1 /\ d \in Nat
      BY <1>2, <1>3, <1>8, <2>0, <2>1
    <3>2. d >= since
      BY <1>10, <2>0
    <3> QED BY <1>1, <3>1, <3>2
  <2>3. part[d] = Added(Counted(Intervals(readings, first)), d)
    BY <2>2
  <2>4. PICK g \in first..p-1 : readings[g].sound
    BY <1>1, <1>6, <1>10, SoundBefore DEF n
  <2>5. p \in first+1..Len(readings) /\ first \in 1..Len(readings) /\ Walk(readings, first)[p].last = p
    BY <1>6, <1>10 DEF n, new
  <2>6. Carried(readings, first, part, d-1) /\ d = readings[p].day
    BY <1>10, <2>0
  <2>7. BookedAt(readings, part, p)
    <3>1. /\ readings \in Seq(ReadingSet) /\ Dated(readings) /\ Faithful(readings)
          /\ part \in [1..LastDay -> Nat] /\ d <= LastDay
      BY <2>2
    <3> QED BY ONLY <2>3, <2>4, <2>5, <2>6, <3>1, Arrived
  <2> QED BY <2>7
<1>11. ASSUME NEW d \in Int, since <= d, d < now, Carried(readings, first, part, d-1)
       PROVE  Carried(readings, first, part, d)
  <2> SUFFICES ASSUME NEW p \in 1..n, NEW q \in 1..n,
                      InARow(readings, first, p, q), readings[p].day <= d, d < readings[q].day
               PROVE  /\ \E a \in 1..p :
                           /\ Anchored(readings, a, p)
                           /\ Total(part, d) <= readings[a].used - readings[1].used + OwedTo(readings, p, q, d)
                      /\ Record(readings, p) /\ Clean(readings, p) /\ (readings[p].day < d => Clean(readings, q)) =>
                           Total(part, d) = readings[p].issued - readings[1].issued + OwedTo(readings, p, q, d)
    BY DEF Carried, n
  <2>1. /\ p \in first..q-1 /\ new[p].last = p /\ first <= p /\ p < q /\ p \in Nat /\ q \in Nat
    <3>1. p \in first..q-1 /\ new[p].last = p
      BY DEF InARow, new
    <3> QED BY <1>1, <1>7, <3>1
  <2> DEFINE w == readings[p].day
             e == readings[q].day
  <2>2. w \in Nat /\ w >= 1 /\ w <= d /\ e \in Nat /\ d < e
    BY <1>2, <1>3
  <2>3. d \in 1..LastDay /\ d \in Nat /\ d - 1 \in 0..LastDay
    <3> HIDE DEF w, e
    <3> QED BY <1>1, <1>11, <2>2
  <2>4. CASE w < d
    <3> DEFINE x == Gained(readings, p, q)
               m == e - w
               k == d - w
               add == Added(Counted(Intervals(readings, first)), d)
               before == Total(part, d-1)
               total == Total(part, d)
               owed == OwedTo(readings, p, q, d)
               owing == OwedTo(readings, p, q, d-1)
    <3>1. /\ \E a \in 1..p : /\ Anchored(readings, a, p)
                             /\ before <= readings[a].used - readings[1].used + owing
          /\ Record(readings, p) /\ Clean(readings, p) /\ (readings[p].day < d-1 => Clean(readings, q)) =>
               before = readings[p].issued - readings[1].issued + owing
      <4>1. readings[p].day <= d-1 /\ d-1 < readings[q].day
        <5> HIDE DEF w, e
        <5>1. w <= d-1 /\ d-1 < e
          BY <2>2, <2>3, <2>4
        <5> QED BY <5>1 DEF w, e
      <4> HIDE DEF owing, before
      <4> QED BY <1>11, <4>1 DEF Carried, n, owing, before
    <3>2. /\ k \in 1..m /\ m \in Nat /\ m >= 1 /\ m <= 45
          /\ add \in Nat
          /\ add <= SharesTo(x, m, k) - SharesTo(x, m, k-1)
          /\ readings[q].closing > 0 => add = SharesTo(x, m, k) - SharesTo(x, m, k-1)
      <4>1. /\ readings[p].day < d /\ d <= readings[q].day
            /\ x = Gained(readings, p, q) /\ m = readings[q].day - readings[p].day /\ k = d - readings[p].day
        BY <2>2, <2>4
      <4>2. first \in 1..Len(readings)
        BY <1>6 DEF n
      <4>3. InARow(readings, first, p, q) /\ d \in Int
        BY <1>11, <2>3
      <4> HIDE DEF x, m, k, w, e
      <4> QED BY ONLY readings \in Seq(ReadingSet), Dated(readings), Faithful(readings),
                <4>1, <4>2, <4>3, AddedHere DEF add
    <3>3. owed = SharesTo(x, m, k)
      BY DEF OwedTo
    <3>4. owing = SharesTo(x, m, k-1)
      <4>1. (d-1) - readings[p].day = k-1
        BY <2>2, <2>3
      <4> QED BY <4>1 DEF OwedTo
    <3>5. owed \in Nat /\ owing \in Nat
      <4>1. x \in Nat /\ (x = 0 \/ x >= 1000)
        BY GainedUnits DEF n
      <4>2. k \in 0..m /\ k-1 \in 0..m
        BY <3>2
      <4> HIDE DEF x, m, k, owed, owing
      <4> QED BY <3>2, <3>3, <3>4, <4>1, <4>2, SharesAdd
    <3>6. total = before + add /\ before \in Int
      <4>1. part[d] = add
        BY <1>11, <2>3
      <4> HIDE DEF add
      <4> QED BY <1>1, <1>4, <2>3, <4>1, TotalClimbs
    <3> HIDE DEF x, m, k, w, e, add, before, total, owed, owing
    <3>7. /\ add \in Int /\ add <= owed - owing
          /\ readings[q].closing > 0 => add = owed - owing
      BY <3>2, <3>3, <3>4
    <3>8. PICK a \in 1..p : Anchored(readings, a, p) /\ before <= readings[a].used - readings[1].used + owing
      BY <3>1
    <3> DEFINE ua == readings[a].used
               u1 == readings[1].used
    <3>9. ua \in Int /\ u1 \in Int
      <4>1. a \in 1..n
        BY <1>1, <2>1
      <4> QED BY <1>1, <1>2, <4>1, SMTT(20)
    <3>10. before <= ua - u1 + owing
      BY <3>8
    <3> HIDE DEF ua, u1
    <3>11. total <= ua - u1 + owed
      BY ONLY <3>5, <3>6, <3>7, <3>9, <3>10
    <3>12. ASSUME Record(readings, p), Clean(readings, p), readings[p].day < d => Clean(readings, q)
           PROVE  total = readings[p].issued - readings[1].issued + owed
      <4>1. Clean(readings, q) /\ readings[q].closing > 0
        <5>1. Clean(readings, q) /\ q \in 1..q
          BY <2>1, <2>4, <3>12 DEF w
        <5> QED BY <5>1 DEF Clean
      <4>2. before = readings[p].issued - readings[1].issued + owing
        BY <3>1, <3>12, <4>1
      <4>3. add = owed - owing
        BY <3>7, <4>1
      <4>4. readings[p].issued \in Int /\ readings[1].issued \in Int
        BY <1>1, <1>2
      <4> QED BY ONLY <3>5, <3>6, <4>2, <4>3, <4>4
    <3> QED BY <3>8, <3>11, <3>12 DEF ua, u1, total, owed
  <2>5. CASE w = d
    <3>1. OwedTo(readings, p, q, d) = 0
      BY <1>6, <2>5, OwedNothing DEF n
    <3>2. CASE p = first
      <4>1. p = 1
        <5>1. ~(readings[first].day < since)
          <6> HIDE DEF w, e
          <6>1. ~(w < since)
            BY <1>1, <1>11, <2>2, <2>5
          <6> QED BY <3>2, <6>1 DEF w
        <5> QED BY <1>9, <3>2, <5>1
      <4>2. Total(part, d) = 0
        <5>1. \A k \in 0+1..d : part[k] = 0
          <6>1. readings[1].day = d
            BY <2>5, <4>1
          <6>2. \A k \in 0+1..d : k \in 1..LastDay /\ ~(d < k)
            BY ONLY <2>3, <1>1
          <6> QED BY <6>1, <6>2
        <5>2. 0 \in 0..LastDay /\ d \in 0..LastDay
          BY ONLY <2>3, <1>1
        <5>3. Total(part, d) = Total(part, 0)
          BY <1>1, <1>4, <5>1, <5>2, TotalRests
        <5> QED BY <1>1, <1>4, <5>3, TotalClimbs
      <4>3. Anchored(readings, 1, 1)
        <5>1. readings[1].sound
          BY <1>1 DEF Faithful, n
        <5>2. readings[1].issued \in Nat
          BY <1>1, <1>2
        <5> QED BY <5>1, <5>2 DEF Anchored
      <4>4. readings[1].used \in Nat /\ readings[1].issued \in Nat
        BY <1>1, <1>2
      <4>5. 0 <= readings[1].used - readings[1].used + 0 /\ 0 = readings[1].issued - readings[1].issued + 0
        BY <4>4
      <4>6. 1 \in 1..p
        BY <4>1
      <4> QED BY <3>1, <4>1, <4>2, <4>3, <4>5, <4>6
    <3>3. CASE p # first
      <4>1. p \in first+1..n
        BY <1>1, <1>7, <2>1, <3>3
      <4>2. /\ \E c \in 1..p : /\ Anchored(readings, c, p)
                               /\ Total(part, readings[p].day) <= readings[c].used - readings[1].used
            /\ Record(readings, p) /\ Clean(readings, p) =>
                 Total(part, readings[p].day) = readings[p].issued - readings[1].issued
        <5>1. readings[p].day = d
          BY <2>5
        <5>2. readings[p].day >= since /\ Carried(readings, first, part, readings[p].day - 1)
          BY <1>11, <5>1
        <5> QED BY <1>10, <2>1, <4>1, <5>2 DEF BookedAt
      <4>3. PICK c \in 1..p : /\ Anchored(readings, c, p)
                              /\ Total(part, d) <= readings[c].used - readings[1].used
        BY <2>5, <4>2
      <4>4. c \in 1..n /\ p \in 1..n
        BY <1>1, <2>1
      <4>5. readings[c].used \in Int /\ readings[1].used \in Int /\ readings[p].issued \in Int /\ readings[1].issued \in Int
        BY <1>1, <1>2, <4>4, SMTT(20)
      <4>6. /\ readings[c].used - readings[1].used + 0 = readings[c].used - readings[1].used
            /\ readings[p].issued - readings[1].issued + 0 = readings[p].issued - readings[1].issued
        BY ONLY <4>5
      <4> QED BY <2>5, <3>1, <4>2, <4>3, <4>6
    <3> QED BY <3>2, <3>3
  <2> QED BY <2>2, <2>4, <2>5
<1> DEFINE Good == {k \in 0..Lookback : Carried(readings, first, part, (since-1)+k)}
<1>12. 0 \in Good
  <2>1. (since-1)+0 = since-1 /\ 0 \in 0..Lookback
    BY <1>1
  <2> QED BY <2>1
<1>13. ASSUME NEW k \in 1..Lookback, k-1 \in Good PROVE k \in Good
  <2> DEFINE d == (since-1)+k
  <2>1. d \in Int /\ since <= d /\ d < now /\ d-1 = (since-1)+(k-1) /\ k \in 0..Lookback
    BY <1>1
  <2>2. Carried(readings, first, part, (since-1)+(k-1))
    BY <1>13
  <2> HIDE DEF d
  <2>3. Carried(readings, first, part, d)
    BY <1>11, <2>1, <2>2
  <2> QED BY <2>1, <2>3 DEF d
<1>14. 0..Lookback \subseteq Good
  <2> HIDE DEF Good
  <2> QED BY <1>1, <1>12, <1>13, Climb
<1>15. ASSUME NEW d \in since-1..now-1 PROVE Carried(readings, first, part, d)
  <2>1. d-(since-1) \in 0..Lookback /\ (since-1)+(d-(since-1)) = d
    BY <1>1
  <2>2. d-(since-1) \in Good
    BY <1>14, <2>1
  <2> QED BY <2>1, <2>2
<1> HIDE DEF Good
<1>16. now \in 1..LastDay /\ now-1 \in since-1..now-1 /\ since <= now
  <2>1. readings[n].day = now /\ readings[n].day >= 1
    BY <1>1, <1>3 DEF n
  <2> QED BY <1>1, <2>1
<1> DEFINE total == Total(part, now)
           un == readings[n].used
           u1 == readings[1].used
<1>17. un \in Nat /\ u1 \in Nat
  BY <1>1, <1>2
<1>18. CASE n = first
  <2>1. first = 1
    <3>1. ~(readings[first].day < since)
      BY <1>1, <1>16, <1>18 DEF n
    <3> QED BY <1>9, <3>1
  <2>2. total = 0
    <3>1. readings[1].day = now
      BY <1>18, <2>1 DEF n
    <3>2. \A k \in 0+1..now : part[k] = 0
      <4>1. \A k \in 0+1..now : k \in 1..LastDay /\ ~(now < k)
        BY ONLY <1>1, <1>16
      <4> QED BY <3>1, <4>1
    <3>3. 0 \in 0..LastDay /\ now \in 0..LastDay
      BY ONLY <1>1, <1>16
    <3>4. Total(part, now) = Total(part, 0)
      BY <1>1, <1>4, <3>2, <3>3, TotalRests
    <3> QED BY <1>1, <1>4, <3>4, TotalClimbs
  <2>3. un = u1
    BY <1>18, <2>1
  <2> HIDE DEF total, un, u1
  <2>4. total <= un - u1 /\ total = un - u1
    BY <1>17, <2>2, <2>3
  <2> QED BY <1>15, <2>4 DEF total, un, u1, n, AddsUp
<1>19. CASE n # first
  <2>1. n \in first+1..n /\ readings[n].day = now
    BY <1>1, <1>6, <1>19 DEF n
  <2>2. new[n].last = n
    BY <1>6, WalkEnds DEF n, new
  <2>3. Carried(readings, first, part, readings[n].day - 1)
    BY <1>15, <1>16, <2>1
  <2>4. /\ \E c \in 1..n : Anchored(readings, c, n) /\ total <= readings[c].used - readings[1].used
        /\ Record(readings, n) /\ Clean(readings, n) =>
             total = readings[n].issued - readings[1].issued
    BY <1>10, <1>16, <2>1, <2>2, <2>3 DEF BookedAt
  <2>5. PICK c \in 1..n : total <= readings[c].used - readings[1].used
    BY <2>4
  <2>6. readings[c].used <= un
    <3>1. CASE c = n
      BY <1>17, <3>1
    <3>2. CASE c < n
      BY <1>1, <3>2 DEF Faithful, n
    <3> QED BY <1>1, <3>1, <3>2
  <2>7. total \in Int /\ readings[c].used \in Int
    <3>1. total \in Int
      <4>1. now \in 0..LastDay
        BY <1>16
      <4> QED BY <1>1, <1>4, <4>1, TotalClimbs
    <3> QED BY <1>2, <3>1
  <2>8. ASSUME Clean(readings, n), readings[n].sound
        PROVE  total = un - u1
    <3>1. Record(readings, n)
      <4>1. n \in 1..n
        BY <1>1
      <4> QED BY <2>8, <4>1, CleanFigures DEF n
    <3>2. readings[n].issued = un
      BY <1>1, <2>8 DEF Clean
    <3>3. readings[1].issued = u1
      <4>1. readings[1].sound
        BY <1>1 DEF Faithful, n
      <4> QED BY <1>1, <2>8, <4>1 DEF Clean
    <3> QED BY <2>4, <2>8, <3>1, <3>2, <3>3
  <2> HIDE DEF total, un
  <2>9. total <= un - u1
    <3> DEFINE uc == readings[c].used
    <3>1. total <= uc - u1 /\ uc <= un /\ uc \in Int /\ total \in Int
      BY <2>5, <2>6, <2>7
    <3> HIDE DEF uc, u1
    <3> QED BY <1>17, <3>1
  <2> QED BY <1>15, <2>8, <2>9 DEF total, un, n, AddsUp
<1> QED BY <1>18, <1>19

-----------------------------------------------------------------------------
(* The sheet and its readings. *)

\* The figures of the sheet follow those of the readings taken of it.
UpToDate(readings, issued, used) ==
  /\ issued % 1000 = 0
  /\ \A i \in 1..Len(readings) :
       /\ readings[i].used <= used
       /\ readings[i].sound => Tallies(readings, i, issued, used)

LEMMA SheetFollows ==
  ASSUME NEW readings \in Seq(ReadingSet), NEW issued \in Nat, NEW used \in Nat,
         UpToDate(readings, issued, used)
  PROVE  /\ UpToDate(readings, 0, used)
         /\ \A q \in Nat : q % 1000 = 0 => UpToDate(readings, issued + q, used + q)
<1>1. \A i \in 1..Len(readings) : readings[i].issued \in Nat /\ readings[i].used \in Nat
  BY ReadingFigures
<1>2. issued % 1000 = 0
  BY DEF UpToDate
<1>3. ASSUME NEW i \in 1..Len(readings)
      PROVE  /\ readings[i].used <= used
             /\ readings[i].sound => Tallies(readings, i, 0, used)
             /\ \A q \in Nat : /\ readings[i].used <= used + q
                               /\ readings[i].sound => Tallies(readings, i, issued + q, used + q)
  <2> DEFINE x == readings[i].issued
             y == readings[i].used
  <2>1. x \in Nat /\ y \in Nat
    BY <1>1
  <2>2. y <= used /\ (readings[i].sound => issued - x = used - y \/ issued <= used - y)
    BY DEF UpToDate, Tallies
  <2>3. \A q \in Nat : Tallies(readings, i, issued+q, used+q)
                         <=> (issued+q) - x = (used+q) - y \/ issued+q <= (used+q) - y
    BY DEF Tallies
  <2>4. Tallies(readings, i, 0, used) <=> 0 - x = used - y \/ 0 <= used - y
    BY DEF Tallies
  <2> HIDE DEF x, y
  <2>5. 0 <= used - y /\ \A q \in Nat : y <= used + q
    BY <2>1, <2>2
  <2>6. ASSUME NEW q \in Nat, readings[i].sound
        PROVE  (issued+q) - x = (used+q) - y \/ issued+q <= (used+q) - y
    <3>1. issued - x = used - y \/ issued <= used - y
      BY <2>2, <2>6
    <3>2. CASE issued - x = used - y
      BY <2>1, <3>2
    <3>3. CASE issued <= used - y
      BY <2>1, <3>3
    <3> QED BY <3>1, <3>2, <3>3
  <2> QED BY <2>2, <2>3, <2>4, <2>5, <2>6 DEF y
<1>4. ASSUME NEW q \in Nat, q % 1000 = 0 PROVE (issued+q) % 1000 = 0
  BY <1>2, <1>4
<1>5. 0 % 1000 = 0
  OBVIOUS
<1>6. UpToDate(readings, 0, used)
  BY <1>3, <1>5 DEF UpToDate
<1>7. ASSUME NEW q \in Nat, q % 1000 = 0 PROVE UpToDate(readings, issued+q, used+q)
  <2>1. ASSUME NEW i \in 1..Len(readings)
        PROVE  readings[i].used <= used+q /\ (readings[i].sound => Tallies(readings, i, issued+q, used+q))
    BY <1>3
  <2>2. (issued+q) % 1000 = 0
    BY <1>4, <1>7
  <2> DEFINE x == issued+q
             y == used+q
  <2> HIDE DEF x, y
  <2>3. x % 1000 = 0 /\ \A i \in 1..Len(readings) :
          readings[i].used <= y /\ (readings[i].sound => Tallies(readings, i, x, y))
    BY <2>1, <2>2 DEF x, y
  <2>4. UpToDate(readings, x, y)
    BY <2>3 DEF UpToDate
  <2> QED BY <2>4 DEF x, y
<1> QED BY <1>6, <1>7

\* The readings before the day of r.
LEMMA EarlierReadings ==
  ASSUME NEW readings \in Seq(ReadingSet), NEW r,
         NEW earlier,
         earlier = IF readings # <<>> /\ Last(readings).day = r.day THEN Front(readings) ELSE readings
  PROVE  /\ earlier \in Seq(ReadingSet)
         /\ Len(earlier) \in Nat /\ Len(earlier) <= Len(readings) /\ Len(readings) <= Len(earlier)+1
         /\ \A i \in 1..Len(earlier) : earlier[i] = readings[i]
<1> DEFINE n == Len(readings)
<1>1. n \in Nat /\ (readings # <<>> <=> n >= 1) /\ \A i \in 1..n : readings[i] \in ReadingSet
  BY ReadingTypes
<1>2. CASE readings # <<>> /\ Last(readings).day = r.day
  <2>1. earlier = SubSeq(readings, 1, n-1)
    BY <1>2 DEF Front
  <2>2. n-1 \in Nat /\ n >= 1 /\ n-1 <= n
    BY <1>1, <1>2
  <2>3. SubSeq(readings, 1, n-1) \in Seq(ReadingSet)
    BY <1>1, <2>2
  <2>4. \A i \in 1..n-1 : readings[i] \in ReadingSet
    BY <1>1
  <2>5. \A i \in 1..n-1 : SubSeq(readings, 1, n-1)[i] = readings[i]
    BY <1>1, <2>2
  <2> DEFINE k == n-1
  <2> HIDE DEF n
  <2>6. k \in Nat /\ n = k+1
    BY <1>1, <2>2
  <2> HIDE DEF k
  <2>7. k \in Int /\ 1 \in Int /\ \A i \in 1..k : readings[i] \in ReadingSet
    BY <2>4, <2>6 DEF k
  <2>8. Len(SubSeq(readings, 1, k)) = IF 1 <= k THEN k-1+1 ELSE 0
    BY <2>7, SubSeqProperties
  <2>9. Len(SubSeq(readings, 1, k)) = k
    BY <2>6, <2>8
  <2>10. /\ earlier = SubSeq(readings, 1, k) /\ SubSeq(readings, 1, k) \in Seq(ReadingSet)
         /\ \A i \in 1..k : SubSeq(readings, 1, k)[i] = readings[i]
    BY <2>1, <2>3, <2>5 DEF k
  <2> QED BY <2>6, <2>9, <2>10 DEF n
<1>3. CASE ~(readings # <<>> /\ Last(readings).day = r.day)
  BY <1>1, <1>3
<1> QED BY <1>2, <1>3

\* The next reading of the sheet, broken or not, leaves the readings faithful.
LEMMA FaithfulGrows ==
  ASSUME NEW readings \in Seq(ReadingSet), Faithful(readings),
         NEW issued \in Nat, NEW used \in Nat, UpToDate(readings, issued, used),
         NEW r \in ReadingSet, r.day >= 1, r.used = used,
         r.issued = IF r.sound THEN issued ELSE 0,
         NEW earlier,
         earlier = IF readings # <<>> /\ Last(readings).day = r.day THEN Front(readings) ELSE readings,
         ~r.sound => \E i \in 1..Len(earlier) : i > Len(earlier) - MaxBrokenRun /\ earlier[i].sound,
         NEW later, later = Append(earlier, r)
  PROVE  /\ Faithful(later)
         /\ UpToDate(later, issued, used)
         /\ \A i \in 1..Len(readings) : i <= Len(later) /\ readings[i].used <= later[i].used
<1> DEFINE n == Len(readings)
           m == Len(earlier)
           B == MaxBrokenRun
<1>1. n \in Nat /\ B \in Nat /\ B >= 1 /\ \A i \in 1..n : readings[i] \in ReadingSet
  BY ReadingTypes, Limits
<1>2. /\ earlier \in Seq(ReadingSet) /\ m \in Nat /\ m <= n /\ n <= m+1
      /\ \A i \in 1..m : earlier[i] = readings[i]
  BY EarlierReadings
<1>3. /\ later \in Seq(ReadingSet) /\ Len(later) = m+1 /\ later[m+1] = r
      /\ \A i \in 1..m : later[i] = readings[i]
  BY <1>2
<1>4. \A i \in 1..n : /\ readings[i].issued \in Nat /\ readings[i].used \in Nat
                      /\ readings[i].day >= 1 /\ readings[i].issued % 1000 = 0
                      /\ ~readings[i].sound => readings[i].issued = 0
                      /\ readings[i].used <= used
                      /\ readings[i].sound => Tallies(readings, i, issued, used)
  BY ReadingFigures DEF Faithful, UpToDate
<1>5. issued % 1000 = 0 /\ 0 % 1000 = 0
  BY DEF UpToDate
<1> HIDE DEF n, m, B
<1>6. \A i \in 1..m+1 : (i \in 1..m /\ i \in 1..n) \/ i = m+1
  BY <1>1, <1>2
<1>7. 1 <= Len(later) => later[1].sound
  <2>1. CASE m = 0
    <3>1. r.sound
      <4> SUFFICES ASSUME ~r.sound PROVE FALSE
        BY DEF ReadingSet
      <4>1. PICK i \in 1..m : TRUE
        BY DEF m
      <4> QED BY <2>1, <4>1
    <3> QED BY <1>3, <2>1, <3>1
  <2>2. CASE m # 0
    <3>1. 1 \in 1..m /\ 1 <= n
      BY <1>1, <1>2, <2>2
    <3> QED BY <1>3, <3>1 DEF Faithful, n
  <2> QED BY <2>1, <2>2
<1> DEFINE Whole(x) == /\ x.day >= 1
                       /\ x.issued % 1000 = 0
                       /\ ~x.sound => x.issued = 0
                       /\ x.used <= used
<1>8. ASSUME NEW i \in 1..m+1
      PROVE  Whole(later[i])
  <2>1. CASE i \in 1..m /\ i \in 1..n
    <3>1. later[i] = readings[i]
      BY <1>3, <2>1
    <3>2. Whole(readings[i])
      BY <1>4, <2>1
    <3> HIDE DEF Whole
    <3> QED BY <3>1, <3>2
  <2>2. CASE i = m+1
    <3>1. later[i] = r
      BY <1>3, <2>2
    <3>2. r.issued % 1000 = 0
      <4>1. CASE r.sound
        BY <1>5, <4>1
      <4>2. CASE ~r.sound
        BY <1>5, <4>2
      <4> QED BY <4>1, <4>2
    <3>3. r.used <= used /\ r.day >= 1 /\ (~r.sound => r.issued = 0)
      OBVIOUS
    <3>4. Whole(r)
      BY <3>2, <3>3
    <3> HIDE DEF Whole
    <3> QED BY <3>1, <3>4
  <2> QED BY <1>6, <2>1, <2>2
<1>9. ASSUME NEW i \in 1..m+1, i + B <= m+1
      PROVE  \E j \in i..i+B : later[j].sound
  <2>1. CASE i + B <= m
    <3>1. i \in 1..n /\ i + B <= n
      BY <1>1, <1>2, <2>1
    <3>2. PICK j \in i..i+B : readings[j].sound
      BY <3>1 DEF Faithful, n, B
    <3>3. j \in 1..m
      BY <1>1, <1>2, <2>1
    <3> QED BY <1>3, <3>2, <3>3
  <2>2. CASE i + B = m+1
    <3>1. CASE r.sound
      <4>1. m+1 \in i..i+B
        BY <1>1, <1>2, <2>2
      <4> QED BY <1>3, <3>1, <4>1
    <3>2. CASE ~r.sound
      <4>1. PICK j \in 1..m : j > m - B /\ earlier[j].sound
        BY <3>2 DEF m, B
      <4>2. j \in i..i+B
        BY <1>1, <1>2, <2>2, <4>1
      <4> QED BY <1>2, <1>3, <4>1, <4>2
    <3> QED BY <3>1, <3>2
  <2>3. i + B <= m \/ i + B = m+1
    <3>1. i \in Int /\ m \in Int /\ B \in Int
      BY <1>1, <1>2
    <3> QED BY <1>9, <3>1
  <2> QED BY <2>1, <2>2, <2>3
<1>10. ASSUME NEW i \in 1..m+1, later[i].sound PROVE Tallies(later, i, issued, used)
  <2>1. CASE i \in 1..m /\ i \in 1..n
    BY <1>3, <1>4, <1>10, <2>1 DEF Tallies
  <2>2. CASE i = m+1
    <3>1. later[i].issued = issued /\ later[i].used = used
      BY <1>3, <1>10, <2>2
    <3>2. issued - issued = used - used
      OBVIOUS
    <3> QED BY <3>1, <3>2 DEF Tallies
  <2> QED BY <1>6, <2>1, <2>2
<1>11. ASSUME NEW i \in 1..m+1, NEW j \in 1..m+1, i < j
       PROVE  /\ later[i].used <= later[j].used
              /\ later[i].sound /\ later[j].sound => Tallies(later, i, later[j].issued, later[j].used)
  <2>1. i \in 1..m /\ i \in 1..n
    BY <1>1, <1>2, <1>11
  <2>2. CASE j \in 1..m /\ j \in 1..n
    <3>1. /\ readings[i].used <= readings[j].used
          /\ readings[i].sound /\ readings[j].sound =>
               Tallies(readings, i, readings[j].issued, readings[j].used)
      BY <1>11, <2>1, <2>2 DEF Faithful, n
    <3>2. later[i] = readings[i] /\ later[j] = readings[j]
      BY <1>3, <2>1, <2>2
    <3> QED BY <3>1, <3>2 DEF Tallies
  <2>3. CASE j = m+1
    <3>1. later[j] = r /\ (r.sound => r.issued = issued) /\ r.used = used
      BY <1>3, <2>3
    <3>2. later[i].used <= used
      BY <1>8
    <3>3. later[i].sound => Tallies(later, i, issued, used)
      BY <1>10
    <3> QED BY <3>1, <3>2, <3>3
  <2> QED BY <1>6, <2>2, <2>3
<1>12. ASSUME NEW i \in 1..n PROVE i <= Len(later) /\ readings[i].used <= later[i].used
  <2>1. i <= m+1 /\ (i \in 1..m \/ i = m+1)
    BY <1>1, <1>2
  <2>2. readings[i].used <= used /\ readings[i].used \in Nat
    BY <1>4
  <2>3. CASE i \in 1..m
    BY <1>3, <2>1, <2>2, <2>3, SMTT(20)
  <2>4. CASE i = m+1
    BY <1>3, <2>1, <2>2, <2>4
  <2> QED BY <2>1, <2>3, <2>4
<1>13. Faithful(later)
  <2>1. \A i \in 1..Len(later) :
          /\ later[i].day >= 1
          /\ later[i].issued % 1000 = 0
          /\ ~later[i].sound => later[i].issued = 0
    BY <1>3, <1>8
  <2>2. \A i \in 1..Len(later) : i + MaxBrokenRun <= Len(later) => \E j \in i..i+MaxBrokenRun : later[j].sound
    BY <1>3, <1>9 DEF B
  <2>3. \A i, j \in 1..Len(later) : i < j =>
          /\ later[i].used <= later[j].used
          /\ later[i].sound /\ later[j].sound => Tallies(later, i, later[j].issued, later[j].used)
    BY <1>3, <1>11
  <2> HIDE DEF Whole
  <2> QED BY ONLY <1>7, <2>1, <2>2, <2>3 DEF Faithful
<1>14. UpToDate(later, issued, used)
  BY <1>3, <1>5, <1>8, <1>10 DEF UpToDate
<1> QED BY <1>12, <1>13, <1>14 DEF n

-----------------------------------------------------------------------------
(* The rows of one lot. *)

\* What a lot adds to the day of a row is a number, and nothing outside its
\* readings.
LEMMA AddedWithin ==
  ASSUME NEW readings \in Seq(ReadingSet), Dated(readings), Faithful(readings),
         NEW first \in 1..Len(readings), NEW d \in Int
  PROVE  /\ Added(Counted(Intervals(readings, first)), d) \in Nat
         /\ Added(Counted(Intervals(readings, first)), d) # 0 =>
              readings[1].day < d /\ d <= readings[Len(readings)].day
<1> DEFINE n == Len(readings)
<1>1. n \in Nat /\ \A i \in 1..n : readings[i].day \in Int
  BY ReadingTypes
<1>2. CASE \E p, q \in 1..n : InARow(readings, first, p, q) /\ readings[p].day < d /\ d <= readings[q].day
  <2>1. PICK p \in 1..n, q \in 1..n :
          InARow(readings, first, p, q) /\ readings[p].day < d /\ d <= readings[q].day
    BY <1>2
  <2> DEFINE x == Gained(readings, p, q)
             m == readings[q].day - readings[p].day
             k == d - readings[p].day
  <2>2. x = Gained(readings, p, q) /\ m = readings[q].day - readings[p].day /\ k = d - readings[p].day
    OBVIOUS
  <2> HIDE DEF x, m, k
  <2>3. Added(Counted(Intervals(readings, first)), d) \in Nat
    BY <2>1, <2>2, AddedHere
  <2>4. 1 \in 1..n /\ p \in 1..n /\ q \in 1..n /\ n \in q..n /\ p \in Nat /\ q \in Nat
    BY <1>1
  <2>5. p - 1 <= readings[p].day - readings[1].day
    BY <2>4, DaysGoUp
  <2>6. n - q <= readings[n].day - readings[q].day
    BY <2>4, DaysGoUp
  <2>7. /\ readings[p].day \in Int /\ readings[1].day \in Int /\ readings[q].day \in Int /\ readings[n].day \in Int
        /\ p - 1 >= 0 /\ n - q >= 0 /\ p - 1 \in Int /\ n - q \in Int
    BY <1>1, <2>4
  <2>8. readings[1].day < d /\ d <= readings[n].day
    <3> DEFINE rp == readings[p].day
               r1 == readings[1].day
               rq == readings[q].day
               rn == readings[n].day
    <3>1. /\ rp \in Int /\ r1 \in Int /\ rq \in Int /\ rn \in Int /\ d \in Int
          /\ p - 1 >= 0 /\ n - q >= 0 /\ p - 1 \in Int /\ n - q \in Int
          /\ p - 1 <= rp - r1 /\ n - q <= rn - rq /\ rp < d /\ d <= rq
      BY <2>1, <2>5, <2>6, <2>7
    <3> HIDE DEF rp, r1, rq, rn
    <3>2. r1 < d /\ d <= rn
      BY ONLY <3>1
    <3> QED BY <3>2 DEF r1, rn
  <2> QED BY <2>3, <2>8
<1>3. CASE ~(\E p, q \in 1..n : InARow(readings, first, p, q) /\ readings[p].day < d /\ d <= readings[q].day)
  <2>1. Added(Counted(Intervals(readings, first)), d) = 0
    BY <1>3, AddedNowhere
  <2> QED BY <2>1
<1> QED BY <1>2, <1>3

\* Of the rows it takes those up to the day.
LEMMA CarriedSame ==
  ASSUME NEW readings \in Seq(ReadingSet), Faithful(readings), NEW first,
         NEW part \in [1..LastDay -> Nat], NEW rest \in [1..LastDay -> Nat],
         NEW d \in Int, d <= LastDay, \A k \in 1..LastDay : k <= d => rest[k] = part[k],
         Carried(readings, first, part, d)
  PROVE  Carried(readings, first, rest, d)
<1>1. LastDay \in Nat
  BY LedgerAssumption
<1>2. d >= 1 => Total(rest, d) = Total(part, d)
  <2> SUFFICES ASSUME d >= 1 PROVE Total(rest, d) = Total(part, d)
    OBVIOUS
  <2>1. d \in 0..LastDay /\ \A k \in 1..d : k \in 1..LastDay /\ k <= d
    BY <1>1
  <2>2. \A k \in 1..d : rest[k] = part[k]
    BY <2>1
  <2>3. part \in [1..LastDay -> Int] /\ rest \in [1..LastDay -> Int]
    OBVIOUS
  <2> QED BY <1>1, <2>1, <2>2, <2>3, TotalSoFar
<1>3. \A p \in 1..Len(readings) : readings[p].day <= d => d >= 1
  <2>1. \A p \in 1..Len(readings) : readings[p].day \in Int /\ readings[p].day >= 1
    BY ReadingTypes DEF Faithful
  <2> QED BY <2>1
<1> QED BY <1>2, <1>3 DEF Carried

\* The readings the last rebuild, of day last, had of the lot say what the rows
\* hold; they are those there are now unless a stale reading has come in.
Explained(readings, others, part, last, stale) ==
  LET n == Len(others)
  IN  /\ Grown(others, readings)
      /\ others[n].day = last
      /\ Faithful(others)
      /\ others[n].used <= readings[n].used
      /\ stale \/ others = readings
      /\ \A d \in last-Lookback-1..last-1 : Carried(others, Opens(others, last-Lookback), part, d)
      /\ AddsUp(others, part, last)

RowsOf(readings, part, last, stale) ==
  /\ \A d \in 1..LastDay : part[d] # 0 => last # 0 /\ readings[1].day < d /\ d <= last
  /\ last # 0 => \E others \in Seq(ReadingSet) : Explained(readings, others, part, last, stale)

\* A reading that comes in leaves the rows as they were.
LEMMA RowsGrow ==
  ASSUME NEW readings \in Seq(ReadingSet), NEW later \in Seq(ReadingSet), NEW part, NEW last, NEW stale,
         RowsOf(readings, part, last, stale),
         last # 0 => later[1].day = readings[1].day,
         \A others \in Seq(ReadingSet) : Grown(others, readings) => Grown(others, later),
         \A i \in 1..Len(readings) : readings[i].used <= later[i].used
  PROVE  RowsOf(later, part, last, TRUE)
<1>1. \A d \in 1..LastDay : part[d] # 0 => last # 0 /\ later[1].day < d /\ d <= last
  BY DEF RowsOf
<1>2. ASSUME last # 0 PROVE \E others \in Seq(ReadingSet) : Explained(later, others, part, last, TRUE)
  <2>1. PICK others \in Seq(ReadingSet) : Explained(readings, others, part, last, stale)
    BY <1>2 DEF RowsOf
  <2> DEFINE n == Len(others)
  <2>2. Grown(others, readings) /\ others[n].used <= readings[n].used
    BY <2>1 DEF Explained
  <2>3. n \in 1..Len(readings) /\ n \in 1..n
    <3>1. n \in Nat /\ n \in 1..Len(readings)
      BY <2>2, ReadingTypes DEF Grown
    <3> QED BY <3>1
  <2>4. Grown(others, later) /\ n \in 1..Len(later)
    <3>1. Grown(others, later)
      BY <2>2
    <3> QED BY <3>1 DEF Grown
  <2>5. others[n].used <= later[n].used
    <3>1. readings[n].used <= later[n].used
      BY <2>3
    <3>2. others[n].used \in Nat /\ readings[n].used \in Nat /\ later[n].used \in Nat
      BY <2>3, <2>4, ReadingFigures
    <3> QED BY <2>2, <3>1, <3>2
  <2>6. Explained(later, others, part, last, TRUE)
    BY <2>1, <2>4, <2>5 DEF Explained
  <2> QED BY <2>6
<1> QED BY <1>1, <1>2 DEF RowsOf

\* What a rebuild makes of the rows of a lot.
Renewed(readings, part, since) ==
  [d \in 1..LastDay |->
     IF d < since THEN part[d]
     ELSE Added(Counted(Intervals(readings, Opens(readings, since))), d)]

\* A rebuild writes the rows of its range, and all of them still say no more
\* than was used: just that while the books are clean.
LEMMA RowsRebuilt ==
  ASSUME NEW readings \in Seq(ReadingSet), Len(readings) >= 1, Dated(readings), Faithful(readings),
         NEW part \in [1..LastDay -> Nat], NEW last \in Nat, NEW stale,
         RowsOf(readings, part, last, stale),
         NEW now \in Int, readings[Len(readings)].day = now, now <= LastDay,
         IF last = 0 THEN now <= MaxOutage \/ readings[1].day = now ELSE now - last <= MaxOutage,
         NEW since, since = now - Lookback,
         NEW rest, rest = Renewed(readings, part, since)
  PROVE  rest \in [1..LastDay -> Nat] /\ RowsOf(readings, rest, now, FALSE)
<1> DEFINE n == Len(readings)
           first == Opens(readings, since)
<1>1. /\ n \in Nat /\ n >= 1 /\ n \in 1..n /\ 1 \in 1..n /\ Lookback \in Nat /\ Lookback >= MaxOutage
      /\ Anchor \in Nat /\ MaxOutage \in Nat /\ MaxOutage >= 1 /\ since \in Int /\ LastDay \in Nat
  BY ReadingTypes, Windows, Limits, LedgerAssumption
<1>2. \A i \in 1..n : readings[i].day \in Int /\ readings[i].day >= 1
  BY ReadingTypes DEF Faithful
<1>3. first \in 1..n
  <2>1. /\ first \in 1..n+1
        /\ \A i \in 1..n : i < first => readings[i].day < since - Anchor
    BY <1>1, OpensOn
  <2> HIDE DEF first, n
  <2>2. readings[n].day = now
    BY DEF n
  <2>3. ~(n < first)
    BY <1>1, <2>1, <2>2
  <2> QED BY <1>1, <2>1, <2>3
<1> DEFINE fresh(d) == Added(Counted(Intervals(readings, first)), d)
<1>4. \A d \in Int : fresh(d) \in Nat /\ (fresh(d) # 0 => readings[1].day < d /\ d <= now)
  <2> HIDE DEF first
  <2> QED BY <1>3, AddedWithin
<1>5. rest = [d \in 1..LastDay |-> IF d < since THEN part[d] ELSE fresh(d)]
  BY DEF Renewed
<1> HIDE DEF n, fresh
<1>6. rest \in [1..LastDay -> Nat]
  BY <1>4, <1>5
<1>7. \A d \in 1..LastDay : rest[d] = IF d < since THEN part[d] ELSE fresh(d)
  BY <1>5
<1>8. now >= 1 /\ last <= now
  <2>1. now >= 1
    BY <1>1, <1>2 DEF n
  <2>2. CASE last = 0
    BY <2>1, <2>2
  <2>3. CASE last # 0
    <3>1. PICK others \in Seq(ReadingSet) : Explained(readings, others, part, last, stale)
      BY <2>3 DEF RowsOf
    <3>2. Followed(others, readings, now)
      BY <2>3, <3>1 DEF Explained, Followed
    <3> QED BY <2>1, <3>1, <3>2, FollowedFacts DEF Explained
  <2> QED BY <2>1, <2>2, <2>3
<1>9. ASSUME NEW d \in 1..LastDay, rest[d] # 0
      PROVE  readings[1].day < d /\ d <= now
  <2>1. CASE d < since
    <3>1. part[d] # 0
      BY <1>7, <1>9, <2>1
    <3>2. readings[1].day < d /\ d <= last
      BY <3>1 DEF RowsOf
    <3> QED BY <1>8, <3>2
  <2>2. CASE ~(d < since)
    <3>1. fresh(d) # 0
      BY <1>7, <1>9, <2>2
    <3> QED BY <1>4, <3>1
  <2> QED BY <2>1, <2>2
<1>10. Carried(readings, first, rest, since-1)
  <2>1. CASE last = 0
    <3>1. \A p \in 1..n : ~(readings[p].day <= since-1)
      <4> SUFFICES ASSUME NEW p \in 1..n PROVE readings[p].day >= since
        BY <1>1, <1>2
      <4>1. CASE now <= MaxOutage
        BY <1>1, <1>2, <4>1
      <4>2. CASE readings[1].day = now
        <5>1. p \in 1..n /\ 1 \in 1..n /\ p \in Nat /\ p >= 1
          BY <1>1
        <5>2. p - 1 <= readings[p].day - readings[1].day
          BY <5>1, DaysGoUp DEF n
        <5>3. p - 1 >= 0 /\ p - 1 \in Int /\ readings[p].day \in Int
          BY <1>2, <5>1
        <5> QED BY <1>1, <4>2, <5>2, <5>3
      <4> QED BY <2>1, <4>1, <4>2
    <3> QED BY <3>1 DEF Carried, n
  <2>2. CASE last # 0
    <3>1. PICK others \in Seq(ReadingSet) : Explained(readings, others, part, last, stale)
      BY <2>2 DEF RowsOf
    <3>2. Followed(others, readings, now)
      BY <2>2, <3>1 DEF Explained, Followed
    <3> DEFINE early == Opens(others, last - Lookback)
               d == since-1
    <3>3. d \in last-Lookback-1..last-1 /\ d \in Int
      BY <1>1, <1>8, <2>2
    <3>4. Carried(others, early, part, d)
      <4> HIDE DEF d, early
      <4> QED BY <3>1, <3>3 DEF Explained, early
    <3>5. others[Len(others)].day = last /\ Faithful(others)
      BY <3>1 DEF Explained
    <3>6. first = Opens(readings, now - Lookback) /\ early = Opens(others, others[Len(others)].day - Lookback)
          /\ d = now - Lookback - 1
      BY <3>5
    <3> HIDE DEF d, early, first
    <3>7. Carried(readings, first, part, d)
      BY <3>2, <3>4, <3>5, <3>6, CarriedOver
    <3>8. \A k \in 1..LastDay : k <= d => rest[k] = part[k]
      <4>1. \A k \in 1..LastDay : k <= d => k < since
        BY <1>1 DEF d
      <4> QED BY ONLY <1>7, <4>1
    <3>9. d <= LastDay
      BY <1>1, <1>8 DEF d
    <3>10. Carried(readings, first, rest, d)
      BY <1>6, <3>3, <3>7, <3>8, <3>9, CarriedSame
    <3> QED BY <3>10 DEF d
  <2> QED BY <2>1, <2>2
<1>11. /\ \A d \in since-1..now-1 : Carried(readings, first, rest, d)
       /\ AddsUp(readings, rest, now)
  <2>1. \A d \in 1..LastDay : d >= since => rest[d] = Added(Counted(Intervals(readings, first)), d)
    <3>1. \A d \in 1..LastDay : d >= since => ~(d < since)
      BY <1>1
    <3> QED BY <1>7, <3>1 DEF fresh
  <2>2. \A d \in 1..LastDay : rest[d] # 0 => readings[1].day < d
    BY <1>9
  <2>3. since = now - Lookback /\ first = Opens(readings, since)
    OBVIOUS
  <2> HIDE DEF first
  <2>4. /\ readings \in Seq(ReadingSet) /\ Len(readings) >= 1 /\ Dated(readings) /\ Faithful(readings)
        /\ now \in Int /\ readings[Len(readings)].day = now /\ now <= LastDay
    OBVIOUS
  <2> QED BY ONLY <1>6, <1>10, <2>1, <2>2, <2>3, <2>4, CarriedThrough
<1>12. Grown(readings, readings)
  BY <1>1 DEF Grown, n
<1>13. readings[n].used <= readings[n].used
  BY <1>1, ReadingFigures DEF n
<1>14. Explained(readings, readings, rest, now, FALSE)
  <2>1. \A d \in now-Lookback-1..now-1 : Carried(readings, Opens(readings, now-Lookback), rest, d)
    BY <1>11
  <2> QED BY <1>11, <1>12, <1>13, <2>1 DEF Explained, n
<1>15. now # 0
  BY <1>8
<1> QED BY <1>6, <1>9, <1>14, <1>15 DEF RowsOf

-----------------------------------------------------------------------------
(* The quantities of all lots. *)

\* The sheet of a lot and its readings agree.
SheetRead(l) == Faithful(snapshots[l]) /\ UpToDate(snapshots[l], sheet[l].issued, sheet[l].used)

\* The rows are the sum of parts, one for each lot.
Reckoned ==
  \E part \in [Lots -> [Days -> Nat]] :
    /\ daily = [d \in Days |-> Total([l \in Lots |-> part[l][d]], LotCount)]
    /\ \A l \in Lots : RowsOf(snapshots[l], part[l], built, behind)

TallyInv == today <= LastDay /\ (\A l \in Lots : SheetRead(l)) /\ Reckoned

LEMMA NoTotal ==
  ASSUME NEW n \in Nat
  PROVE  Total([k \in 1..n |-> 0], n) = 0
<1> DEFINE f == [k \in 1..n |-> 0]
<1>1. f \in [1..n -> Int] /\ 0 \in 0..n /\ n \in 0..n /\ \A k \in 0+1..n : f[k] = 0
  OBVIOUS
<1> HIDE DEF f
<1>2. Total(f, n) = Total(f, 0)
  BY <1>1, TotalRests
<1>3. Total(f, 0) = 0
  BY <1>1, TotalClimbs
<1> QED BY <1>2, <1>3 DEF f

LEMMA InitTally == Init => TallyInv
<1> SUFFICES ASSUME Init PROVE TallyInv
  OBVIOUS
<1>1. LotCount \in Nat /\ LastDay \in Nat /\ LastDay >= 1
  BY LedgerAssumption
<1>2. ASSUME NEW l \in Lots PROVE SheetRead(l)
  <2>1. snapshots[l] = <<>> /\ sheet[l].issued = 0 /\ sheet[l].used = 0
    BY DEF Init, Figures
  <2>2. Faithful(<<>>)
    BY Limits DEF Faithful
  <2>3. UpToDate(<<>>, 0, 0)
    BY DEF UpToDate
  <2> QED BY <2>1, <2>2, <2>3 DEF SheetRead
<1>3. Reckoned
  <2> DEFINE part == [l \in Lots |-> [d \in Days |-> 0]]
  <2>1. part \in [Lots -> [Days -> Nat]] /\ \A l \in Lots, d \in Days : part[l][d] = 0
    OBVIOUS
  <2> HIDE DEF part
  <2>2. ASSUME NEW d \in Days PROVE Total([l \in Lots |-> part[l][d]], LotCount) = 0
    <3>1. [l \in Lots |-> part[l][d]] = [l \in 1..LotCount |-> 0]
      BY <2>1 DEF Lots
    <3> QED BY <1>1, <3>1, NoTotal
  <2>3. daily = [d \in Days |-> Total([l \in Lots |-> part[l][d]], LotCount)]
    BY <2>2 DEF Init
  <2>4. ASSUME NEW l \in Lots PROVE RowsOf(snapshots[l], part[l], built, behind)
    <3>1. built = 0 /\ \A d \in 1..LastDay : part[l][d] = 0
      BY <2>1 DEF Init, Days
    <3> QED BY <3>1 DEF RowsOf
  <2> QED BY <2>1, <2>3, <2>4 DEF Reckoned
<1>4. today <= LastDay
  BY <1>1 DEF Init
<1> QED BY <1>2, <1>3, <1>4 DEF TallyInv

\* What is issued was used; a new period begins the figure again.
LEMMA SheetTally ==
  ASSUME Inv, TallyInv, UNCHANGED <<snapshots, daily, built, behind>>, today' <= LastDay,
         \A l \in Lots : \E q \in Nat :
           /\ q % 1000 = 0
           /\ \/ sheet'[l].issued = sheet[l].issued + q /\ sheet'[l].used = sheet[l].used + q
              \/ sheet'[l].issued = 0 /\ sheet'[l].used = sheet[l].used
  PROVE  TallyInv'
<1>1. ASSUME NEW l \in Lots PROVE SheetRead(l)'
  <2>1. PICK R, issued, used : R = snapshots[l] /\ issued = sheet[l].issued /\ used = sheet[l].used
    OBVIOUS
  <2>2. issued \in Nat /\ used \in Nat /\ R \in Seq(ReadingSet)
    <3>1. sheet[l] \in FigureSet /\ R \in Seq(ReadingSet)
      BY <2>1 DEF Inv, Typed
    <3> QED BY <2>1, <3>1, FigureTypes
  <2>3. Faithful(R) /\ UpToDate(R, issued, used)
    BY <2>1 DEF TallyInv, SheetRead
  <2>4. PICK q \in Nat :
          /\ q % 1000 = 0
          /\ \/ sheet'[l].issued = issued + q /\ sheet'[l].used = used + q
             \/ sheet'[l].issued = 0 /\ sheet'[l].used = used
    BY <2>1
  <2>5. /\ UpToDate(R, 0, used)
        /\ \A u \in Nat : u % 1000 = 0 => UpToDate(R, issued+u, used+u)
    <3>1. UpToDate(R, issued, used)
      BY <2>3
    <3> QED BY ONLY <2>2, <3>1, SheetFollows
  <2>7. UpToDate(R, issued+q, used+q)
    BY ONLY <2>4, <2>5
  <2>6. UpToDate(R, sheet'[l].issued, sheet'[l].used)
    BY <2>4, <2>5, <2>7
  <2> QED BY <2>1, <2>3, <2>6 DEF SheetRead
<1>2. Reckoned'
  BY DEF TallyInv, Reckoned
<1> QED BY <1>1, <1>2 DEF TallyInv

LEMMA EditTally ==
  ASSUME Inv, TallyInv,
         (\E l \in Lots, q \in Amounts : Issue(l, q) \/ Receive(l, q) \/ Restate(l, q)) \/ NewPeriod
  PROVE  TallyInv'
<1>1. \A l \in Lots : sheet[l] \in FigureSet /\ sheet[l].issued \in Nat /\ sheet[l].used \in Nat
  BY FigureTypes DEF Inv, Typed
<1>2. UNCHANGED <<today, snapshots, daily, built, behind>>
  BY DEF Issue, Receive, Restate, NewPeriod
<1>3. sheet \in [Lots -> FigureSet]
  BY DEF Inv, Typed
<1>4. 0 \in Nat /\ 0 % 1000 = 0
  OBVIOUS
<1>5. ASSUME NEW k \in Lots
      PROVE  \E q \in Nat :
               /\ q % 1000 = 0
               /\ \/ sheet'[k].issued = sheet[k].issued + q /\ sheet'[k].used = sheet[k].used + q
                  \/ sheet'[k].issued = 0 /\ sheet'[k].used = sheet[k].used
  <2>1. ASSUME sheet'[k].issued = sheet[k].issued, sheet'[k].used = sheet[k].used
        PROVE  \E q \in Nat :
                 /\ q % 1000 = 0
                 /\ \/ sheet'[k].issued = sheet[k].issued + q /\ sheet'[k].used = sheet[k].used + q
                    \/ sheet'[k].issued = 0 /\ sheet'[k].used = sheet[k].used
    <3>1. sheet'[k].issued = sheet[k].issued + 0 /\ sheet'[k].used = sheet[k].used + 0
      BY <1>1, <2>1
    <3> QED BY <1>4, <3>1
  <2>2. ASSUME NEW l \in Lots, NEW q \in Amounts, Issue(l, q)
        PROVE  \E u \in Nat :
                 /\ u % 1000 = 0
                 /\ \/ sheet'[k].issued = sheet[k].issued + u /\ sheet'[k].used = sheet[k].used + u
                    \/ sheet'[k].issued = 0 /\ sheet'[k].used = sheet[k].used
    <3>1. q \in Nat /\ q % 1000 = 0
      BY AmountsNatural, LedgerAssumption
    <3>2. sheet' = [sheet EXCEPT ![l].issued = @ + q, ![l].closing = @ - q, ![l].used = @ + q]
      BY <2>2 DEF Issue
    <3>3. CASE k = l
      <4>1. sheet'[k].issued = sheet[k].issued + q /\ sheet'[k].used = sheet[k].used + q
        BY <1>1, <1>3, <3>2, <3>3 DEF FigureSet
      <4> QED BY <3>1, <4>1
    <3>4. CASE k # l
      <4>1. sheet'[k] = sheet[k]
        BY <1>3, <3>2, <3>4
      <4> QED BY <2>1, <4>1
    <3> QED BY <3>3, <3>4
  <2>3. ASSUME NEW l \in Lots, NEW q \in Amounts, Receive(l, q)
        PROVE  sheet'[k].issued = sheet[k].issued /\ sheet'[k].used = sheet[k].used
    <3>1. sheet' = [sheet EXCEPT ![l].received = @ + q, ![l].closing = @ + q]
      BY <2>3 DEF Receive
    <3> QED BY <1>1, <1>3, <3>1 DEF FigureSet
  <2>4. ASSUME NEW l \in Lots, NEW q \in Amounts, Restate(l, q)
        PROVE  sheet'[k].issued = sheet[k].issued /\ sheet'[k].used = sheet[k].used
    <3>1. sheet' = [sheet EXCEPT ![l].opening = @ - q, ![l].closing = @ - q]
      BY <2>4 DEF Restate
    <3> QED BY <1>1, <1>3, <3>1 DEF FigureSet
  <2>5. ASSUME NewPeriod
        PROVE  sheet'[k].issued = 0 /\ sheet'[k].used = sheet[k].used
    <3>1. sheet' = [l \in Lots |-> [sheet[l] EXCEPT !.opening = sheet[l].closing, !.received = 0, !.issued = 0]]
      BY <2>5 DEF NewPeriod
    <3> QED BY <1>1, <3>1 DEF FigureSet
  <2>6. CASE NewPeriod
    BY <1>4, <2>5, <2>6
  <2>7. CASE \E l \in Lots, q \in Amounts : Issue(l, q) \/ Receive(l, q) \/ Restate(l, q)
    BY <2>1, <2>2, <2>3, <2>4, <2>7
  <2> QED BY <2>6, <2>7
<1>6. today' <= LastDay
  BY <1>2 DEF TallyInv
<1> QED BY <1>2, <1>5, <1>6, SheetTally

LEMMA NextDayTally == ASSUME Inv, TallyInv, NextDay PROVE TallyInv'
<1>1. UNCHANGED <<sheet, snapshots, daily, built, behind>> /\ today' = today + 1 /\ today < LastDay
  BY DEF NextDay
<1>2. today' <= LastDay
  BY <1>1, LedgerAssumption DEF Inv, Typed
<1>3. Reckoned'
  BY <1>1 DEF TallyInv, Reckoned
<1>4. \A l \in Lots : SheetRead(l)'
  BY <1>1 DEF TallyInv, SheetRead
<1> QED BY <1>2, <1>3, <1>4 DEF TallyInv

LEMMA SyncTally ==
  ASSUME Inv, TallyInv, NEW broken \in SUBSET Lots, Sync(broken)
  PROVE  TallyInv'
<1> DEFINE r(l) == Reading(l, broken)
<1>1. /\ UNCHANGED <<today, sheet, daily, built>>
      /\ snapshots' = [l \in Lots |-> Append(Earlier(l), r(l))]
      /\ behind' = (behind \/ snapshots' # snapshots)
      /\ \A l \in broken : MayBreak(l)
  BY DEF Sync
<1>2. Typed /\ today \in Nat /\ today >= 1 /\ built \in Nat /\ behind \in BOOLEAN
  BY DEF Inv, Typed
<1>3. ASSUME NEW l \in Lots
      PROVE  /\ Faithful(snapshots'[l])
             /\ UpToDate(snapshots'[l], sheet[l].issued, sheet[l].used)
             /\ built # 0 => snapshots'[l][1].day = snapshots[l][1].day
             /\ \A others \in Seq(ReadingSet) : Grown(others, snapshots[l]) => Grown(others, snapshots'[l])
             /\ \A i \in 1..Len(snapshots[l]) : snapshots[l][i].used <= snapshots'[l][i].used
             /\ snapshots[l] \in Seq(ReadingSet) /\ snapshots'[l] \in Seq(ReadingSet)
  <2>1. PICK R, x, issued, used :
          R = snapshots[l] /\ x = r(l) /\ issued = sheet[l].issued /\ used = sheet[l].used
    OBVIOUS
  <2>2. /\ issued \in Nat /\ used \in Nat /\ R \in Seq(ReadingSet)
        /\ x \in ReadingSet /\ x.day = today
    <3>1. sheet[l] \in FigureSet /\ R \in Seq(ReadingSet)
      BY <1>2, <2>1 DEF Typed
    <3> QED BY <1>2, <2>1, <3>1, FigureTypes, ReadingsTyped
  <2>3. Faithful(R) /\ UpToDate(R, issued, used)
    BY <2>1 DEF TallyInv, SheetRead
  <2>4. x.used = used /\ x.sound = (l \notin broken) /\ x.issued = IF l \in broken THEN 0 ELSE issued
    BY <2>1 DEF Reading
  <2>5. x.issued = IF x.sound THEN issued ELSE 0
    BY <2>4
  <2>6. PICK earlier : earlier = IF R # <<>> /\ Last(R).day = x.day THEN Front(R) ELSE R
    OBVIOUS
  <2>7. Earlier(l) = earlier
    BY <2>1, <2>2, <2>6 DEF Earlier, ReadToday
  <2>8. ~x.sound => \E i \in 1..Len(earlier) : i > Len(earlier) - MaxBrokenRun /\ earlier[i].sound
    <3> SUFFICES ASSUME ~x.sound
                 PROVE  \E i \in 1..Len(earlier) : i > Len(earlier) - MaxBrokenRun /\ earlier[i].sound
      OBVIOUS
    <3>1. l \in broken
      BY <2>4
    <3>2. MayBreak(l)
      BY <1>1, <3>1
    <3> QED BY <2>7, <3>2 DEF MayBreak
  <2>9. PICK later : later = Append(earlier, x)
    OBVIOUS
  <2>10. snapshots'[l] = later /\ later = Synchronised(R, x)
    BY <1>1, <2>1, <2>6, <2>7, <2>9 DEF Synchronised
  <2>11. x.day >= 1
    BY <1>2, <2>2
  <2>12. /\ Faithful(later)
         /\ UpToDate(later, issued, used)
         /\ \A i \in 1..Len(R) : i <= Len(later) /\ R[i].used <= later[i].used
    BY ONLY <2>2, <2>3, <2>4, <2>5, <2>6, <2>8, <2>9, <2>11, FaithfulGrows
  <2>13. /\ Dated(R)
         /\ (R # <<>> => Last(R).day <= today /\ today - Last(R).day <= MaxOutage)
         /\ (R = <<>> => built = 0)
    BY <2>1 DEF Inv, Abreast
  <2>14. R # <<>> => Last(R).day <= x.day /\ x.day - Last(R).day <= MaxOutage
    BY <2>2, <2>13
  <2>15. /\ later \in Seq(ReadingSet)
         /\ later # <<>>
         /\ R # <<>> => Head(later).day = Head(R).day
         /\ \A others \in Seq(ReadingSet) : Grown(others, R) => Grown(others, later)
    BY <2>2, <2>10, <2>13, <2>14, SyncGrows
  <2>16. built # 0 => later[1].day = R[1].day
    <3> SUFFICES ASSUME built # 0 PROVE later[1].day = R[1].day
      OBVIOUS
    <3>1. R # <<>> /\ later # <<>> /\ Head(later).day = Head(R).day
      BY <2>13, <2>15
    <3>2. Head(later) = later[1] /\ Head(R) = R[1]
      BY <2>2, <2>15, <3>1
    <3> QED BY <3>1, <3>2
  <2> QED BY <2>1, <2>2, <2>10, <2>12, <2>15, <2>16
<1>4. \A l \in Lots : SheetRead(l)'
  BY <1>1, <1>3 DEF SheetRead
<1>5. Reckoned'
  <2>1. PICK part \in [Lots -> [Days -> Nat]] :
          /\ daily = [d \in Days |-> Total([l \in Lots |-> part[l][d]], LotCount)]
          /\ \A l \in Lots : RowsOf(snapshots[l], part[l], built, behind)
    BY DEF TallyInv, Reckoned
  <2>2. ASSUME NEW l \in Lots PROVE RowsOf(snapshots'[l], part[l], built, behind')
    <3>1. CASE ~behind'
      <4>1. snapshots' = snapshots /\ behind' = behind
        BY <1>1, <1>2, <3>1
      <4> QED BY <2>1, <4>1
    <3>2. CASE behind'
      <4>1. behind' = TRUE
        BY <1>1, <3>2
      <4>2. PICK R, later, p, b, s :
              R = snapshots[l] /\ later = snapshots'[l] /\ p = part[l] /\ b = built /\ s = behind
        OBVIOUS
      <4>3. RowsOf(later, p, b, TRUE)
        <5>1. /\ R \in Seq(ReadingSet) /\ later \in Seq(ReadingSet)
              /\ RowsOf(R, p, b, s)
              /\ b # 0 => later[1].day = R[1].day
              /\ \A others \in Seq(ReadingSet) : Grown(others, R) => Grown(others, later)
              /\ \A i \in 1..Len(R) : R[i].used <= later[i].used
          BY <1>3, <2>1, <4>2
        <5> QED BY ONLY <5>1, RowsGrow
      <4> QED BY <4>1, <4>2, <4>3
    <3> QED BY <3>1, <3>2
  <2> QED BY <1>1, <2>1, <2>2 DEF Reckoned
<1>6. today' <= LastDay
  BY <1>1 DEF TallyInv
<1> QED BY <1>4, <1>5, <1>6 DEF TallyInv

LEMMA RebuildTally == ASSUME Inv, TallyInv, Rebuild PROVE TallyInv'
<1>1. PICK since : since = today - Lookback
  OBVIOUS
<1>2. PICK fresh : fresh = [l \in Lots |-> Counted(Intervals(snapshots[l], Opens(snapshots[l], since)))]
  OBVIOUS
<1>3. Synced /\ RebuildFrom(since)
  BY <1>1 DEF Rebuild
<1>4. /\ daily' = [d \in Days |-> IF d < since THEN daily[d] ELSE DailyOf(fresh, d)]
      /\ built' = today /\ behind' = FALSE /\ UNCHANGED <<today, sheet, snapshots>>
  <2> DEFINE first == [l \in Lots |-> Opens(snapshots[l], since)]
             intervals == [l \in Lots |-> Intervals(snapshots[l], first[l])]
             counted == [l \in Lots |-> Counted(intervals[l])]
  <2>1. counted = fresh
    <3>1. \A l \in Lots : first[l] = Opens(snapshots[l], since)
      OBVIOUS
    <3> HIDE DEF first
    <3>2. \A l \in Lots : intervals[l] = Intervals(snapshots[l], Opens(snapshots[l], since))
      BY <3>1
    <3> HIDE DEF intervals
    <3> QED BY <1>2, <3>2
  <2>2. /\ daily' = [d \in Days |-> IF d < since THEN daily[d] ELSE DailyOf(counted, d)]
        /\ built' = today /\ behind' = FALSE /\ UNCHANGED <<today, sheet, snapshots>>
    BY <1>3 DEF RebuildFrom
  <2> HIDE DEF counted
  <2> QED BY <2>1, <2>2
<1>5. PICK part \in [Lots -> [Days -> Nat]] :
        /\ daily = [d \in Days |-> Total([l \in Lots |-> part[l][d]], LotCount)]
        /\ \A l \in Lots : RowsOf(snapshots[l], part[l], built, behind)
  BY DEF TallyInv, Reckoned
<1>6. PICK rest :
        rest = [l \in Lots |-> [d \in Days |-> IF d < since THEN part[l][d] ELSE Added(fresh[l], d)]]
  OBVIOUS
<1>7. today \in Nat /\ built \in Nat /\ today <= LastDay
  BY DEF TallyInv, Inv, Typed
<1>8. ASSUME NEW l \in Lots
      PROVE  rest[l] \in [Days -> Nat] /\ RowsOf(snapshots[l], rest[l], today, FALSE)
  <2>1. PICK R, p, new, last, stale, now :
          /\ R = snapshots[l] /\ p = part[l] /\ new = rest[l]
          /\ last = built /\ stale = behind /\ now = today
    OBVIOUS
  <2>2. /\ R \in Seq(ReadingSet) /\ R # <<>> /\ Dated(R) /\ Len(R) >= 1
        /\ R[Len(R)].day = now /\ Head(R) = R[1]
    BY <1>3, <2>1, RebuildReads
  <2>3. Faithful(R)
    BY <2>1 DEF TallyInv, SheetRead
  <2>4. p \in [1..LastDay -> Nat] /\ last \in Nat /\ now \in Int /\ now <= LastDay
    BY <1>5, <1>7, <2>1 DEF Days
  <2>5. RowsOf(R, p, last, stale)
    BY <1>5, <2>1
  <2>6. IF last = 0 THEN now <= MaxOutage \/ R[1].day = now ELSE now - last <= MaxOutage
    <3>1. Abreast(l)
      BY DEF Inv
    <3>2. /\ built = 0 => today <= MaxOutage \/ Head(R).day = today
          /\ built # 0 => today - built <= MaxOutage
      BY <2>1, <2>2, <3>1 DEF Abreast
    <3> QED BY <2>1, <2>2, <3>2
  <2>7. since = now - Lookback
    BY <1>1, <2>1
  <2>8. new = Renewed(R, p, since)
    <3>1. new = [d \in Days |-> IF d < since THEN p[d] ELSE Added(fresh[l], d)]
      BY <1>6, <2>1
    <3>2. fresh[l] = Counted(Intervals(R, Opens(R, since)))
      BY <1>2, <2>1
    <3> QED BY <3>1, <3>2 DEF Days, Renewed
  <2>9. new \in [1..LastDay -> Nat] /\ RowsOf(R, new, now, FALSE)
    BY ONLY <2>2, <2>3, <2>4, <2>5, <2>6, <2>7, <2>8, RowsRebuilt
  <2> QED BY <2>1, <2>9 DEF Days
<1>9. daily' = [d \in Days |-> Total([l \in Lots |-> rest[l][d]], LotCount)]
  <2>1. ASSUME NEW d \in Days
        PROVE  (IF d < since THEN daily[d] ELSE DailyOf(fresh, d)) = Total([l \in Lots |-> rest[l][d]], LotCount)
    <3>1. CASE d < since
      <4>1. [l \in Lots |-> rest[l][d]] = [l \in Lots |-> part[l][d]]
        BY <1>6, <3>1
      <4> QED BY <1>5, <3>1, <4>1
    <3>2. CASE ~(d < since)
      <4>1. [l \in Lots |-> rest[l][d]] = [l \in Lots |-> Added(fresh[l], d)]
        BY <1>6, <3>2
      <4> QED BY <3>2, <4>1 DEF DailyOf
    <3> QED BY <3>1, <3>2
  <2> QED BY <1>4, <2>1
<1>10. Reckoned'
  <2>1. rest \in [Lots -> [Days -> Nat]]
    BY <1>6, <1>8
  <2>2. \A l \in Lots : RowsOf(snapshots[l], rest[l], built', behind')
    BY <1>4, <1>8
  <2> QED BY <1>4, <1>9, <2>1, <2>2 DEF Reckoned
<1>11. \A l \in Lots : SheetRead(l)'
  BY <1>4 DEF TallyInv, SheetRead
<1> QED BY <1>4, <1>7, <1>10, <1>11 DEF TallyInv

\* One lot's part of the rows says no more than was used of it, and just that
\* while its books are clean and the rows are up to date.
LEMMA PartBound ==
  ASSUME NEW readings \in Seq(ReadingSet), Len(readings) >= 1, Dated(readings), Faithful(readings),
         readings[Len(readings)].day <= LastDay,
         NEW part \in [1..LastDay -> Nat], NEW last \in Nat, NEW stale \in BOOLEAN,
         RowsOf(readings, part, last, stale)
  PROVE  LET n == Len(readings)
             used == readings[n].used - readings[1].used
         IN  /\ Total(part, LastDay) <= used
             /\ last # 0 /\ ~stale /\ Clean(readings, n) /\ readings[n].sound => Total(part, LastDay) = used
<1> DEFINE n == Len(readings)
           un == readings[n].used
           u1 == readings[1].used
           total == Total(part, LastDay)
<1>1. n \in Nat /\ n >= 1 /\ 1 \in 1..n /\ n \in 1..n /\ LastDay \in Nat
  BY ReadingTypes, LedgerAssumption
<1>2. \A i \in 1..n : readings[i].used \in Nat /\ readings[i].day \in Nat
  BY ReadingFigures
<1>3. un \in Nat /\ u1 \in Nat /\ u1 <= un
  <2>1. CASE n = 1
    BY <1>1, <1>2, <2>1
  <2>2. CASE n # 1
    <3>1. 1 < n
      <4> HIDE DEF n
      <4> QED BY <1>1, <2>2
    <3> QED BY <1>1, <1>2, <3>1 DEF Faithful
  <2> QED BY <2>1, <2>2
<1>4. part \in [1..LastDay -> Int] /\ \A d \in 1..LastDay : part[d] # 0 => last # 0 /\ d <= last
  BY DEF RowsOf
<1>5. CASE last = 0
  <2>1. \A d \in 0+1..LastDay : part[d] = 0
    BY <1>4, <1>5
  <2>2. 0 \in 0..LastDay /\ LastDay \in 0..LastDay
    BY <1>1
  <2>3. total = Total(part, 0)
    BY <1>1, <1>4, <2>1, <2>2, TotalRests
  <2>4. total = 0
    BY <1>1, <1>4, <2>3, TotalClimbs
  <2> HIDE DEF un, u1, total
  <2>5. total <= un - u1
    BY <1>3, <2>4
  <2> QED BY <1>5, <2>5 DEF un, u1, total
<1>6. CASE last # 0
  <2>1. PICK others \in Seq(ReadingSet) : Explained(readings, others, part, last, stale)
    BY <1>6 DEF RowsOf
  <2>2. PICK m : m = Len(others)
    OBVIOUS
  <2>3. /\ Grown(others, readings) /\ others[m].day = last
        /\ others[m].used <= readings[m].used
        /\ stale \/ others = readings
        /\ Total(part, last) <= others[m].used - others[1].used
        /\ Clean(others, m) /\ others[m].sound => Total(part, last) = others[m].used - others[1].used
    BY <2>1, <2>2 DEF Explained, AddsUp
  <2>4. /\ m \in 1..n /\ m \in Nat /\ m >= 1 /\ m \in 1..m /\ 1 \in 1..m /\ n \in m..n
        /\ \A i \in 1..m-1 : readings[i] = others[i]
        /\ readings[m].day = last
    BY <1>1, <2>2, <2>3 DEF Grown
  <2>5. last <= LastDay
    <3>1. n - m <= readings[n].day - readings[m].day
      BY <2>4, DaysGoUp
    <3>2. readings[n].day \in Nat /\ readings[n].day <= LastDay /\ n - m >= 0 /\ n - m \in Int
      BY <1>1, <1>2, <2>4
    <3> HIDE DEF n
    <3> QED BY <1>1, <2>4, <3>1, <3>2
  <2>6. total = Total(part, last)
    <3>1. \A d \in last+1..LastDay : d \in 1..LastDay /\ ~(d <= last)
      BY <1>1
    <3>2. \A d \in last+1..LastDay : part[d] = 0
      BY <1>4, <3>1
    <3>3. last \in 0..LastDay /\ LastDay \in last..LastDay
      BY <1>1, <2>5
    <3> QED BY <1>1, <1>4, <3>2, <3>3, TotalRests
  <2>7. total \in Int
    <3>1. LastDay \in 0..LastDay
      BY <1>1
    <3> QED BY <1>1, <1>4, <3>1, TotalClimbs
  <2>8. total <= un - u1
    <3> DEFINE om == others[m].used
               rm == readings[m].used
               o1 == others[1].used
    <3>1. om \in Nat /\ o1 \in Nat /\ rm \in Nat
      BY <1>2, <2>2, <2>4, ReadingFigures
    <3>2. rm <= un
      <4>1. CASE m = n
        BY <1>3, <4>1
      <4>2. CASE m # n
        <5>1. m < n
          BY <1>1, <2>4, <4>2
        <5> QED BY <1>1, <2>4, <5>1 DEF Faithful
      <4> QED BY <4>1, <4>2
    <3>3. total <= om - o1 /\ om <= rm
      BY <2>3, <2>6
    <3>4. CASE m = 1
      <4>1. om = o1
        BY <3>4
      <4> HIDE DEF om, o1, rm, un, u1, total
      <4> QED BY <1>3, <2>7, <3>1, <3>3, <4>1
    <3>5. CASE m # 1
      <4>1. 1 \in 1..m-1
        BY <2>4, <3>5
      <4>2. o1 = u1
        BY <2>4, <4>1
      <4> HIDE DEF om, o1, rm, un, u1, total
      <4> QED BY <1>3, <2>7, <3>1, <3>2, <3>3, <4>2
    <3> QED BY <3>4, <3>5
  <2>9. ASSUME ~stale, Clean(readings, n), readings[n].sound PROVE total = un - u1
    <3>1. others = readings /\ m = n
      BY <2>2, <2>3, <2>9
    <3> QED BY <2>3, <2>6, <2>9, <3>1
  <2> QED BY <2>8, <2>9
<1> QED BY <1>5, <1>6

\* In every state the rows are the sum of the lots' parts, each of them what
\* the readings of the last rebuild say.
THEOREM ConsumptionTally == Spec => []TallyInv
<1>1. Init => TallyInv
  BY InitTally
<1>2. Inv /\ TallyInv /\ [Next]_vars => TallyInv'
  <2> SUFFICES ASSUME Inv, TallyInv, [Next]_vars PROVE TallyInv'
    OBVIOUS
  <2>1. CASE (\E l \in Lots, q \in Amounts : Issue(l, q) \/ Receive(l, q) \/ Restate(l, q)) \/ NewPeriod
    BY <2>1, EditTally
  <2>2. CASE \E broken \in SUBSET Lots : Sync(broken)
    BY <2>2, SyncTally
  <2>3. CASE Rebuild
    BY <2>3, RebuildTally
  <2>4. CASE NextDay
    BY <2>4, NextDayTally
  <2>5. CASE UNCHANGED vars
    <3>1. UNCHANGED <<today, sheet, snapshots, daily, built, behind>>
      BY <2>5 DEF vars
    <3>2. Reckoned' /\ \A l \in Lots : SheetRead(l)'
      BY <3>1 DEF TallyInv, Reckoned, SheetRead
    <3> QED BY <3>1, <3>2 DEF TallyInv
  <2> QED BY <2>1, <2>2, <2>3, <2>4, <2>5 DEF Next
<1> QED BY <1>1, <1>2, ConsumptionInv, PTL DEF Spec

\* What the ledger says was used is the sum over the lots, and so is what was.
LEMMA RecordedByLot ==
  ASSUME NEW part \in [Lots -> [Days -> Nat]],
         daily = [d \in Days |-> Total([l \in Lots |-> part[l][d]], LotCount)]
  PROVE  Recorded = Total([l \in Lots |-> Total(part[l], LastDay)], LotCount)
<1>1. LotCount \in Nat /\ LastDay \in Nat
  BY LedgerAssumption
<1>2. part \in [1..LotCount -> [1..LastDay -> Int]]
  BY DEF Lots, Days
<1>3. Total([d \in 1..LastDay |-> Total([l \in 1..LotCount |-> part[l][d]], LotCount)], LastDay)
      = Total([l \in 1..LotCount |-> Total(part[l], LastDay)], LotCount)
  BY <1>1, <1>2, TotalSwap
<1> QED BY <1>3 DEF Recorded, Lots, Days

\* What the two properties say of one lot.
LEMMA LotBound ==
  ASSUME Inv, TallyInv, Started, NEW l \in Lots,
         NEW part \in [Days -> Nat], RowsOf(snapshots[l], part, built, behind)
  PROVE  /\ Total(part, LastDay) \in Int
         /\ Last(snapshots[l]).used - Head(snapshots[l]).used \in Int
         /\ Total(part, LastDay) <= Last(snapshots[l]).used - Head(snapshots[l]).used
         /\ ~behind /\ Sound(l) =>
              Total(part, LastDay) = Last(snapshots[l]).used - Head(snapshots[l]).used
<1>1. PICK R, last, stale : R = snapshots[l] /\ last = built /\ stale = behind
  OBVIOUS
<1>2. R \in Seq(ReadingSet) /\ R # <<>> /\ Dated(R) /\ last \in Nat /\ stale \in BOOLEAN
  BY <1>1 DEF Inv, Typed, Abreast, Started
<1>3. Len(R) \in Nat /\ Len(R) >= 1 /\ Last(R) = R[Len(R)] /\ Head(R) = R[1]
  BY <1>2, ReadingTypes DEF Last
<1>4. Faithful(R)
  BY <1>1 DEF TallyInv, SheetRead
<1>5. R[Len(R)].day <= LastDay
  <2>1. Last(R).day <= today /\ today <= LastDay
    BY <1>1, <1>2 DEF Inv, Abreast, TallyInv
  <2>2. R[Len(R)].day \in Nat /\ today \in Nat /\ LastDay \in Nat
    <3>1. Len(R) \in 1..Len(R)
      BY <1>3
    <3> QED BY <1>2, <3>1, ReadingFigures, LedgerAssumption DEF Inv, Typed
  <2> QED BY <1>3, <2>1, <2>2
<1>6. part \in [1..LastDay -> Nat] /\ RowsOf(R, part, last, stale)
  BY <1>1 DEF Days
<1>7. /\ Total(part, LastDay) <= R[Len(R)].used - R[1].used
      /\ last # 0 /\ ~stale /\ Clean(R, Len(R)) /\ R[Len(R)].sound =>
           Total(part, LastDay) = R[Len(R)].used - R[1].used
  BY ONLY <1>2, <1>3, <1>4, <1>5, <1>6, PartBound
<1>8. R[Len(R)].used \in Nat /\ R[1].used \in Nat
  <2>1. Len(R) \in 1..Len(R) /\ 1 \in 1..Len(R)
    BY <1>3
  <2> QED BY <1>2, <2>1, ReadingFigures
<1>9. Total(part, LastDay) \in Int
  <2>1. LastDay \in Nat /\ LastDay \in 0..LastDay /\ part \in [1..LastDay -> Int]
    BY <1>6, LedgerAssumption
  <2> QED BY <2>1, TotalClimbs
<1>10. ASSUME ~behind, Sound(l)
       PROVE  last # 0 /\ ~stale /\ Clean(R, Len(R)) /\ R[Len(R)].sound
  <2>1. R[Len(R)].sound /\ \A r \in ToSet(R) : r.closing > 0 /\ (r.sound => r.issued = r.used)
    BY <1>1, <1>3, <1>10 DEF Sound
  <2>2. \A i \in 1..Len(R) : R[i] \in ToSet(R)
    BY <1>2 DEF ToSet
  <2>3. Clean(R, Len(R))
    BY <2>1, <2>2 DEF Clean
  <2>4. last # 0
    <3>1. R[Len(R)].day = last
      BY <1>1, <1>2, <1>3, <1>10 DEF Inv, Abreast
    <3>2. R[Len(R)].day >= 1
      BY <1>3, <1>4 DEF Faithful
    <3> QED BY <3>1, <3>2
  <2> QED BY <1>1, <1>10, <2>1, <2>3, <2>4
<1> QED BY <1>1, <1>3, <1>7, <1>8, <1>9, <1>10

LEMMA TallyBound == ASSUME Inv, TallyInv PROVE NeverOverstated /\ ExactWhenSound
<1>1. PICK part \in [Lots -> [Days -> Nat]] :
        /\ daily = [d \in Days |-> Total([l \in Lots |-> part[l][d]], LotCount)]
        /\ \A l \in Lots : RowsOf(snapshots[l], part[l], built, behind)
  BY DEF TallyInv, Reckoned
<1> DEFINE rows == [l \in Lots |-> Total(part[l], LastDay)]
           used == [l \in Lots |-> Last(snapshots[l]).used - Head(snapshots[l]).used]
<1>2. Recorded = Total(rows, LotCount) /\ UsedBetween = Total(used, LotCount)
  BY <1>1, RecordedByLot DEF UsedBetween
<1>3. ASSUME Started, NEW l \in Lots
      PROVE  /\ rows[l] \in Int /\ used[l] \in Int /\ rows[l] <= used[l]
             /\ ~behind /\ Sound(l) => rows[l] = used[l]
  <2>1. part[l] \in [Days -> Nat] /\ RowsOf(snapshots[l], part[l], built, behind)
    BY <1>1
  <2> QED BY <1>3, <2>1, LotBound
<1>4. LotCount \in Nat /\ rows = [l \in Lots |-> rows[l]] /\ used = [l \in Lots |-> used[l]]
  BY LedgerAssumption
<1> HIDE DEF rows, used
<1>5. NeverOverstated
  <2> SUFFICES ASSUME Started PROVE Recorded <= UsedBetween
    BY DEF NeverOverstated
  <2>1. rows \in [1..LotCount -> Int] /\ used \in [1..LotCount -> Int] /\ \A l \in 1..LotCount : rows[l] <= used[l]
    BY <1>3, <1>4 DEF Lots
  <2>2. Total(rows, LotCount) <= Total(used, LotCount)
    BY <1>4, <2>1, TotalMonotone
  <2> QED BY <1>2, <2>2
<1>6. ExactWhenSound
  <2> SUFFICES ASSUME Started, ~behind, \A l \in Lots : Sound(l) PROVE Recorded = UsedBetween
    BY DEF ExactWhenSound
  <2>1. \A l \in Lots : rows[l] = used[l]
    BY <1>3
  <2>2. rows = used
    BY <1>4, <2>1
  <2> QED BY <1>2, <2>2
<1> QED BY <1>5, <1>6

\* The ledger never says more was used than left the sheet, for every number of
\* lots and days and every size of the windows that bridges the outages:
\* intervals_for_lot() books no quantity twice, over broken cells, new periods
\* and restated openings, and rebuild_plant_consumption() replaces the rows of
\* its range by no more than they missed.
THEOREM NeverOverstatedHolds == Spec => []NeverOverstated
<1>1. Inv /\ TallyInv => NeverOverstated
  BY TallyBound
<1> QED BY <1>1, ConsumptionInv, ConsumptionTally, PTL

\* While the sheets are sound it says exactly what was used: no day is lost or
\* doubled where the range of one rebuild of rebuild_plant_consumption() ends
\* and the rows of an earlier one begin.
THEOREM ExactHolds == Spec => []ExactWhenSound
<1>1. Inv /\ TallyInv => ExactWhenSound
  BY TallyBound
<1> QED BY <1>1, ConsumptionInv, ConsumptionTally, PTL

=============================================================================
