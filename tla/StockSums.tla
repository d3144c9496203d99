----------------------------- MODULE StockSums -----------------------------
(***************************************************************************)
(* What Total does for every number of rows: it is an integer, it is       *)
(* determined by the rows, and changing one row changes it by that row's   *)
(* difference.  Total is recursive, so its defining equation has first to  *)
(* be shown to have a solution.  The second half does the same for the     *)
(* replay of a lot's movements: min_running_balance() is the lowest end of *)
(* day, for movements in any order of their days.                          *)
(***************************************************************************)
EXTENDS StockRules, TLAPS, FiniteSetTheorems, WellFoundedInduction

LEMMA NatOrder == OpToRel(<, Nat) = {ss \in Nat \X Nat : ss[1] < ss[2]}
BY SMT DEF OpToRel

\* Every non-empty set of naturals has a least element.
LEMMA LeastNatural ==
  ASSUME NEW T, T \subseteq Nat, T # {}
  PROVE  \E m \in T : \A k \in T : m <= k
<1> DEFINE R == {ss \in Nat \X Nat : ss[1] < ss[2]}
<1>1. IsWellFoundedOn(R, Nat)
  BY NatLessThanWellFounded, NatOrder
<1>2. \A k, m \in T : <<k, m>> \in R <=> k < m
  OBVIOUS
<1> HIDE DEF R
<1>3. PICK m \in T : \A k \in T : ~(<<k, m>> \in R)
  BY <1>1, WFMin
<1>4. \A k \in T : ~(k < m)
  BY <1>2, <1>3
<1>5. QED
  BY <1>4

\* Induction along 0..n, stated with a set instead of a predicate.
LEMMA Climb ==
  ASSUME NEW n \in Nat, NEW S, 0 \in S, \A k \in 1..n : k-1 \in S => k \in S
  PROVE  0..n \subseteq S
<1> DEFINE Bad == (0..n) \ S
<1>1. SUFFICES ASSUME Bad # {} PROVE FALSE
  OBVIOUS
<1>2. Bad \subseteq Nat
  OBVIOUS
<1>3. PICK m \in Bad : \A k \in Bad : m <= k
  <2> HIDE DEF Bad
  <2> QED BY <1>1, <1>2, LeastNatural
<1>4. m \in 1..n /\ m-1 \notin Bad
  BY <1>3
<1>5. QED
  BY <1>4

\* s holds the running totals of f.
IsRun(f, n, s) ==
  /\ s \in [0..n -> Int]
  /\ s[0] = 0
  /\ \A k \in 1..n : s[k] = s[k-1] + f[k]

LEMMA RunExists ==
  ASSUME NEW n \in Nat, NEW f \in [1..n -> Int]
  PROVE  \E s : IsRun(f, n, s)
<1> DEFINE Good == {m \in 0..n : \E s : IsRun(f, m, s)}
<1>1. IsRun(f, 0, [k \in 0..0 |-> 0])
  BY DEF IsRun
<1>2. ASSUME NEW m \in 1..n, m-1 \in Good
      PROVE  m \in Good
  <2>1. PICK s : IsRun(f, m-1, s)
    BY <1>2
  <2> DEFINE t == [k \in 0..m |-> IF k = m THEN s[m-1] + f[m] ELSE s[k]]
  <2>2. s \in [0..(m-1) -> Int] /\ s[0] = 0 /\ \A k \in 1..(m-1) : s[k] = s[k-1] + f[k]
    BY <2>1 DEF IsRun
  <2>3. t \in [0..m -> Int]
    BY <2>2
  <2>4. t[0] = 0 /\ \A k \in 1..m : t[k] = t[k-1] + f[k]
    BY <2>2
  <2>5. IsRun(f, m, t)
    <3> HIDE DEF t
    <3> QED BY <2>3, <2>4 DEF IsRun
  <2>6. QED
    BY <2>5
<1>3. 0 \in Good
  BY <1>1
<1>4. 0..n \subseteq Good
  <2> HIDE DEF Good
  <2> QED BY <1>2, <1>3, Climb
<1>5. QED
  BY <1>4

LEMMA TotalIsRun ==
  ASSUME NEW n \in Nat, NEW f \in [1..n -> Int],
         NEW s, IsRun(f, n, s)
  PROVE  Total(f, n) = s[n]
<1> DEFINE F(u) == [k \in 0..n |-> IF k = 0 THEN 0 ELSE u[k-1] + f[k]]
           t == CHOOSE u : u = F(u)
           Good == {m \in 0..n : t[m] = s[m]}
<1>1. s = F(s)
  BY DEF IsRun
<1>2. t = F(t)
  <2> HIDE DEF F
  <2> QED BY <1>1
<1>3. Total(f, n) = t[n]
  BY DEF Total
<1> HIDE DEF t
<1>4. 0 \in Good
  BY <1>1, <1>2
<1>5. ASSUME NEW m \in 1..n, m-1 \in Good
      PROVE  m \in Good
  BY <1>5, <1>1, <1>2
<1>6. 0..n \subseteq Good
  <2> HIDE DEF Good
  <2> QED BY <1>4, <1>5, Climb
<1>7. QED
  BY <1>3, <1>6

\* A total of integers is an integer.
THEOREM TotalType ==
  ASSUME NEW n \in Nat, NEW f \in [1..n -> Int]
  PROVE  Total(f, n) \in Int
<1>1. PICK s : IsRun(f, n, s)
  BY RunExists
<1>2. s[n] \in Int
  BY <1>1 DEF IsRun
<1>3. QED
  BY <1>1, <1>2, TotalIsRun

\* Posting, cancelling or deciding one voucher changes a replayed balance by
\* exactly what that voucher moves.
THEOREM TotalOneChanged ==
  ASSUME NEW n \in Nat, NEW f \in [1..n -> Int], NEW g \in [1..n -> Int],
         NEW i \in 1..n, \A k \in 1..n : k # i => g[k] = f[k]
  PROVE  Total(g, n) = Total(f, n) - f[i] + g[i]
<1>1. PICK s : IsRun(f, n, s)
  BY RunExists
<1>2. PICK t : IsRun(g, n, t)
  BY RunExists
<1> DEFINE Good == {m \in 0..n : t[m] = IF m < i THEN s[m] ELSE s[m] - f[i] + g[i]}
<1>3. s \in [0..n -> Int] /\ s[0] = 0 /\ \A k \in 1..n : s[k] = s[k-1] + f[k]
  BY <1>1 DEF IsRun
<1>4. t \in [0..n -> Int] /\ t[0] = 0 /\ \A k \in 1..n : t[k] = t[k-1] + g[k]
  BY <1>2 DEF IsRun
<1>5. 0 \in Good
  BY <1>3, <1>4
<1>6. ASSUME NEW m \in 1..n, m-1 \in Good
      PROVE  m \in Good
  <2>1. m \in Int /\ i \in Int /\ m-1 \in 0..n
    OBVIOUS
  <2>2. f[m] \in Int /\ g[m] \in Int /\ f[i] \in Int /\ g[i] \in Int
    OBVIOUS
  <2>3. s[m-1] \in Int /\ t[m-1] \in Int
    BY <2>1, <1>3, <1>4
  <2>4. /\ m \in Int /\ f[m] \in Int /\ g[m] \in Int /\ s[m-1] \in Int /\ t[m-1] \in Int
        /\ f[i] \in Int /\ g[i] \in Int /\ i \in Int
    BY <2>1, <2>2, <2>3
  <2>5. s[m] = s[m-1] + f[m] /\ t[m] = t[m-1] + g[m]
    BY <1>3, <1>4
  <2>6. t[m-1] = IF m-1 < i THEN s[m-1] ELSE s[m-1] - f[i] + g[i]
    BY <1>6
  <2>7. CASE m < i
    <3>1. g[m] = f[m] /\ m-1 < i
      BY <2>4, <2>7
    <3>2. t[m-1] = s[m-1]
      BY <2>6, <3>1
    <3> QED BY <2>4, <2>5, <2>7, <3>1, <3>2
  <2>8. CASE m = i
    <3>1. ~(m < i) /\ m-1 < i
      BY <2>4, <2>8
    <3>2. t[m-1] = s[m-1]
      BY <2>6, <3>1
    <3>3. t[m] = s[m] - f[i] + g[i]
      BY <2>4, <2>5, <2>8, <3>2
    <3> QED BY <3>1, <3>3
  <2>9. CASE m > i
    <3>1. g[m] = f[m] /\ ~(m < i) /\ ~(m-1 < i)
      BY <2>4, <2>9
    <3>2. t[m-1] = s[m-1] - f[i] + g[i]
      BY <2>6, <3>1
    <3>3. t[m] = s[m] - f[i] + g[i]
      BY <2>4, <2>5, <3>1, <3>2
    <3> QED BY <3>1, <3>3
  <2>10. QED
    BY <2>7, <2>8, <2>9
<1>7. 0..n \subseteq Good
  <2> HIDE DEF Good
  <2> QED BY <1>5, <1>6, Climb
<1>8. t[n] = s[n] - f[i] + g[i]
  BY <1>7
<1>9. QED
  BY <1>1, <1>2, <1>8, TotalIsRun

\* The same rows have the same total.
THEOREM TotalSame ==
  ASSUME NEW n \in Nat, NEW f \in [1..n -> Int], NEW g \in [1..n -> Int],
         \A k \in 1..n : g[k] = f[k]
  PROVE  Total(g, n) = Total(f, n)
<1>1. g = f
  OBVIOUS
<1>2. QED
  BY <1>1

\* No rows that count, no total.
THEOREM TotalZero ==
  ASSUME NEW n \in Nat, NEW f \in [1..n -> Int], \A k \in 1..n : f[k] = 0
  PROVE  Total(f, n) = 0
<1> DEFINE s == [k \in 0..n |-> 0]
<1>1. IsRun(f, n, s)
  BY DEF IsRun
<1>2. Total(f, n) = s[n]
  <2> HIDE DEF s
  <2> QED BY <1>1, TotalIsRun
<1>3. QED
  BY <1>2

-----------------------------------------------------------------------------
(* Listing a finite set of numbers in ascending order. *)

\* s lists n members of T from the lowest up.
IsListing(s, n, T) ==
  /\ s \in [1..n -> T]
  /\ \A i, j \in 1..n : i < j => s[i] < s[j]

\* A set of n numbers has such a list: its least member, then the rest's.
LEMMA ListingExists ==
  ASSUME NEW S, IsFiniteSet(S), S \subseteq Nat
  PROVE  \E s : IsListing(s, Cardinality(S), S)
<1> DEFINE size == Cardinality(S)
           Good == {n \in 0..size : \A T \in SUBSET S :
                                      Cardinality(T) = n => \E s : IsListing(s, n, T)}
<1>1. size \in Nat /\ \A T \in SUBSET S : IsFiniteSet(T)
  BY FS_CardinalityType, FS_Subset
<1>2. 0 \in Good
  <2>1. ASSUME NEW T \in SUBSET S
        PROVE  \E s : IsListing(s, 0, T)
    <3>1. IsListing([k \in 1..0 |-> 0], 0, T)
      BY DEF IsListing
    <3>2. QED
      BY <3>1
  <2>2. QED
    BY <1>1, <2>1
<1>3. ASSUME NEW n \in 1..size, n-1 \in Good
      PROVE  n \in Good
  <2> SUFFICES ASSUME NEW T \in SUBSET S, Cardinality(T) = n
               PROVE  \E s : IsListing(s, n, T)
    BY <1>1
  <2>1. T # {} /\ IsFiniteSet(T) /\ T \subseteq Nat
    BY <1>1, FS_EmptySet
  <2>2. PICK m \in T : \A k \in T : m <= k
    BY <2>1, LeastNatural
  <2>3. Cardinality(T \ {m}) = n-1
    BY <2>1, FS_RemoveElement
  <2>4. PICK u : IsListing(u, n-1, T \ {m})
    BY <1>3, <2>3
  <2> DEFINE s == [k \in 1..n |-> IF k = 1 THEN m ELSE u[k-1]]
  <2>5. \A k \in 2..n : k-1 \in 1..(n-1) /\ u[k-1] \in T \ {m}
    BY <2>4 DEF IsListing
  <2>6. s \in [1..n -> T]
    BY <2>2, <2>5
  <2>7. ASSUME NEW i \in 1..n, NEW j \in 1..n, i < j
        PROVE  s[i] < s[j]
    <3>1. j \in 2..n /\ s[j] = u[j-1] /\ u[j-1] \in T \ {m}
      BY <2>5, <2>7
    <3>2. CASE i = 1
      <4>1. s[i] = m
        BY <3>2
      <4> HIDE DEF s
      <4>2. m \in Nat /\ s[j] \in Nat /\ m # s[j] /\ m <= s[j]
        BY <2>1, <2>2, <3>1
      <4>3. QED
        BY <4>1, <4>2
    <3>3. CASE i # 1
      <4>1. i-1 \in 1..(n-1) /\ j-1 \in 1..(n-1) /\ i-1 < j-1 /\ s[i] = u[i-1]
        BY <2>7, <3>3
      <4>2. QED
        BY <2>4, <3>1, <4>1 DEF IsListing
    <3>4. QED
      BY <3>2, <3>3
  <2>8. IsListing(s, n, T)
    <3> HIDE DEF s
    <3> QED BY <2>6, <2>7 DEF IsListing
  <2>9. QED
    BY <2>8
<1>4. 0..size \subseteq Good
  <2> HIDE DEF Good
  <2> QED BY <1>1, <1>2, <1>3, Climb
<1>5. QED
  BY <1>1, <1>4

\* sorted() of a finite set of numbers has all of them, in ascending order.
THEOREM AscendingLists ==
  ASSUME NEW S, IsFiniteSet(S), S \subseteq Nat
  PROVE  /\ Cardinality(S) \in Nat
         /\ IsListing(Ascending(S), Cardinality(S), S)
         /\ \A x \in S : \E k \in 1..Cardinality(S) : Ascending(S)[k] = x
<1> DEFINE n == Cardinality(S)
           s == Ascending(S)
<1>1. n \in Nat
  BY FS_CardinalityType
<1>2. IsListing(s, n, S)
  BY ListingExists DEF IsListing, Ascending
<1> HIDE DEF s
<1>3. ASSUME NEW i \in 1..n, NEW j \in 1..n, i # j
      PROVE  s[i] # s[j]
  <2>1. s[i] \in S /\ s[j] \in S
    BY <1>2 DEF IsListing
  <2>2. \A x \in S : x \in Int
    OBVIOUS
  <2>3. s[i] < s[j] \/ s[j] < s[i]
    BY <1>2, <1>3 DEF IsListing
  <2>4. \A a, b \in Int : a < b \/ b < a => a # b
    OBVIOUS
  <2>5. QED
    BY <2>1, <2>2, <2>3, <2>4
<1>4. s \in Injection(1..n, S)
  BY <1>2, <1>3 DEF IsListing, Injection, IsInjective
<1>5. Cardinality(1..n) = n
  BY <1>1, FS_Interval
<1>6. s \in Surjection(1..n, S)
  BY <1>4, <1>5, FS_Injection
<1>7. QED
  BY <1>1, <1>2, <1>6 DEF Surjection, s

-----------------------------------------------------------------------------
(* The day-by-day replay of a lot's dated movements. *)

\* Totals add up row by row.
LEMMA TotalAdds ==
  ASSUME NEW n \in Nat, NEW f \in [1..n -> Int], NEW g \in [1..n -> Int],
         NEW h \in [1..n -> Int], \A k \in 1..n : h[k] = f[k] + g[k]
  PROVE  Total(h, n) = Total(f, n) + Total(g, n)
<1>1. PICK s : IsRun(f, n, s)
  BY RunExists
<1>2. PICK t : IsRun(g, n, t)
  BY RunExists
<1> DEFINE u == [k \in 0..n |-> s[k] + t[k]]
<1>3. IsRun(h, n, u)
  <2>1. /\ s \in [0..n -> Int] /\ s[0] = 0 /\ \A k \in 1..n : s[k] = s[k-1] + f[k]
        /\ t \in [0..n -> Int] /\ t[0] = 0 /\ \A k \in 1..n : t[k] = t[k-1] + g[k]
    BY <1>1, <1>2 DEF IsRun
  <2>2. u \in [0..n -> Int] /\ u[0] = 0
    BY <2>1
  <2>3. ASSUME NEW k \in 1..n
        PROVE  u[k] = u[k-1] + h[k]
    <3>1. k-1 \in 0..n /\ k \in 0..n
      OBVIOUS
    <3>2. s[k-1] \in Int /\ t[k-1] \in Int /\ f[k] \in Int /\ g[k] \in Int
      BY <2>1, <3>1
    <3>3. u[k] = s[k] + t[k] /\ u[k-1] = s[k-1] + t[k-1]
      BY <3>1
    <3>4. s[k] = s[k-1] + f[k] /\ t[k] = t[k-1] + g[k] /\ h[k] = f[k] + g[k]
      BY <2>1
    <3> HIDE DEF u
    <3> QED BY <3>2, <3>3, <3>4
  <2> HIDE DEF u
  <2> QED BY <2>2, <2>3 DEF IsRun
<1>4. Total(f, n) = s[n] /\ Total(g, n) = t[n]
  BY <1>1, <1>2, TotalIsRun
<1>5. Total(h, n) = u[n]
  <2> HIDE DEF u
  <2> QED BY <1>3, TotalIsRun
<1> QED BY <1>4, <1>5

\* A lot's movements: days and signed quantities.
DatedMoves == Seq(Nat \X Int)

LEMMA MovementRows ==
  ASSUME NEW events \in DatedMoves
  PROVE  /\ Len(events) \in Nat
         /\ DOMAIN events = 1..Len(events)
         /\ \A k \in 1..Len(events) : events[k][1] \in Nat /\ events[k][2] \in Int
         /\ EventDays(events) \subseteq Nat
         /\ IsFiniteSet(EventDays(events))
<1>1. /\ Len(events) \in Nat
      /\ DOMAIN events = 1..Len(events)
      /\ \A k \in 1..Len(events) : events[k] \in Nat \X Int
  BY DEF DatedMoves
<1>2. \A k \in 1..Len(events) : events[k][1] \in Nat /\ events[k][2] \in Int
  BY <1>1
<1>3. EventDays(events) \subseteq Nat
  BY <1>1, <1>2 DEF EventDays
<1>4. IsFiniteSet(EventDays(events))
  <2> DEFINE day == [k \in 1..Len(events) |-> events[k][1]]
  <2>1. IsFiniteSet(1..Len(events))
    BY <1>1, FS_Interval
  <2>2. day \in Surjection(1..Len(events), EventDays(events))
    BY <1>1 DEF Surjection, EventDays
  <2> HIDE DEF day
  <2> QED BY <2>1, <2>2, FS_Surjection
<1> QED BY <1>1, <1>2, <1>3, <1>4

LEMMA CarriedType ==
  ASSUME NEW events \in DatedMoves, NEW d \in Nat
  PROVE  CarriedTo(events, d) \in Int /\ NetOn(events, d) \in Int
<1>1. [k \in DOMAIN events |-> IF events[k][1] <= d THEN events[k][2] ELSE 0]
        \in [1..Len(events) -> Int]
  BY MovementRows
<1>2. [k \in DOMAIN events |-> IF events[k][1] = d THEN events[k][2] ELSE 0]
        \in [1..Len(events) -> Int]
  BY MovementRows
<1>3. Len(events) \in Nat
  BY MovementRows
<1> QED BY <1>1, <1>2, <1>3, TotalType DEF CarriedTo, NetOn

\* From one day to a later one the balance changes by the movements of that
\* day, if none are dated between; not at all, if none are dated on it either.
LEMMA CarriedOn ==
  ASSUME NEW events \in DatedMoves, NEW c \in Nat, NEW d \in Nat, c <= d,
         \A e \in EventDays(events) : e <= c \/ e >= d
  PROVE  /\ c < d => CarriedTo(events, d) = CarriedTo(events, c) + NetOn(events, d)
         /\ d \notin EventDays(events) => CarriedTo(events, d) = CarriedTo(events, c)
<1> DEFINE n == Len(events)
           f == [k \in DOMAIN events |-> IF events[k][1] <= c THEN events[k][2] ELSE 0]
           g == [k \in DOMAIN events |-> IF events[k][1] = d THEN events[k][2] ELSE 0]
           h == [k \in DOMAIN events |-> IF events[k][1] <= d THEN events[k][2] ELSE 0]
<1>1. /\ n \in Nat /\ DOMAIN events = 1..n
      /\ \A k \in 1..n : events[k][1] \in Nat /\ events[k][2] \in Int
  BY MovementRows
<1>2. f \in [1..n -> Int] /\ g \in [1..n -> Int] /\ h \in [1..n -> Int]
  BY <1>1
<1>3. \A k \in 1..n : events[k][1] <= c \/ events[k][1] >= d
  BY <1>1 DEF EventDays
<1>4. ASSUME c < d
      PROVE  CarriedTo(events, d) = CarriedTo(events, c) + NetOn(events, d)
  <2>1. \A k \in 1..n : h[k] = f[k] + g[k]
    BY <1>1, <1>3, <1>4
  <2>2. Total(h, n) = Total(f, n) + Total(g, n)
    <3> HIDE DEF f, g, h, n
    <3> QED BY <1>1, <1>2, <2>1, TotalAdds
  <2> QED BY <2>2 DEF CarriedTo, NetOn
<1>5. ASSUME d \notin EventDays(events)
      PROVE  CarriedTo(events, d) = CarriedTo(events, c)
  <2>1. \A k \in 1..n : events[k][1] # d
    BY <1>1, <1>5 DEF EventDays
  <2>2. \A k \in 1..n : h[k] = f[k]
    BY <1>1, <1>3, <2>1
  <2>3. Total(h, n) = Total(f, n)
    <3> HIDE DEF f, g, h, n
    <3> QED BY <1>1, <1>2, <2>2, TotalSame
  <2> QED BY <2>3 DEF CarriedTo
<1> QED BY <1>4, <1>5

\* A function defined by steps along 0..n.
Stepwise(n, D, start, next) ==
  \E s \in [0..n -> D] : s[0] = start /\ \A k \in 1..n : s[k] = next[k][s[k-1]]

LEMMA StepsExist ==
  ASSUME NEW n \in Nat, NEW D, NEW start \in D, NEW next, \A k \in 1..n : \A x \in D : next[k][x] \in D
  PROVE  Stepwise(n, D, start, next)
<1> DEFINE Steps(m, s) == /\ s \in [0..m -> D] /\ s[0] = start
                          /\ \A k \in 1..m : s[k] = next[k][s[k-1]]
           Good == {m \in 0..n : \E s : Steps(m, s)}
<1>1. Steps(0, [k \in 0..0 |-> start])
  OBVIOUS
<1>2. ASSUME NEW m \in 1..n, m-1 \in Good
      PROVE  m \in Good
  <2>1. PICK s : Steps(m-1, s)
    BY <1>2
  <2> DEFINE t == [k \in 0..m |-> IF k = m THEN next[m][s[m-1]] ELSE s[k]]
  <2>2. s[m-1] \in D
    BY <2>1
  <2>3. t \in [0..m -> D] /\ t[0] = start
    BY <2>1, <2>2
  <2>4. \A k \in 1..m : t[k] = next[k][t[k-1]]
    <3> SUFFICES ASSUME NEW k \in 1..m PROVE t[k] = next[k][t[k-1]]
      OBVIOUS
    <3>1. k-1 \in 0..(m-1) /\ t[k-1] = s[k-1]
      OBVIOUS
    <3>2. CASE k = m
      BY <3>1, <3>2
    <3>3. CASE k # m
      <4>1. k \in 1..(m-1) /\ t[k] = s[k]
        BY <3>3
      <4> QED BY <2>1, <3>1, <4>1
    <3> QED BY <3>2, <3>3
  <2>5. \E u : Steps(m, u)
    BY <2>3, <2>4
  <2> HIDE DEF Steps
  <2> QED BY <2>5
<1>3. 0 \in Good
  <2> HIDE DEF Steps
  <2> QED BY <1>1
<1>4. 0..n \subseteq Good
  <2> HIDE DEF Good
  <2> QED BY <1>2, <1>3, Climb
<1> QED BY <1>4 DEF Stepwise

\* What one day does to the replay.
ReplayStates == [running : Int, seen : BOOLEAN, lowest : Int]
Stepped(events, day, at) ==
  LET running == at.running + NetOn(events, day)
  IN  [running |-> running, seen |-> TRUE,
       lowest  |-> IF at.seen THEN Lower(at.lowest, running) ELSE running]

LEMMA ReplaySteps ==
  ASSUME NEW events \in DatedMoves, NEW days \in SUBSET Nat, IsFiniteSet(days),
         NEW start \in ReplayStates
  PROVE  \E s \in [0..Cardinality(days) -> ReplayStates] :
           /\ s[0] = start
           /\ \A k \in 1..Cardinality(days) : s[k] = Stepped(events, Ascending(days)[k], s[k-1])
           /\ Replay(events, days, start) = s[Cardinality(days)]
<1> DEFINE n == Cardinality(days)
           sorted == Ascending(days)
           next == [k \in 1..n |-> [x \in ReplayStates |-> Stepped(events, sorted[k], x)]]
           F(u) == [k \in 0..n |-> IF k = 0 THEN start ELSE Stepped(events, sorted[k], u[k-1])]
           t == CHOOSE u : u = F(u)
<1>1. n \in Nat /\ \A k \in 1..n : sorted[k] \in Nat
  BY AscendingLists DEF IsListing
<1>2. ASSUME NEW k \in 1..n, NEW x \in ReplayStates
      PROVE  Stepped(events, sorted[k], x) \in ReplayStates
  <2>1. NetOn(events, sorted[k]) \in Int
    BY <1>1, CarriedType
  <2> HIDE DEF sorted, n
  <2> QED BY <2>1 DEF Stepped, ReplayStates, Lower
<1>3. \A k \in 1..n, x \in ReplayStates : next[k][x] = Stepped(events, sorted[k], x)
  OBVIOUS
<1>4. \A k \in 1..n : \A x \in ReplayStates : next[k][x] \in ReplayStates
  BY <1>2, <1>3
<1>5. Replay(events, days, start) = t[n]
  BY DEF Replay, Stepped
<1> HIDE DEF next, n, sorted
<1>6. PICK s \in [0..n -> ReplayStates] :
        s[0] = start /\ \A k \in 1..n : s[k] = next[k][s[k-1]]
  <2>1. Stepwise(n, ReplayStates, start, next)
    BY <1>1, <1>4, StepsExist
  <2> QED BY <2>1 DEF Stepwise
<1>7. \A k \in 1..n : s[k-1] \in ReplayStates
  BY <1>1, <1>6
<1>8. \A k \in 1..n : s[k] = Stepped(events, sorted[k], s[k-1])
  BY <1>3, <1>6, <1>7
<1>9. s = F(s)
  BY <1>6, <1>8
<1>10. t = F(t)
  <2> HIDE DEF F
  <2> QED BY <1>9
<1>11. t \in [0..n -> ReplayStates] /\ t[0] = start /\ \A k \in 1..n : t[k] = Stepped(events, sorted[k], t[k-1])
  <2> HIDE DEF t
  <2> DEFINE Good == {m \in 0..n : t[m] = s[m]}
  <2>1. 0 \in Good
    BY <1>1, <1>6, <1>10
  <2>2. \A m \in 1..n : t[m] = Stepped(events, sorted[m], t[m-1])
    BY <1>1, <1>10
  <2>3. ASSUME NEW m \in 1..n, m-1 \in Good PROVE m \in Good
    BY <1>8, <2>2, <2>3
  <2>4. 0..n \subseteq Good
    <3> HIDE DEF Good
    <3> QED BY <1>1, <2>1, <2>3, Climb
  <2>5. t = [k \in 0..n |-> t[k]]
    BY <1>10
  <2>6. t[0] = start
    BY <1>1, <1>10
  <2> QED BY <2>2, <2>4, <2>5, <2>6, <1>6
<1> QED BY <1>5, <1>11 DEF n, sorted

\* The days of the movements after a given one.
DaysAfter(events, from) == {d \in EventDays(events) : d > from}

\* The replay stands at the end-of-day balance of the day it has reached, and
\* its lowest is the lowest of those it came through.
LEMMA ReplayLowest ==
  ASSUME NEW events \in DatedMoves, NEW from \in Nat, NEW start \in ReplayStates,
         start.running = CarriedTo(events, from), start.lowest = CarriedTo(events, from),
         NEW low, low = Replay(events, DaysAfter(events, from), start).lowest
  PROVE  /\ low \in Int
         /\ \A d \in DaysAfter(events, from) : low <= CarriedTo(events, d)
         /\ start.seen => low <= CarriedTo(events, from)
         /\ \/ low = CarriedTo(events, from) /\ (start.seen \/ DaysAfter(events, from) = {})
            \/ \E d \in DaysAfter(events, from) : low = CarriedTo(events, d)
<1> DEFINE days == DaysAfter(events, from)
           n == Cardinality(days)
           sorted == Ascending(days)
           at(k) == IF k = 0 THEN from ELSE sorted[k]
           C(d) == CarriedTo(events, d)
<1>1. days \subseteq Nat /\ IsFiniteSet(days)
  BY MovementRows, FS_Subset DEF DaysAfter
<1>2. /\ n \in Nat
      /\ \A k \in 1..n : sorted[k] \in days
      /\ \A i, j \in 1..n : i < j => sorted[i] < sorted[j]
      /\ \A x \in days : \E k \in 1..n : sorted[k] = x
  <2> HIDE DEF days
  <2> QED BY <1>1, AscendingLists DEF IsListing
<1>3. PICK s \in [0..n -> ReplayStates] :
        /\ s[0] = start
        /\ \A k \in 1..n : s[k] = Stepped(events, sorted[k], s[k-1])
        /\ Replay(events, days, start) = s[n]
  <2> HIDE DEF days
  <2> QED BY <1>1, ReplaySteps
<1>4. \A d \in days : d \in Nat /\ d > from /\ C(d) \in Int
  BY <1>1, CarriedType DEF DaysAfter
<1>5. C(from) \in Int
  BY CarriedType
<1>6. ASSUME NEW k \in 1..n
      PROVE  C(sorted[k]) = C(at(k-1)) + NetOn(events, sorted[k])
  <2>0. k # 1 => k-1 \in 1..n /\ k-1 < k /\ at(k-1) = sorted[k-1]
    <3> HIDE DEF n, sorted
    <3>1. k # 1 => k-1 \in 1..n /\ k-1 < k /\ k-1 # 0
      BY <1>2
    <3> QED BY <3>1
  <2>1. sorted[k] \in Nat /\ sorted[k] > from
    BY <1>2, <1>4
  <2>2. at(k-1) \in Nat /\ at(k-1) < sorted[k]
    <3>1. CASE k = 1
      BY <2>1, <3>1
    <3>2. CASE k # 1
      <4>1. k-1 \in 1..n /\ k-1 < k /\ at(k-1) = sorted[k-1]
        BY <2>0, <3>2
      <4> QED BY <4>1, <1>2, <1>4
    <3> QED BY <3>1, <3>2
  <2>3. ASSUME NEW e \in EventDays(events)
        PROVE  e <= at(k-1) \/ e >= sorted[k]
    <3>1. e \in Nat
      BY MovementRows
    <3>2. CASE e <= from
      <4>1. CASE k = 1
        BY <3>2, <4>1
      <4>2. CASE k # 1
        <5>1. k-1 \in 1..n /\ at(k-1) = sorted[k-1]
          BY <2>0, <4>2
        <5>2. sorted[k-1] \in Nat /\ sorted[k-1] > from
          BY <5>1, <1>2, <1>4
        <5> QED BY <3>1, <3>2, <5>1, <5>2
      <4> QED BY <4>1, <4>2
    <3>3. CASE e > from
      <4>1. PICK j \in 1..n : sorted[j] = e
        BY <3>3, <1>2 DEF DaysAfter
      <4>2. CASE j >= k
        <5>1. j = k \/ k < j
          BY <4>2
        <5> QED BY <4>1, <5>1, <2>1, <3>1, <1>2
      <4>3. CASE j < k
        <5>1. k # 1 /\ (j = k-1 \/ j < k-1)
          <6> HIDE DEF n
          <6> QED BY <1>2, <4>3
        <5>4. k-1 \in 1..n /\ at(k-1) = sorted[k-1]
          BY <2>0, <5>1
        <5>2. sorted[k-1] \in Nat
          BY <5>4, <1>2, <1>4
        <5>3. j < k-1 => sorted[j] < sorted[k-1]
          BY <5>4, <1>2
        <5> QED BY <4>1, <5>1, <5>4, <5>2, <5>3, <3>1
      <4> QED BY <4>2, <4>3
    <3> QED BY <3>1, <3>2, <3>3
  <2> HIDE DEF at, sorted, n, days
  <2>4. at(k-1) <= sorted[k]
    BY <2>1, <2>2
  <2> QED BY <2>1, <2>2, <2>3, <2>4, CarriedOn
<1> DEFINE Good == {k \in 0..n :
             /\ s[k].running = C(at(k)) /\ (s[k].seen <=> start.seen \/ k > 0)
             /\ \A j \in 1..k : s[k].lowest <= C(sorted[j])
             /\ start.seen => s[k].lowest <= C(from)
             /\ \/ s[k].lowest = C(from) /\ (start.seen \/ k = 0)
                \/ \E j \in 1..k : s[k].lowest = C(sorted[j])}
<1>7. 0 \in Good
  BY <1>2, <1>3, <1>5
<1>8. ASSUME NEW k \in 1..n, k-1 \in Good
      PROVE  k \in Good
  <2> DEFINE p == s[k-1]
             c == C(sorted[k])
  <2>1. k-1 \in 0..n /\ p \in ReplayStates
    BY <1>2, <1>3
  <2>2. p.lowest \in Int /\ p.seen \in BOOLEAN
    BY <2>1 DEF ReplayStates
  <2>3. c \in Int
    BY <1>2, <1>4
  <2>4. s[k] = [running |-> c, seen |-> TRUE,
                lowest |-> IF p.seen THEN Lower(p.lowest, c) ELSE c]
    <3>1. p.running + NetOn(events, sorted[k]) = c
      BY <1>6, <1>8
    <3>2. s[k] = Stepped(events, sorted[k], p)
      BY <1>3
    <3> HIDE DEF c, p
    <3> QED BY <3>1, <3>2 DEF Stepped
  <2>5. /\ s[k].running = c /\ s[k].seen
        /\ s[k].lowest = IF p.seen THEN Lower(p.lowest, c) ELSE c
    <3> HIDE DEF c, p
    <3> QED BY <2>4
  <2>6. /\ p.seen <=> start.seen \/ k-1 > 0
        /\ \A j \in 1..(k-1) : p.lowest <= C(sorted[j])
        /\ start.seen => p.lowest <= C(from)
        /\ \/ p.lowest = C(from) /\ (start.seen \/ k-1 = 0)
           \/ \E j \in 1..(k-1) : p.lowest = C(sorted[j])
    BY <1>8
  <2>7. \A j \in 1..k : j \in 1..n /\ C(sorted[j]) \in Int /\ (j = k \/ j \in 1..(k-1))
    BY <1>2, <1>4
  <2>8. s[k].lowest \in Int /\ s[k].lowest <= c /\ (s[k].lowest = c \/ (p.seen /\ s[k].lowest = p.lowest))
        /\ (p.seen => s[k].lowest <= p.lowest)
    <3> HIDE DEF c, p
    <3> QED BY <2>2, <2>3, <2>5 DEF Lower
  <2>9. \A j \in 1..k : s[k].lowest <= C(sorted[j])
    <3> SUFFICES ASSUME NEW j \in 1..k PROVE s[k].lowest <= C(sorted[j])
      OBVIOUS
    <3>1. CASE j = k
      BY <2>8, <3>1
    <3>2. CASE j \in 1..(k-1)
      <4>1. p.lowest <= C(sorted[j]) /\ C(sorted[j]) \in Int /\ p.seen
        BY <2>6, <2>7, <3>2
      <4> HIDE DEF C, p, sorted
      <4> QED BY <4>1, <2>2, <2>8
    <3> QED BY <2>7, <3>1, <3>2
  <2>10. start.seen => s[k].lowest <= C(from)
    <3> HIDE DEF C, p
    <3> QED BY <1>5, <2>2, <2>6, <2>8
  <2>11. \/ s[k].lowest = C(from) /\ (start.seen \/ k = 0)
         \/ \E j \in 1..k : s[k].lowest = C(sorted[j])
    <3>1. CASE s[k].lowest = c
      BY <3>1
    <3>2. CASE p.seen /\ s[k].lowest = p.lowest
      <4>1. CASE p.lowest = C(from) /\ (start.seen \/ k-1 = 0)
        <5>1. start.seen
          BY <2>6, <3>2, <4>1
        <5> QED BY <3>2, <4>1, <5>1
      <4>2. CASE \E j \in 1..(k-1) : p.lowest = C(sorted[j])
        BY <3>2, <4>2
      <4> QED BY <2>6, <4>1, <4>2
    <3> QED BY <2>8, <3>1, <3>2
  <2>12. at(k) = sorted[k] /\ k > 0 /\ k \in 0..n
    OBVIOUS
  <2> HIDE DEF p, C, sorted, at, n
  <2> QED BY <2>5, <2>9, <2>10, <2>11, <2>12 DEF p
<1>9. n \in Good
  <2> HIDE DEF Good
  <2>1. 0..n \subseteq Good
    BY <1>2, <1>7, <1>8, Climb
  <2> QED BY <2>1, <1>2
<1>10. low = s[n].lowest /\ s[n].lowest \in Int
  BY <1>2, <1>3 DEF ReplayStates
<1>11. days = {} => n = 0
  BY FS_EmptySet
<1>12. n = 0 => days = {}
  BY <1>2
<1> QED BY <1>2, <1>9, <1>10, <1>11, <1>12

\* Between two movements the balance stands still: on every day it is what it
\* was on the last day with a movement, or what was carried in.
LEMMA CarriedFrom ==
  ASSUME NEW events \in DatedMoves, NEW from \in Nat, NEW d \in Nat, from <= d
  PROVE  \/ CarriedTo(events, d) = CarriedTo(events, from)
         \/ \E e \in DaysAfter(events, from) : e <= d /\ CarriedTo(events, d) = CarriedTo(events, e)
<1>1. \A e \in EventDays(events) : e \in Nat
  BY MovementRows
<1>2. CASE \A e \in DaysAfter(events, from) : e > d
  <2>1. \A e \in EventDays(events) : e <= from \/ e > d
    BY <1>1, <1>2 DEF DaysAfter
  <2>2. CASE d = from
    BY <2>2
  <2>3. CASE d # from
    <3>1. d \notin EventDays(events) /\ \A e \in EventDays(events) : e <= from \/ e >= d
      BY <1>1, <2>1, <2>3
    <3> QED BY <3>1, CarriedOn
  <2> QED BY <2>2, <2>3
<1>3. ASSUME NEW x \in DaysAfter(events, from), ~(x > d)
      PROVE  \E e \in DaysAfter(events, from) : e <= d /\ CarriedTo(events, d) = CarriedTo(events, e)
  <2> DEFINE T == {k \in Nat : \E e \in DaysAfter(events, from) : e <= d /\ k = d - e}
  <2>1. x \in Nat /\ x <= d /\ d - x \in Nat
    BY <1>1, <1>3 DEF DaysAfter
  <2>2. T \subseteq Nat /\ d - x \in T
    BY <2>1
  <2>3. PICK m \in T : \A k \in T : m <= k
    <3> HIDE DEF T
    <3> QED BY <2>2, LeastNatural
  <2>4. PICK e \in DaysAfter(events, from) : e <= d /\ m = d - e
    OBVIOUS
  <2>5. e \in Nat /\ e > from
    BY <1>1 DEF DaysAfter
  <2>6. ASSUME NEW f \in EventDays(events), f <= d
        PROVE  f <= e
    <3>1. f \in Nat
      BY <1>1
    <3>2. CASE f > from
      <4>1. f \in DaysAfter(events, from) /\ d - f \in Nat
        BY <2>6, <3>1, <3>2 DEF DaysAfter
      <4>2. m <= d - f
        BY <2>3, <2>6, <4>1
      <4> QED BY <2>4, <2>5, <3>1, <4>2
    <3>3. CASE f <= from
      BY <2>5, <3>1, <3>3
    <3> QED BY <3>1, <3>2, <3>3
  <2>7. CASE d = e
    BY <2>7
  <2>8. CASE d # e
    <3>1. e <= d /\ d \notin EventDays(events) /\ \A f \in EventDays(events) : f <= e \/ f >= d
      BY <1>1, <2>4, <2>5, <2>6, <2>8
    <3>2. CarriedTo(events, d) = CarriedTo(events, e)
      BY <2>5, <3>1, CarriedOn
    <3> QED BY <2>4, <3>2
  <2> QED BY <2>7, <2>8
<1> QED BY <1>2, <1>3

\* A movement of its own day is one more row of the total.
LEMMA CarriedAppended ==
  ASSUME NEW events \in DatedMoves, NEW from \in Nat, NEW moved \in Int, NEW d \in Nat, from <= d
  PROVE  CarriedTo(Append(events, <<from, moved>>), d) = CarriedTo(events, d) + moved
<1> DEFINE n == Len(events)
           more == Append(events, <<from, moved>>)
           f == [k \in DOMAIN events |-> IF events[k][1] <= d THEN events[k][2] ELSE 0]
           g == [k \in DOMAIN more |-> IF more[k][1] <= d THEN more[k][2] ELSE 0]
<1>1. n \in Nat /\ DOMAIN events = 1..n /\ f \in [1..n -> Int]
  BY MovementRows
<1>2. more \in DatedMoves /\ Len(more) = n + 1
  BY DEF DatedMoves
<1>3. DOMAIN more = 1..(n+1) /\ g \in [1..(n+1) -> Int]
  <2> HIDE DEF more, n
  <2> QED BY <1>2, MovementRows
<1>4. /\ \A k \in 1..n : more[k] = events[k]
      /\ more[n+1] = <<from, moved>>
  BY <1>1 DEF DatedMoves
<1>5. /\ \A k \in 1..n : g[k] = f[k]
      /\ g[n+1] = moved
  <2> HIDE DEF more
  <2> QED BY <1>1, <1>3, <1>4
<1> HIDE DEF f, g, n, more
<1>6. PICK s : IsRun(g, n+1, s)
  BY <1>1, <1>3, RunExists
<1>7. /\ s \in [0..(n+1) -> Int] /\ s[0] = 0
      /\ \A k \in 1..(n+1) : s[k] = s[k-1] + g[k]
  BY <1>6 DEF IsRun
<1> DEFINE t == [k \in 0..n |-> s[k]]
<1>8. t \in [0..n -> Int] /\ t[0] = 0 /\ \A k \in 1..n : t[k] = t[k-1] + f[k]
  <2>1. \A k \in 0..n : k \in 0..(n+1) /\ t[k] = s[k]
    BY <1>1
  <2>2. \A k \in 1..n : k \in 1..(n+1) /\ k \in 0..n /\ k-1 \in 0..n
    BY <1>1
  <2>3. \A k \in 1..n : t[k] = t[k-1] + f[k]
    <3> HIDE DEF t
    <3> QED BY <1>5, <1>7, <2>1, <2>2
  <2>4. t \in [0..n -> Int]
    BY <1>7, <2>1
  <2>5. 0 \in 0..n
    BY <1>1
  <2> QED BY <1>7, <2>1, <2>3, <2>4, <2>5
<1>9. IsRun(f, n, t)
  BY <1>8 DEF IsRun
<1>10. Total(f, n) = s[n]
  <2>1. t[n] = s[n]
    BY <1>1
  <2> HIDE DEF t
  <2> QED BY <1>1, <1>9, <2>1, TotalIsRun
<1>11. Total(g, n+1) = s[n+1]
  BY <1>1, <1>3, <1>6, TotalIsRun
<1>12. s[n+1] = s[n] + moved
  BY <1>1, <1>5, <1>7
<1>13. CarriedTo(events, d) = Total(f, n) /\ CarriedTo(more, d) = Total(g, n+1)
  BY <1>2 DEF CarriedTo, f, g, n
<1> QED BY <1>10, <1>11, <1>12, <1>13 DEF more

\* min_running_balance() from a day is the most that can leave on that day
\* with every later end of day at zero or above.
THEOREM RoomFromDay ==
  ASSUME NEW events \in DatedMoves, NEW from \in Nat, NEW quantity \in Int, NEW days \in SUBSET Nat,
         from \in days, \A d \in days : d >= from, DaysAfter(events, from) \subseteq days
  PROVE  quantity <= MinRunningBalanceFrom(events, from) <=>
           \A d \in days : CarriedTo(Append(events, <<from, -quantity>>), d) >= 0
<1> DEFINE start == [running |-> CarriedTo(events, from), seen |-> TRUE, lowest |-> CarriedTo(events, from)]
           low == Replay(events, DaysAfter(events, from), start).lowest
           C(d) == CarriedTo(events, d)
<1>1. MinRunningBalanceFrom(events, from) = low
  BY DEF MinRunningBalanceFrom, DaysAfter
<1>2. start \in ReplayStates
  BY CarriedType DEF ReplayStates
<1>3. start.running = C(from) /\ start.lowest = C(from) /\ start.seen
  OBVIOUS
<1> HIDE DEF start
<1>4. /\ low \in Int
      /\ \A d \in DaysAfter(events, from) : low <= C(d)
      /\ low <= C(from)
      /\ low = C(from) \/ \E d \in DaysAfter(events, from) : low = C(d)
  BY <1>2, <1>3, ReplayLowest
<1>5. \A d \in days : C(d) \in Int /\ d \in Nat
  BY CarriedType
<1>6. \A d \in days : CarriedTo(Append(events, <<from, -quantity>>), d) = C(d) - quantity
  <2> SUFFICES ASSUME NEW d \in days
               PROVE  CarriedTo(Append(events, <<from, -quantity>>), d) = C(d) - quantity
    OBVIOUS
  <2>1. CarriedTo(Append(events, <<from, -quantity>>), d) = C(d) + (-quantity)
    BY CarriedAppended
  <2> HIDE DEF C
  <2> QED BY <1>5, <2>1
<1>7. \A d \in days : low <= C(d)
  <2> SUFFICES ASSUME NEW d \in days PROVE low <= C(d)
    OBVIOUS
  <2>1. C(d) = C(from) \/ \E e \in DaysAfter(events, from) : C(d) = C(e)
    BY CarriedFrom
  <2> HIDE DEF C, low
  <2> QED BY <1>4, <2>1
<1>8. \E d \in days : low = C(d)
  BY <1>4
<1> HIDE DEF low, C
<1>9. quantity <= low <=> \A d \in days : C(d) - quantity >= 0
  BY <1>4, <1>5, <1>7, <1>8
<1> QED BY <1>1, <1>6, <1>9

\* min_running_balance() of all movements is negative exactly when some day
\* ends short.
THEOREM RoomAnyDay ==
  ASSUME NEW events \in DatedMoves, NEW days \in SUBSET (Nat \ {0}), EventDays(events) \subseteq days
  PROVE  MinRunningBalance(events) < 0 <=> \E d \in days : CarriedTo(events, d) < 0
<1> DEFINE start == [running |-> 0, seen |-> FALSE, lowest |-> 0]
           low == Replay(events, DaysAfter(events, 0), start).lowest
           C(d) == CarriedTo(events, d)
<1>1. DaysAfter(events, 0) = EventDays(events) /\ \A d \in EventDays(events) : d \in Nat /\ d > 0
  <2>1. \A d \in EventDays(events) : d \in Nat /\ d > 0
    <3>1. \A d \in EventDays(events) : d \in Nat \ {0}
      OBVIOUS
    <3>2. \A d \in Nat \ {0} : d > 0
      OBVIOUS
    <3> QED BY <3>1, <3>2
  <2> QED BY <2>1 DEF DaysAfter
<1>2. MinRunningBalance(events) = low
  BY <1>1 DEF MinRunningBalance
<1>3. C(0) = 0
  <2> DEFINE n == Len(events)
             f == [k \in DOMAIN events |-> IF events[k][1] <= 0 THEN events[k][2] ELSE 0]
  <2>1. n \in Nat /\ DOMAIN events = 1..n /\ f \in [1..n -> Int]
    BY MovementRows
  <2>2. \A k \in 1..n : events[k][1] \in Nat /\ events[k][1] > 0
    BY <1>1, <2>1 DEF EventDays
  <2>3. \A k \in 1..n : f[k] = 0
    BY <2>1, <2>2
  <2>4. Total(f, n) = 0
    <3> HIDE DEF f, n
    <3> QED BY <2>1, <2>3, TotalZero
  <2> QED BY <2>4 DEF CarriedTo
<1>4. start \in ReplayStates /\ start.running = C(0) /\ start.lowest = C(0) /\ ~start.seen
  <2> HIDE DEF C
  <2> QED BY <1>3 DEF ReplayStates
<1> HIDE DEF start
<1>5. /\ low \in Int
      /\ \A d \in DaysAfter(events, 0) : low <= C(d)
      /\ \/ low = C(0) /\ (start.seen \/ DaysAfter(events, 0) = {})
         \/ \E d \in DaysAfter(events, 0) : low = C(d)
  BY <1>4, ReplayLowest
<1>6. ASSUME NEW d \in days, C(d) < 0
      PROVE  low < 0
  <2>1. d \in Nat /\ C(d) \in Int
    BY CarriedType
  <2>2. C(d) = C(0) \/ \E e \in DaysAfter(events, 0) : C(d) = C(e)
    BY <2>1, CarriedFrom
  <2> HIDE DEF C, low
  <2> QED BY <1>3, <1>5, <1>6, <2>1, <2>2
<1>7. ASSUME low < 0
      PROVE  \E d \in days : C(d) < 0
  <2> HIDE DEF low, C
  <2>1. low # C(0)
    BY <1>3, <1>5, <1>7
  <2>2. PICK d \in DaysAfter(events, 0) : low = C(d)
    BY <1>5, <2>1
  <2> QED BY <1>1, <1>7, <2>2
<1> HIDE DEF low
<1> QED BY <1>2, <1>6, <1>7

-----------------------------------------------------------------------------
(* Totals so far, and totals of totals. *)

\* A total over the first rows grows row by row.
LEMMA TotalClimbs ==
  ASSUME NEW n \in Nat, NEW f \in [1..n -> Int]
  PROVE  /\ Total(f, 0) = 0
         /\ \A m \in 0..n : Total(f, m) \in Int
         /\ \A m \in 1..n : Total(f, m) = Total(f, m-1) + f[m]
<1>1. PICK s : IsRun(f, n, s)
  BY RunExists
<1>2. s \in [0..n -> Int] /\ s[0] = 0 /\ \A k \in 1..n : s[k] = s[k-1] + f[k]
  BY <1>1 DEF IsRun
<1>3. ASSUME NEW m \in 0..n PROVE Total(f, m) = s[m]
  <2> DEFINE F(u) == [k \in 0..m |-> IF k = 0 THEN 0 ELSE u[k-1] + f[k]]
             t == CHOOSE u : u = F(u)
             r == [k \in 0..m |-> s[k]]
             Good == {k \in 0..m : t[k] = s[k]}
  <2>1. r = F(r)
    <3>1. \A k \in 0..m : k # 0 => k \in 1..n /\ k-1 \in 0..m
      OBVIOUS
    <3>2. \A k \in 0..m : k # 0 => s[k] = r[k-1] + f[k]
      BY <1>2, <3>1
    <3> QED BY <1>2, <3>2
  <2>2. t = F(t)
    <3> HIDE DEF F
    <3> QED BY <2>1
  <2>3. Total(f, m) = t[m]
    BY DEF Total
  <2> HIDE DEF t
  <2>4. 0 \in Good
    BY <1>2, <2>2
  <2>5. ASSUME NEW k \in 1..m, k-1 \in Good PROVE k \in Good
    <3>1. k \in 1..n /\ k \in 0..m /\ k # 0
      OBVIOUS
    <3> QED BY <1>2, <2>2, <2>5, <3>1
  <2>6. 0..m \subseteq Good
    <3>1. m \in Nat
      OBVIOUS
    <3> HIDE DEF Good
    <3> QED BY <2>4, <2>5, <3>1, Climb
  <2> QED BY <2>3, <2>6
<1>4. \A m \in 1..n : m \in 0..n /\ m-1 \in 0..n
  OBVIOUS
<1> QED BY <1>2, <1>3, <1>4

\* It looks at no row after them.
LEMMA TotalSoFar ==
  ASSUME NEW n \in Nat, NEW f \in [1..n -> Int], NEW g \in [1..n -> Int],
         NEW m \in 0..n, \A k \in 1..m : g[k] = f[k]
  PROVE  Total(g, m) = Total(f, m)
<1> DEFINE Good == {k \in 0..m : Total(g, k) = Total(f, k)}
<1>1. /\ Total(f, 0) = 0 /\ Total(g, 0) = 0
      /\ \A k \in 1..n : Total(f, k) = Total(f, k-1) + f[k]
      /\ \A k \in 1..n : Total(g, k) = Total(g, k-1) + g[k]
  BY TotalClimbs
<1>2. 0 \in Good
  BY <1>1
<1>3. ASSUME NEW k \in 1..m, k-1 \in Good PROVE k \in Good
  <2>1. k \in 1..n /\ k \in 0..m
    OBVIOUS
  <2> QED BY <1>1, <1>3, <2>1
<1>4. 0..m \subseteq Good
  <2>1. m \in Nat
    OBVIOUS
  <2> HIDE DEF Good
  <2> QED BY <1>2, <1>3, <2>1, Climb
<1> QED BY <1>4

\* Rows that count nothing leave it as it is.
LEMMA TotalRests ==
  ASSUME NEW n \in Nat, NEW f \in [1..n -> Int],
         NEW m \in 0..n, NEW j \in m..n, \A k \in m+1..j : f[k] = 0
  PROVE  Total(f, j) = Total(f, m)
<1> DEFINE Good == {k \in 0..j-m : Total(f, m+k) = Total(f, m)}
<1>1. \A k \in 1..n : Total(f, k) = Total(f, k-1) + f[k] /\ Total(f, k-1) \in Int
  <2>1. \A k \in 1..n : k-1 \in 0..n
    OBVIOUS
  <2> QED BY <2>1, TotalClimbs
<1>2. 0 \in Good
  OBVIOUS
<1>3. ASSUME NEW k \in 1..j-m, k-1 \in Good PROVE k \in Good
  <2>1. m+k \in 1..n /\ m+k \in m+1..j /\ (m+k)-1 = m+(k-1)
    OBVIOUS
  <2>2. Total(f, m+k) = Total(f, m+(k-1)) + f[m+k] /\ f[m+k] = 0 /\ Total(f, m+(k-1)) \in Int
    BY <1>1, <2>1
  <2> QED BY <1>3, <2>2
<1>4. 0..j-m \subseteq Good
  <2>1. j-m \in Nat
    OBVIOUS
  <2> HIDE DEF Good
  <2> QED BY <1>2, <1>3, <2>1, Climb
<1>5. j-m \in 0..j-m /\ m+(j-m) = j
  OBVIOUS
<1> QED BY <1>4, <1>5

\* More in every row is more in all.
LEMMA TotalMonotone ==
  ASSUME NEW n \in Nat, NEW f \in [1..n -> Int], NEW g \in [1..n -> Int],
         \A k \in 1..n : f[k] <= g[k]
  PROVE  Total(f, n) <= Total(g, n)
<1> DEFINE Good == {k \in 0..n : Total(f, k) <= Total(g, k)}
<1>1. /\ Total(f, 0) = 0 /\ Total(g, 0) = 0
      /\ \A k \in 1..n : Total(f, k) = Total(f, k-1) + f[k]
      /\ \A k \in 1..n : Total(g, k) = Total(g, k-1) + g[k]
      /\ \A k \in 0..n : Total(f, k) \in Int /\ Total(g, k) \in Int
  BY TotalClimbs
<1>2. 0 \in Good
  BY <1>1
<1>3. ASSUME NEW k \in 1..n, k-1 \in Good PROVE k \in Good
  <2>1. k-1 \in 0..n /\ f[k] <= g[k] /\ f[k] \in Int /\ g[k] \in Int
    OBVIOUS
  <2>2. Total(f, k-1) \in Int /\ Total(g, k-1) \in Int /\ Total(f, k-1) <= Total(g, k-1)
    BY <1>1, <1>3, <2>1
  <2>3. Total(f, k) = Total(f, k-1) + f[k] /\ Total(g, k) = Total(g, k-1) + g[k]
    BY <1>1
  <2> QED BY <2>1, <2>2, <2>3
<1>4. 0..n \subseteq Good
  <2> HIDE DEF Good
  <2> QED BY <1>2, <1>3, Climb
<1> QED BY <1>4

\* Summing columns or rows first comes to the same.
LEMMA TotalSwap ==
  ASSUME NEW m \in Nat, NEW n \in Nat, NEW f \in [1..m -> [1..n -> Int]]
  PROVE  Total([d \in 1..n |-> Total([l \in 1..m |-> f[l][d]], m)], n)
         = Total([l \in 1..m |-> Total(f[l], n)], m)
<1> DEFINE across(d) == [l \in 1..m |-> f[l][d]]
           down == [l \in 1..m |-> Total(f[l], n)]
           upto(k) == [d \in 1..n |-> Total(across(d), k)]
           Good == {k \in 0..m : Total(upto(k), n) = Total(down, k)}
<1>1. \A d \in 1..n : across(d) \in [1..m -> Int]
  OBVIOUS
<1>2. /\ \A d \in 1..n : Total(across(d), 0) = 0
      /\ \A d \in 1..n : \A k \in 0..m : Total(across(d), k) \in Int
      /\ \A d \in 1..n : \A k \in 1..m : Total(across(d), k) = Total(across(d), k-1) + f[k][d]
  <2> SUFFICES ASSUME NEW d \in 1..n
               PROVE  /\ Total(across(d), 0) = 0
                      /\ \A k \in 0..m : Total(across(d), k) \in Int
                      /\ \A k \in 1..m : Total(across(d), k) = Total(across(d), k-1) + f[k][d]
    OBVIOUS
  <2> DEFINE g == across(d)
  <2>1. g \in [1..m -> Int] /\ \A k \in 1..m : g[k] = f[k][d]
    OBVIOUS
  <2> HIDE DEF g
  <2>2. /\ Total(g, 0) = 0
        /\ \A k \in 0..m : Total(g, k) \in Int
        /\ \A k \in 1..m : Total(g, k) = Total(g, k-1) + g[k]
    BY <2>1, TotalClimbs
  <2>3. \A k \in 1..m : Total(g, k) = Total(g, k-1) + f[k][d]
    BY <2>1, <2>2
  <2> QED BY <2>2, <2>3 DEF g
<1>3. down \in [1..m -> Int]
  BY TotalType
<1>4. Total(down, 0) = 0 /\ \A k \in 1..m : Total(down, k) = Total(down, k-1) + Total(f[k], n)
  <2>1. \A k \in 1..m : down[k] = Total(f[k], n)
    OBVIOUS
  <2> HIDE DEF down
  <2>2. Total(down, 0) = 0 /\ \A k \in 1..m : Total(down, k) = Total(down, k-1) + down[k]
    BY <1>3, TotalClimbs
  <2> QED BY <2>1, <2>2
<1> HIDE DEF across, down
<1>5. \A k \in 0..m : upto(k) \in [1..n -> Int]
  BY <1>2
<1>6. 0 \in Good
  <2>1. Total(upto(0), n) = 0
    <3>1. upto(0) \in [1..n -> Int] /\ \A d \in 1..n : upto(0)[d] = 0
      BY <1>2, <1>5
    <3> DEFINE u == upto(0)
    <3>2. u \in [1..n -> Int] /\ \A d \in 1..n : u[d] = 0
      BY <3>1
    <3> HIDE DEF u
    <3>3. Total(u, n) = 0
      BY <3>2, TotalZero
    <3> QED BY <3>3 DEF u
  <2> QED BY <1>4, <2>1
<1>7. ASSUME NEW k \in 1..m, k-1 \in Good PROVE k \in Good
  <2> DEFINE u == upto(k-1)
             v == upto(k)
             w == f[k]
  <2>1. k-1 \in 0..m /\ k \in 0..m
    OBVIOUS
  <2>2. u \in [1..n -> Int] /\ v \in [1..n -> Int] /\ w \in [1..n -> Int]
    BY <1>5, <2>1
  <2>3. \A d \in 1..n : v[d] = u[d] + w[d]
    BY <1>2
  <2>4. Total(u, n) = Total(down, k-1)
    BY <1>7
  <2> HIDE DEF u, v, w
  <2>5. Total(v, n) = Total(u, n) + Total(w, n)
    BY <2>2, <2>3, TotalAdds
  <2>6. Total(down, k) = Total(down, k-1) + Total(w, n)
    BY <1>4 DEF w
  <2>7. Total(v, n) = Total(down, k)
    BY <2>4, <2>5, <2>6
  <2> QED BY <2>1, <2>7 DEF v
<1>8. 0..m \subseteq Good
  <2> HIDE DEF Good
  <2> QED BY <1>6, <1>7, Climb
<1>9. Total(upto(m), n) = Total(down, m)
  BY <1>8
<1> QED BY <1>9 DEF across, down

=============================================================================
