------------------------------ MODULE LotBook ------------------------------
(***************************************************************************)
(* What the stock ledger promises, with vouchers, MIRs and statuses        *)
(* forgotten: for each receipt an end-of-day balance for every day, never  *)
(* negative, changed only by dated documents.  A document of one day       *)
(* moves each lot it names by one amount on that day and every day after   *)
(* it, and leaves every earlier day as it was.                             *)
(***************************************************************************)
EXTENDS Integers

CONSTANTS Lots, LastDay

VARIABLE book   \* book[l][d]: what receipt l holds at the end of day d

Days == 1..LastDay

Books == [Lots -> [Days -> Int]]

NeverShort(b) == \A l \in Lots, d \in Days : b[l][d] >= 0

\* The net change of a lot, read off at the last day.
Change(l) == book'[l][LastDay] - book[l][LastDay]

\* A document dated `day` enters the book, leaves it, or is corrected.
Document(day) ==
  /\ book' \in Books
  /\ \A l \in Lots, d \in Days :
       book'[l][d] = book[l][d] + (IF d >= day THEN Change(l) ELSE 0)
  /\ NeverShort(book')

Init == book \in Books /\ NeverShort(book)

Next == \E day \in Days : Document(day)

Spec == Init /\ [][Next]_book
=============================================================================
