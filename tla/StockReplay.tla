---------------------------- MODULE StockReplay ----------------------------
(***************************************************************************)
(* min_running_balance() against what StockLedger takes for granted.  A    *)
(* lot's dated movements arrive one at a time, in any order of their days; *)
(* the invariant compares the sorted replay with the plain definition of   *)
(* the end-of-day balances, which is the form StockLedger uses.            *)
(***************************************************************************)
EXTENDS StockLedger

CONSTANTS
  MaxMove,    \* bound on one movement
  MaxEvents   \* bound on the number of movements

VARIABLE events   \* lot_events(...)[lot]: <<day, signed quantity>> in row order

MovementsInit == events = <<>>

Record(day, quantity) ==
  /\ Len(events) < MaxEvents
  /\ events' = Append(events, <<day, quantity>>)

MovementsNext == \E day \in Days, quantity \in (-MaxMove..MaxMove) \ {0} : Record(day, quantity)

MovementsSpec == MovementsInit /\ [][MovementsNext]_events
-----------------------------------------------------------------------------
\* The two answers of min_running_balance(), against the end-of-day balances.
\* From a day: a quantity may leave on it, and every day from then on stays at
\* zero or above, exactly when it is no more than the answer, so "quantity <=
\* _room" is StockLedger's HasRoom.  Without a day: the answer is negative
\* exactly when some day ends short, so refusing on "< 0" is StockLedger's
\* CoveredWith and CoveredWithout.
RoomIsExact ==
  /\ \A from \in Days, quantity \in 1..MaxMove :
       quantity <= MinRunningBalanceFrom(events, from) <=>
         \A d \in from..LastDay : CarriedTo(Append(events, <<from, -quantity>>), d) >= 0
  /\ MinRunningBalance(events) < 0 <=> \E d \in Days : CarriedTo(events, d) < 0
=============================================================================
