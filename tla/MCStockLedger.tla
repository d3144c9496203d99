--------------------------- MODULE MCStockLedger ---------------------------
(* StockLedger on small instances for TLC, and beside it the balance replay  *)
(* it takes for granted: StockReplay runs in a store nothing has come to.    *)
EXTENDS StockReplay, TLC

CONSTANTS L1, L2, M1, M2, editor, admin, nobody

MCDocOf == (L1 :> M1) @@ (L2 :> M2)
MCOneDocOf == L1 :> M1

StoreInit == Init /\ MovementsInit
StoreNext ==
  \/ MovementsInit /\ Next /\ UNCHANGED events
  \/ Init /\ MovementsNext /\ UNCHANGED vars
StoreSpec == StoreInit /\ [][StoreNext]_<<vars, events>>
=============================================================================
