----------------------------- MODULE MCStockTxn -----------------------------
(* StockTxn on small instances for TLC. *)
EXTENDS StockTxn, TLC

CONSTANTS M1, editor, admin, nobody, R1, R2

MCSameDocOf == (1 :> M1) @@ (2 :> M1)
=============================================================================
