---------------------------- MODULE MCStockMixes ----------------------------
(* StockTxn for two uses of a store with a lot of each origin: one where     *)
(* goods of a MIR are issued, returned and cancelled, one where an opening   *)
(* balance is corrected.                                                     *)
EXTENDS StockTxn, TLC

CONSTANTS M1, M2, editor, admin, nobody, R1, R2

VARIABLE mix

MCDocOf == (1 :> M1) @@ (2 :> M2)

\* Bound: two vouchers are enough where every one of them may be decided.
InsertsLeft ==
  posted + Cardinality({r \in InFlight : txn[r].op.name \in Inserting}) < 2

IssuingAsked ==
  {op \in IssuesAsked \cup ReturnsAsked \cup CancelsAsked \cup RejectionsAsked :
     op.move[2] = 0 /\ op.name # "CANCEL_OPENING"}

AdjustingAsked ==
  {op \in IssuesAsked \cup DifferencesAsked \cup DecisionsAsked \cup CancelsAsked :
     op.move[1] = 0 /\ op.name # "CANCEL_MIR" /\ (op.name \in Inserting => InsertsLeft)}

MixesInit == TxnInit /\ mix \in {"issuing", "adjusting"}
MixesNext ==
  /\ \/ TxnTick
     \/ mix = "issuing" /\ TxnReceiveMir
     \/ mix = "issuing" /\ \E r \in Reqs, op \in IssuingAsked : Start(r, op)
     \/ mix = "adjusting" /\ \E r \in Reqs, op \in AdjustingAsked : Start(r, op)
     \/ \E r \in Reqs : Run(r)
  /\ UNCHANGED mix
MixesSpec == MixesInit /\ [][MixesNext]_<<mix, allVars>>

Swapped == Permutations({R1, R2})
=============================================================================
