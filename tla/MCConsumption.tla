---------------------------- MODULE MCConsumption ----------------------------
(* One lot - the rows of several lots only add up - over eleven days, the    *)
(* first on which a rebuild's window leaves out a reading, with the code's   *)
(* limits scaled down to the outages they have to bridge.                    *)
EXTENDS ConsumptionLedger
=============================================================================
