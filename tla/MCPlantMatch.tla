---------------------------- MODULE MCPlantMatch ----------------------------
(* PlantMatch on seven small sets of sheets: three lines and four MIR rows   *)
(* on three MIR numbers, D3 a document of two rows.  Beside it, at a plant   *)
(* nobody has touched, the search behind its Heaviest: AssignPairs.          *)
EXTENDS PlantMatch

CONSTANTS A, B, v, X, Y, D1, D2, D3, boe, bill, other, PairRows, MaxWeight, Ceilings

VARIABLES weight, ceiling, waiting, matchLeft, matchRight, source, queue, gain,
          fromLeft, fromRight, end, budget, cut

pairVars == <<weight, ceiling, waiting, matchLeft, matchRight, source, queue, gain,
              fromLeft, fromRight, end, budget, cut>>

Pairs == INSTANCE AssignPairs WITH Rows <- PairRows

Sheets ==
  [order |-> <<A, A, B>>, imports |-> {}, vendor |-> [o \in Orders |-> v],
   desc |-> <<X, Y, X>>, qty |-> <<2, 1, 2>>, rate |-> <<1, 1, 1>>,
   boe |-> <<Nothing, Nothing, Nothing>>, bill |-> <<Nothing, Nothing, Nothing>>,
   doc |-> <<D1, D2, D3, D3>>, cites |-> <<A, A, Nothing, B>>,
   party |-> <<v, v, v, v>>, material |-> <<X, Y, X, X>>, received |-> <<2, 1, 1, 1>>,
   price |-> <<1, 1, 1, 1>>, booked |-> <<Nothing, Nothing, Nothing, Nothing>>,
   fabrics |-> {}, twoOfThree |-> FALSE, oneUnit |-> TRUE]

\* Two orders with several receipts that cite them.
ByNumber == Sheets

\* One Bill of Entry over three lines: booked on two rows, and on three.
OnBoe ==
  [Sheets EXCEPT !.order = <<A, A, A>>, !.imports = Lines, !.desc = <<X, X, Y>>,
                 !.boe = <<boe, boe, boe>>, !.bill = <<bill, bill, bill>>,
                 !.cites = <<Nothing, Nothing, Nothing, Nothing>>,
                 !.material = <<X, X, X, Y>>,
                 !.booked = <<boe, boe, Nothing, Nothing>>]
OnBoeEach == [OnBoe EXCEPT !.booked = <<boe, Nothing, boe, boe>>, !.party = <<v, v, v, Nothing>>]

\* Twins of one order, one part of a rate group, and nothing that cites anything.
Twin ==
  [Sheets EXCEPT !.desc = <<X, X, X>>, !.qty = <<1, 1, 2>>,
                 !.cites = <<A, Nothing, Nothing, Nothing>>, !.material = <<X, X, X, X>>,
                 !.received = <<1, 1, 1, 2>>, !.price = <<1, 1, 1, 2>>]

\* A Bill of Entry that is not trusted, and one that cannot be split.
TwoBills == [OnBoe EXCEPT !.bill = <<bill, bill, other>>]
NoSplit == [OnBoe EXCEPT !.oneUnit = FALSE]

\* Two orders that one set of rows fits, a domestic and an imports one, at the
\* plant that takes any two votes.
TwoVotes ==
  [ByNumber EXCEPT !.imports = {3}, !.desc = <<X, Y, X>>, !.twoOfThree = TRUE,
                   !.fabrics = {X, Y}, !.party = <<v, v, Nothing, v>>,
                   !.cites = <<Nothing, Nothing, A, Nothing>>,
                   !.boe = <<Nothing, Nothing, boe>>, !.booked = <<Nothing, Nothing, Nothing, boe>>]

NothingToAssign == \A l \in Lines : Pairs!Adjacent(l) = {}

EngineInit ==
  /\ Init /\ Pairs!Init
  /\ IF NothingToAssign THEN ceiling = Max(Ceilings) ELSE world = Sheets
EngineNext ==
  \/ NothingToAssign /\ Next /\ UNCHANGED pairVars
  \/ Pairs!Next /\ UNCHANGED vars
EngineSpec == EngineInit /\ [][EngineNext]_<<vars, pairVars>>

\* The properties of the search, which AssignPairs states.
HeaviestWhenUncut == Pairs!HeaviestWhenUncut
FlipGainsItsEnd == [][Pairs!FlipGains]_pairVars

SomeWorlds == {ByNumber, OnBoe, OnBoeEach, Twin, TwoBills, NoSplit, TwoVotes}
=============================================================================
