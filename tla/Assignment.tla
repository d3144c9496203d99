----------------------------- MODULE Assignment -----------------------------
(***************************************************************************)
(* What _assign_pairs() is asked for: of the one-to-one ways to give rows  *)
(* to lines along the offered pairs, one of the largest summed weight.  A  *)
(* line may stay without a row.  AssignPairs is the search that finds it,  *)
(* PlantMatch the callers.                                                 *)
(***************************************************************************)
EXTENDS Naturals, FiniteSetsExt

CONSTANTS Lines, Rows, NoRow

\* Lines and rows are database ids, and ties go by id.
ASSUME RowAssumption ==
  Lines \subseteq Nat \ {0} /\ Rows \subseteq Nat /\ NoRow \in Nat \ Rows

\* options[l] is the set of rows line l is offered.
OneToOne(options) ==
  LET offered == UNION {{<<l, r>> : r \in options[l]} : l \in Lines}
  IN  {given \in [Lines -> Rows \union {NoRow}] :
         /\ \A l \in Lines : given[l] # NoRow => <<l, given[l]>> \in offered
         /\ \A l, k \in Lines : given[l] = given[k] /\ l # k => given[l] = NoRow}

Total(weight, given) ==
  MapThenSumSet(LAMBDA l : IF given[l] = NoRow THEN 0 ELSE weight[l][given[l]], Lines)

Heaviest(options, weight) ==
  LET ways == OneToOne(options)
      most == Max({Total(weight, given) : given \in ways})
  IN  {given \in ways : Total(weight, given) = most}
=============================================================================
