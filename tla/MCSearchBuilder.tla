--------------------------- MODULE MCSearchBuilder ---------------------------
(* Small instances of SearchBuilder: a table with one column of two values   *)
(* and an empty cell, and the condition "=".                                   *)
EXTENDS SearchBuilder, TLC

CONSTANTS c1, c2, c3, g1, g2

\* A row is named by the value of its cell.
MCPasses(column, cond, value, row) ==
  CASE cond = "=" -> row = value
    [] cond = "null" -> row = "empty"

\* The lists of criteria scripts pass to rebuild(), the second not complete
\* yet, and the empty details that getDetails() returns for an empty control.
OneCriterion == [logic |-> "AND", criteria |-> <<[data |-> "name", cond |-> "=", value |-> "a"]>>]
AnyOfTwo == [logic |-> "OR", criteria |-> <<[data |-> "name", cond |-> "=", value |-> "a"],
                                            [data |-> "name", cond |-> "=", value |-> None]>>]
NoCriteria == [logic |-> None, criteria |-> <<>>]
SomeDetails == {OneCriterion, NoCriteria, None}

\* The bound of the run: one criterion at a time is not complete.
OneAtATime == Cardinality({c \in LiveCrit(sb) : ~sb.crit[c].filled}) <= 1

Symmetry == Permutations(Crit) \cup Permutations(Sub)
==============================================================================
