---------------------------- MODULE MCDataTable ----------------------------
(* Four rows that differ in their names, their values and their words, points *)
(* of a chart for a name with one row and for one with two, a point of value  *)
(* 0, and two tables' worth of conditions: AND, and NONE.                     *)
EXTENDS DataTable

Row == 1..4
ab == <<"a", "b">>
ba == <<"b", "a">>
abc == <<"a", "b", "c">>
one == <<"a">>
last == <<"c">>
RowWords == << << <<ab>>, <<ba>> >>, << <<abc>>, <<one>> >>, << <<ba, last>> >>, << << <<"c", "a", "b", "d", "d">> >> >> >>
\* A word that begins with <<"a">>, and a likelier one in the cell after it.
aaa == <<"a", "a", "a">>
PrefixWords == [RowWords EXCEPT ![2] = << <<aaa>>, <<ba>> >>]
RowCategory == <<"x", "Y", "x", "y">>
Small == [name \in {"x", "Y", "y"} |-> IF name = "Y" THEN "y" ELSE name]
RowValues == <<{"5"}, {"5", "7"}, {"7"}, {}>>
RowData == << [n |-> <<1, 0>>, s |-> <<10, -11>>], [n |-> <<9>>, s |-> <<10, 11>>], [n |-> <<>>, s |-> <<>>], [n |-> <<12>>, s |-> <<-10>>] >>
Typed == { <<>>, <<ab>>, <<last, one>> }
Scripted == { <<ab>> }
Begin == Typed \cup {<<one>>}
Pairs == { [category |-> "x", value |-> "5"], [category |-> "x", value |-> Zero], [category |-> "Y", value |-> "5"] }
Half == <<1, 2>>

Condition(column, type, operator, value, list, reverse) ==
  [column |-> column, type |-> type, operator |-> operator, value |-> value, list |-> list,
   reverse |-> reverse, caseSensitive |-> list]
Nine == <<9>>
Between9And10 == <<<<9>>, <<1, 0>>>>
Formats == {
  <<[logic |-> "AND", conditions |-> <<Condition("n", "number", "ge", Nine, FALSE, FALSE), Condition("s", "string", "contains", <<11>>, FALSE, FALSE),
                                       Condition("n", "date", "gt", <<8>>, FALSE, FALSE)>>]>>,
  <<[logic |-> "NONE", conditions |-> <<Condition("n", "number", "lt", Nine, FALSE, TRUE), Condition("s", "string", "in", <<<<10, 11>>>>, TRUE, FALSE),
                                        Condition("n", "number", "between", Between9And10, TRUE, FALSE), Condition("n", "number", "le", <<8>>, FALSE, FALSE),
                                        Condition("m", "bool", "eq", <<10>>, FALSE, FALSE)>>]>> }
=============================================================================
