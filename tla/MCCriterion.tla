----------------------------- MODULE MCCriterion -----------------------------
(* A table with a column of each type, and some texts to type for each.      *)
EXTENDS Criterion

Code == <<"$", ",", "-", ".", "/", "0", "1", "2", "A", "a", "b">>

Types == [num |-> "num", fmt |-> "num-fmt", day |-> "date", moment |-> "moment",
          luxon |-> "luxon", name |-> "string", tags |-> "array"]
Columns == DOMAIN Types

T1 == <<"1">>  T2 == <<"2">>
Table ==
  [num    |-> {<<<<>>>>, <<T1>>, <<<<"1", ".", "2">>>>, <<<<"-", "2">>>>, <<<<"a">>>>},
   fmt    |-> {<<<<"$", "1">>>>, <<<<"-", "$", "2">>>>, <<<<"2", ",", "0">>>>},
   day    |-> {<<<<>>>>, <<<<"1", "/", "2">>>>, <<<<"2", "-", "1">>>>},
   moment |-> {<<<<"1", "/", "2">>>>, <<<<"2", "/", "1">>>>, <<<<"a">>>>},
   luxon  |-> {<<<<"1", "/", "2">>>>, <<<<"2", "/", "1">>>>, <<<<"a">>>>},
   name   |-> {<<<<>>>>, <<<<"A", "b">>>>, <<<<"b", "a">>>>, <<<<"a">>>>},
   tags   |-> {<<<<>>>>, <<<<"a">>>>, <<<<"a">>, <<"b">>>>, <<<<"b">>, <<"a", "b">>>>}]

Keyboard ==
  [num    |-> {<<>>, T1, <<"-", "1">>, <<"2">>},
   fmt    |-> {<<>>, <<"$", "2">>, <<"-", "1">>},
   day    |-> {<<>>, <<"1", "-", "2">>, <<"2", "-", "2">>},
   moment |-> {<<>>, <<"1", "/", "2">>, <<"1", "/", "1">>},
   luxon  |-> {<<>>, <<"1", "/", "2">>, <<"1", "/", "1">>},
   name   |-> {<<>>, <<"a">>, <<"A", "b">>},
   tags   |-> {}]

\* The page's script takes the comparisons of whole arrays out.
NoWholeArrays == {<<"array", "=">>, <<"array", "!=">>}
Comma == ","
\* Between the dates of the first of January and the second.
Today == 1100
=============================================================================
