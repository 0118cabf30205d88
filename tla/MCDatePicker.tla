---------------------------- MODULE MCDatePicker ----------------------------
(* The turn of a year, a leap year's February beside a common one, and a     *)
(* clock of twelve hours.                                                    *)
EXTENDS DatePicker

At(y, m, day, h, mi) == [y |-> y, m |-> m, d |-> day, h |-> h, mi |-> mi]
Present == At(2024, 0, 31, 12, 35)
Texts == {At(2023, 11, 31, 12, 35), Invalid}
Months == {<<2023, 1>>, <<2024, 0>>, <<2024, 1>>}
Days == {1, 31}
One == {13}
Some == {30, 35}
Limits == {[y |-> 2024, m |-> 0, d |-> 1]}
Sunday == {0}
AllHours == 0..23
Quarters == {35}
=============================================================================
