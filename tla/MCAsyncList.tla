---------------------------- MODULE MCAsyncList -----------------------------
(* Two Insert calls on one list: a batch of four items, then one of two.   *)
EXTENDS AsyncList

CONSTANTS i1, i2, i3, i4, i5, i6

MCItem == {i1, i2, i3, i4, i5, i6}
MCCallOf == [x \in MCItem |-> IF x \in {i1, i2, i3, i4} THEN 1 ELSE 2]

=============================================================================
