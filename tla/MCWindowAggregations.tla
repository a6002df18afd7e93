------------------------- MODULE MCWindowAggregations -------------------------
(* Windows of three buckets over ten ticks, so that the duration is no     *)
(* multiple of the bucket length.  The quotient is late at 6 and at 21     *)
(* ticks, early at 12: once in each direction within the Horizon, and      *)
(* again in the third round of the buckets.                                *)
EXTENDS WindowAggregations

Window(op, ty) == [op |-> op, ty |-> ty]

(* A count never looks at its values: the one Unsigned number is enough.  *)
GoodWindows == {w \in Supported : w.op = "count" => w.ty = "Unsigned"}
Integrals == {Window("integral", "Signed")}

MCNumbers == {-3, 2}
MCSlips == [k \in {2, 4, 7} |-> IF k = 4 THEN -1 ELSE 1]
=============================================================================
