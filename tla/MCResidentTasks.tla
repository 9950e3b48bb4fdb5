--------------------------- MODULE MCResidentTasks ---------------------------
EXTENDS SingleTask

CONSTANTS a, b, x, y    \* files: one per window, one missing, one rejected

AllFiles == {a, b, x, y}
AllImages == [f \in AllFiles |-> CASE f = a -> "window0" [] f = b -> "window1"
                                   [] f = x -> "missing" [] f = y -> "reject"]
\* A pair that loads, and pairs that fail in the first and in the second turn.
AllPairs == {<<a, b>>, <<b, a>>, <<a, x>>}

GoodFiles == {a, b}
GoodImages == [f \in GoodFiles |-> IF f = a THEN "window0" ELSE "window1"]
GoodPairs == {<<a, b>>}
==============================================================================
