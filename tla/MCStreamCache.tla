--------------------------- MODULE MCStreamCache ---------------------------
EXTENDS StreamCache

CONSTANTS r1, r2, r3, k1, k2

ThreeRequests == {r1, r2, r3}
TwoKeys       == {k1, k2}

\* A last chunk and a full one.
Sizes == [k \in TwoKeys |-> IF k = k1 THEN 1 ELSE 2]
============================================================================
