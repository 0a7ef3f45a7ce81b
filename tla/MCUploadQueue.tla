--------------------------- MODULE MCUploadQueue ---------------------------
EXTENDS UploadQueue

CONSTANTS b1, l1, l2, i1, i2

TwoItems == <<l1, l2>>

\* The browser uploads under the id it was told for the second local file.
SomeIds == [u \in {b1, l1, l2} |-> IF u = l1 THEN i2 ELSE i1]
Lengths == [u \in {b1, l1, l2} |-> IF u = l1 THEN 0 ELSE 1]
============================================================================
