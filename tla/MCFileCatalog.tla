--------------------------- MODULE MCFileCatalog ---------------------------
EXTENDS FileCatalog

CONSTANTS f1, f2, d1, k1

TwoFiles == {f1, f2}

\* A file renamed over the other name of its folder.
SomeRenames == {<<<<d1, 0>>, <<d1, 1>>>>}
============================================================================
