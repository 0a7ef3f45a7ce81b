--------------------------- MODULE MCChunkUpload ---------------------------
EXTENDS ChunkUpload, TLC

CONSTANTS c1, c2, c3

TwoChunks   == {c1, c2}
ThreeChunks == {c1, c2, c3}
Symmetry    == Permutations(Chunks)
============================================================================
