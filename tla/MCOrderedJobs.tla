--------------------------- MODULE MCOrderedJobs ---------------------------
EXTENDS OrderedJobs

CONSTANTS w1, w2

TwoWorkers == {w1, w2}
============================================================================
