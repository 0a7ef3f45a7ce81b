------------------------- MODULE MCWorkerScheduler -------------------------
EXTENDS WorkerScheduler

CONSTANTS c1, c2, s1, s2, shared

TwoCallers  == {c1, c2}
TwoStorages == {s1, s2}
OneWorker   == {shared}

\* The worker's storage_id is NULL.
ServesAll == [w \in OneWorker |-> TwoStorages]
============================================================================
