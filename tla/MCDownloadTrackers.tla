------------------------- MODULE MCDownloadTrackers -------------------------
EXTENDS DownloadTrackers

CONSTANTS i1, t1

\* A download and the one that resumes it.
OneId   == [r \in Requests |-> i1]
Watched == [s \in Streams |-> i1]
=============================================================================
