--------------------------- MODULE MCHlsSessions ---------------------------
EXTENDS HlsSessions

CONSTANTS r1, r2, k1, s1, s2, u1, f1

TwoRequests == {r1, r2}
OneKey == {k1}
TwoIds == {s1, s2}

\* One variant of one file for one user.
Users == [k \in Keys |-> u1]
Files == [k \in Keys |-> f1]
============================================================================
