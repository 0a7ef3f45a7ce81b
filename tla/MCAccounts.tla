----------------------------- MODULE MCAccounts -----------------------------
EXTENDS Accounts, TLC

CONSTANTS r1, r2, root, anna, s1

SomeChats == [s \in Storages |-> 1]
Homes     == [v \in Videos |-> CHOOSE s \in Storages : TRUE]
Lengths   == [v \in Videos |-> 100]
Symmetry  == Permutations(Requests)
=============================================================================
