---------------------------- MODULE MCRangeReads ----------------------------
EXTENDS RangeReads, TLC

CONSTANTS b1, b2, b3

\* Either layout, with a size that is exact, overshoots or is missing.
Single  == [sizes |-> <<2>>, size |-> 2]
Exact   == [sizes |-> <<3, 3, 2>>, size |-> 8]
Full    == [sizes |-> <<3, 3>>, size |-> 7]
Unsized == [sizes |-> <<3, 3, 1>>, size |-> 0]
Old     == [sizes |-> <<5, 5, 1>>, size |-> 11]
OldOver == [sizes |-> <<5, 3>>, size |-> 9]
OldUnsized == [sizes |-> <<5, 5, 1>>, size |-> 0]

SomeFiles == {Single, Exact, Full, Unsized, Old, OldOver, OldUnsized}

\* Every chunk has the id b1 was given, and every bot is in the channel.
Owned(c) == [ids |-> [k \in Chunks |-> c], recorded |-> Chunks, members |-> Bots]

Headers == {None} \X {0, 1, 4, 20} \cup (0..10) \X {None, 3, 6, 7, 20}

\* Every range of every file, without faults.
EveryRange == {[file |-> f, first |-> h[1], last |-> h[2], chat |-> Owned(b1), budget |-> 0] :
                 f \in SomeFiles, h \in Headers}

\* Every chat, with faults.
Chats == {[ids |-> [k \in Chunks |-> i], recorded |-> r, members |-> m] :
            i \in {b1, Lost}, r \in {Chunks, {}}, m \in SUBSET Bots}
EveryChat == {[file |-> Single, first |-> 0, last |-> None, chat |-> c, budget |-> 3] : c \in Chats}

\* Reads of several chunks, with a fault.
Faulty == {[file |-> f, first |-> 4, last |-> None, chat |-> Owned(i), budget |-> 1] :
             f \in {Unsized, Old}, i \in {b1, Lost}}

SomeRequests == EveryRange \cup EveryChat \cup Faulty
=============================================================================
