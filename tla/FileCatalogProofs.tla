------------------------- MODULE FileCatalogProofs -------------------------
(***************************************************************************)
(* A stored file keeps its messages, and a deleted row stays deleted, for  *)
(* every set of uploads, deleters, directories and moves.                  *)
(*                                                                         *)
(* Neither follows from itself.  That a clean-up takes a message of a      *)
(* stored file only after a COMMIT without an answer needs to know that    *)
(* only a failed upload cleans up and that, such COMMITs apart, only a     *)
(* successful one is stored; that the commit marks a row which is still    *)
(* there needs the row locks to exclude each other: a row is held by the   *)
(* transaction of its own upload or by one other, never by two.            *)
(***************************************************************************)
EXTENDS FileCatalog, FiniteSetTheorems, WellFoundedInduction, TLAPS

\* What the stage of an upload says about its row, its chunks and its
\* background cleanup.
Stage(f) ==
  /\ up[f] \in {"idle", "inserting", "skipped"} => rowState[f] = "none"
  /\ up[f] \in {"locked", "ready"} => rowState[f] = "pending"
  /\ up[f] \in {"stored", "ok"} => rowState[f] \in {"uploaded", "gone"}
  /\ rowState[f] = "uploaded" => up[f] \in {"stored", "ok"} \/ f \in unanswered
  /\ f \in unanswered => up[f] = "error"
  /\ up[f] \in {"locked", "ready", "stored", "ok"} => sent[f] = Chunks
  /\ up[f] # "error" => cleanup[f] = {}

\* What an upload has sent is in the channel until it fails, or until a
\* delete that listed the file takes it.
Kept(f) == up[f] # "error" /\ f \notin listed => {f} \X sent[f] \subseteq msgs

\* The leftovers a transaction holds are pending rows of uploads that hold no
\* lock themselves, and no other transaction holds them.
Held(f) ==
  /\ up[f] # "ready" => stale[f] = {}
  /\ \A g \in stale[f] : rowState[g] = "pending" /\ up[g] \notin {"locked", "ready"}
  /\ \A h \in Files \ {f} : stale[f] \cap stale[h] = {}

\* A delete asks Telegram only for the messages of files it has listed.
DeletesListed == \A x \in Deleters : \A m \in del[x].list : m[1] \in listed

IInv ==
  /\ TypeOK /\ DeletesListed
  /\ \A f \in Files : Stage(f) /\ Kept(f) /\ Held(f)

----------------------------------------------------------------------------
\* A set of naturals that is not empty has a least member.
LEMMA LeastMember ==
  ASSUME NEW T \in SUBSET Nat, T # {}
  PROVE  \E m \in T : \A k \in T : m <= k
<1>1. PICK m \in T : \A k \in T : ~ (<<k, m>> \in OpToRel(<, Nat))
  BY WFMin, NatLessThanWellFounded
<1>2. ASSUME NEW k \in T, k < m PROVE FALSE
  <2>1. <<k, m>> \in OpToRel(<, Nat)
    BY <1>2 DEF OpToRel
  <2> QED BY <2>1, <1>1
<1> QED BY <1>2

\* A new upload finds a free name: the rows of the others are fewer than the
\* names of a directory.
LEMMA FreeNumber ==
  ASSUME TypeOK, NEW f \in Files, ~Present(f), NEW d \in Dirs,
         RowsAt(<<d, 0>>) # {}
  PROVE  \E n \in 1..MaxNumber : RowsAt(<<d, n>>) = {}
<1>1. PICK g \in Files : g \in RowsAt(<<d, 0>>)
  BY DEF RowsAt
<1>2. g # f
  BY <1>1 DEF RowsAt
<1> DEFINE Others == (Files \ {f}) \ {g}
<1>3. IsFiniteSet(Others) /\ Cardinality(Others) = Cardinality(Files) - 2
  <2>1. IsFiniteSet(Files \ {f}) /\ Cardinality(Files \ {f}) = Cardinality(Files) - 1
    BY CatalogAssumption, FS_RemoveElement
  <2>2. Cardinality(Files) \in Nat
    BY CatalogAssumption, FS_CardinalityType
  <2>3. g \in Files \ {f}
    BY <1>2
  <2>4. IsFiniteSet(Others) /\ Cardinality(Others) = Cardinality(Files \ {f}) - 1
    BY <2>1, <2>3, FS_RemoveElement
  <2> QED BY <2>1, <2>2, <2>4
<1>4. Cardinality(Files) \in Nat /\ MaxNumber \in Nat
      /\ Cardinality(Files) <= MaxNumber + 1
  BY CatalogAssumption, FS_CardinalityType
<1> SUFFICES ASSUME \A n \in 1..MaxNumber : RowsAt(<<d, n>>) # {}
             PROVE  FALSE
  OBVIOUS
<1>5. ASSUME NEW n \in 1..MaxNumber
      PROVE  \E h \in Others : rowPath[h] = <<d, n>>
  <2>1. PICK h \in Files : h \in RowsAt(<<d, n>>)
    BY DEF RowsAt
  <2>2. rowPath[h] = <<d, n>> /\ Present(h)
    BY <2>1 DEF RowsAt
  <2>3. h # g
    <3>1. rowPath[g] = <<d, 0>> /\ <<d, n>> # <<d, 0>>
      BY <1>1 DEF RowsAt
    <3> QED BY <2>2, <3>1
  <2> QED BY <2>2, <2>3
<1> HIDE DEF Others
<1>6. PICK at \in [1..MaxNumber -> Others] :
        \A n \in 1..MaxNumber : rowPath[at[n]] = <<d, n>>
  <2>1. [n \in 1..MaxNumber |-> CHOOSE h \in Others : rowPath[h] = <<d, n>>]
          \in [1..MaxNumber -> Others]
    BY <1>5
  <2> QED BY <1>5, <2>1
<1>7. IsFiniteSet(1..MaxNumber) /\ Cardinality(1..MaxNumber) = MaxNumber
  BY <1>4, FS_Interval
<1>8. Cardinality(Others) < Cardinality(1..MaxNumber)
  BY <1>3, <1>4, <1>7
<1>9. PICK m, n \in 1..MaxNumber : m # n /\ at[m] = at[n]
  <2> DEFINE numbers == 1..MaxNumber
  <2>1. IsFiniteSet(numbers) /\ IsFiniteSet(Others) /\ at \in [numbers -> Others]
        /\ Cardinality(Others) < Cardinality(numbers)
    BY <1>3, <1>6, <1>7, <1>8
  <2>2. \E x, y \in numbers : x # y /\ at[x] = at[y]
    <3> HIDE DEF numbers
    <3> QED BY <2>1, FS_PigeonHole
  <2> QED BY <2>2
<1>10. <<d, m>> = <<d, n>>
  BY <1>6, <1>9
<1> QED BY <1>9, <1>10

\* CreateFileAnyway stores at a path of the directory.
LEMMA FreePathIsPath ==
  ASSUME TypeOK, NEW f \in Files, ~Present(f), NEW d \in Dirs
  PROVE  FreePath(d) \in Paths
<1>1. MaxNumber \in Nat /\ <<d, 0>> \in Paths
  BY CatalogAssumption DEF Paths
<1>2. CASE RowsAt(<<d, 0>>) = {}
  BY <1>1, <1>2 DEF FreePath
<1>3. CASE RowsAt(<<d, 0>>) # {}
  <2> DEFINE Free(n) == /\ RowsAt(<<d, n>>) = {}
                        /\ \A m \in 1..(n - 1) : RowsAt(<<d, m>>) # {}
  <2>1. \E n \in 1..MaxNumber : Free(n)
    <3> DEFINE T == {n \in 1..MaxNumber : RowsAt(<<d, n>>) = {}}
    <3>1. T # {} /\ T \in SUBSET Nat
      BY <1>3, FreeNumber
    <3>2. PICK n \in T : \A k \in T : n <= k
      <4> HIDE DEF T
      <4> QED BY <3>1, LeastMember
    <3>3. n \in 1..MaxNumber /\ RowsAt(<<d, n>>) = {}
      OBVIOUS
    <3>4. ASSUME NEW m \in 1..(n - 1) PROVE RowsAt(<<d, m>>) # {}
      <4>1. m \in 1..MaxNumber /\ ~ (n <= m)
        BY <1>1, <3>3
      <4> QED BY <3>2, <4>1
    <3> QED BY <3>3, <3>4
  <2> DEFINE chosen == CHOOSE n \in 1..MaxNumber : Free(n)
  <2>2. chosen \in 1..MaxNumber
    <3> HIDE DEF Free
    <3> QED BY <2>1
  <2>3. FreePath(d) = <<d, chosen>>
    BY <1>3 DEF FreePath
  <2> HIDE DEF chosen
  <2>4. chosen \in 0..MaxNumber
    BY <1>1, <2>2
  <2> QED BY <2>3, <2>4 DEF Paths
<1> QED BY <1>2, <1>3

\* A moved row gets a path: a folder keeps the names below it.
LEMMA MovedIsPath ==
  ASSUME NEW r \in Renames, NEW p \in Paths, p \in Matches(r[1])
  PROVE  Moved(p, r[1], r[2]) \in Paths
<1>1. CASE r \in Paths \X Paths
  <2>1. r[1] \notin Dirs /\ r[2] \in Paths
    BY <1>1, CatalogAssumption
  <2> QED BY <2>1 DEF Moved
<1>2. CASE r \in Dirs \X Dirs
  BY <1>2 DEF Moved, Paths
<1> QED BY <1>1, <1>2, CatalogAssumption
----------------------------------------------------------------------------
\* An upload that begins has sent nothing and holds nothing.
LEMMA BeginUploadIInv ==
  ASSUME IInv, NEW f \in Files, NEW d \in Dirs, NEW policy \in {"skip", "keep_both"},
         BeginUpload(f, d, policy)
  PROVE  IInv'
<1>1. TypeOK'
  <2>1. ~Present(f)
    BY DEF IInv, Stage, BeginUpload, Present
  <2>2. FreePath(d) \in Paths
    BY <2>1, FreePathIsPath DEF IInv
  <2>3. <<d, 0>> \in Paths
    BY CatalogAssumption DEF Paths
  <2>4. rowPath' \in [Files -> Paths \cup {NoPath}]
    BY <2>2, <2>3 DEF IInv, TypeOK, BeginUpload
  <2> QED BY <2>4 DEF IInv, TypeOK, BeginUpload, uploadVars, history
<1>2. DeletesListed'
  BY DEF IInv, TypeOK, DeletesListed, BeginUpload, uploadVars, history
<1>3. ASSUME NEW g \in Files PROVE Stage(g)'
  BY DEF IInv, TypeOK, Stage, Held, BeginUpload, uploadVars, history
<1>4. ASSUME NEW g \in Files PROVE Kept(g)'
  BY DEF IInv, TypeOK, Stage, Kept, DeletesListed, BeginUpload, uploadVars, history
<1>5. ASSUME NEW g \in Files PROVE Held(g)'
  BY DEF IInv, TypeOK, Stage, Held, BeginUpload, uploadVars, history
<1> QED BY <1>1, <1>2, <1>3, <1>4, <1>5 DEF IInv

\* The row of an upload is inserted at a path nobody uses, or the upload is skipped.
LEMMA InsertIInv ==
  ASSUME IInv, NEW f \in Files, Insert(f)
  PROVE  IInv'
<1>1. TypeOK'
  <2>1. rowState' \in [Files -> {"none", "pending", "uploaded", "gone"}]
    BY DEF IInv, TypeOK, Insert
  <2>2. up' \in [Files -> {"idle", "inserting", "sending", "locked", "ready",
                          "stored", "ok", "error", "skipped"}]
    BY DEF IInv, TypeOK, Insert
  <2> QED BY <2>1, <2>2 DEF IInv, TypeOK, Insert, uploadVars, history
<1>2. DeletesListed'
  BY DEF IInv, TypeOK, DeletesListed, Insert, uploadVars, history
<1>3. ASSUME NEW g \in Files PROVE Stage(g)'
  BY DEF IInv, TypeOK, Stage, Held, Insert, uploadVars, history
<1>4. ASSUME NEW g \in Files PROVE Kept(g)'
  BY DEF IInv, TypeOK, Stage, Kept, DeletesListed, Insert, uploadVars, history
<1>5. ASSUME NEW g \in Files PROVE Held(g)'
  BY DEF IInv, TypeOK, Stage, Held, Insert, uploadVars, history
<1> QED BY <1>1, <1>2, <1>3, <1>4, <1>5 DEF IInv

\* A chunk that is sent adds a message and takes none away.
LEMMA SendChunkIInv ==
  ASSUME IInv, NEW f \in Files, NEW c \in Chunks, SendChunk(f, c)
  PROVE  IInv'
<1>1. TypeOK'
  BY DEF IInv, TypeOK, SendChunk, uploadVars, history
<1>2. DeletesListed'
  BY DEF IInv, TypeOK, DeletesListed, SendChunk, uploadVars, history
<1>3. ASSUME NEW g \in Files PROVE Stage(g)'
  BY DEF IInv, TypeOK, Stage, Held, SendChunk, uploadVars, history
<1>4. ASSUME NEW g \in Files PROVE Kept(g)'
  BY DEF IInv, TypeOK, Stage, Kept, DeletesListed, SendChunk, uploadVars, history
<1>5. ASSUME NEW g \in Files PROVE Held(g)'
  BY DEF IInv, TypeOK, Stage, Held, SendChunk, uploadVars, history
<1> QED BY <1>1, <1>2, <1>3, <1>4, <1>5 DEF IInv

\* A failed upload is never stored; from now on its messages may be cleaned up.
LEMMA UploadFailsIInv ==
  ASSUME IInv, NEW f \in Files, UploadFails(f)
  PROVE  IInv'
<1>1. TypeOK'
  BY DEF IInv, TypeOK, UploadFails, ReturnError, uploadVars, history
<1>2. DeletesListed'
  BY DEF IInv, TypeOK, DeletesListed, UploadFails, ReturnError, uploadVars, history
<1>3. ASSUME NEW g \in Files PROVE Stage(g)'
  BY DEF IInv, TypeOK, Stage, Held, UploadFails, ReturnError, uploadVars, history
<1>4. ASSUME NEW g \in Files PROVE Kept(g)'
  BY DEF IInv, TypeOK, Stage, Kept, DeletesListed, UploadFails, ReturnError, uploadVars,
     history
<1>5. ASSUME NEW g \in Files PROVE Held(g)'
  BY DEF IInv, TypeOK, Stage, Held, UploadFails, ReturnError, uploadVars, history
<1> QED BY <1>1, <1>2, <1>3, <1>4, <1>5 DEF IInv

\* The transaction of an upload marks its own pending row and takes its lock.
LEMMA TxMarkIInv ==
  ASSUME IInv, NEW f \in Files, TxMark(f)
  PROVE  IInv'
<1>1. TypeOK'
  BY DEF IInv, TypeOK, TxMark, ReturnError, RowIsThere, Locked, uploadVars, history
<1>2. DeletesListed'
  BY DEF IInv, TypeOK, DeletesListed, TxMark, ReturnError, RowIsThere, Locked, uploadVars,
     history
<1>3. ASSUME NEW g \in Files PROVE Stage(g)'
  BY DEF IInv, TypeOK, Stage, Held, TxMark, ReturnError, RowIsThere, Locked, uploadVars,
     history
<1>4. ASSUME NEW g \in Files PROVE Kept(g)'
  BY DEF IInv, TypeOK, Stage, Kept, DeletesListed, TxMark, ReturnError, RowIsThere, Locked,
     uploadVars, history
<1>5. ASSUME NEW g \in Files PROVE Held(g)'
  <2>1. CASE RowIsThere(f)
    <3>1. up' = [up EXCEPT ![f] = "locked"] /\ UNCHANGED <<stale, rowState>>
      BY <2>1 DEF TxMark
    <3>2. (\A h \in Files : f \notin stale[h]) /\ stale[f] = {}
      BY DEF TxMark, Locked, IInv, Held
    <3>3. up'[g] # "ready" => stale[g] = {}
      BY <3>1, <3>2 DEF IInv, TypeOK, Held
    <3>4. ASSUME NEW h \in stale[g]
          PROVE  rowState[h] = "pending" /\ up'[h] \notin {"locked", "ready"}
      <4>1. h # f /\ h \in Files
        BY <3>2 DEF IInv, TypeOK
      <4>2. up'[h] = up[h]
        BY <3>1, <4>1 DEF IInv, TypeOK
      <4> QED BY <4>2 DEF IInv, Held
    <3>5. \A h \in Files \ {g} : stale[g] \cap stale[h] = {}
      BY DEF IInv, Held
    <3> QED BY <3>1, <3>3, <3>4, <3>5 DEF Held
  <2>2. CASE ~RowIsThere(f)
    <3>1. /\ up' = [up EXCEPT ![f] = "error"] /\ UNCHANGED rowState
          /\ stale' = [stale EXCEPT ![f] = {}]
      BY <2>2 DEF TxMark, ReturnError
    <3> QED BY <3>1 DEF IInv, TypeOK, Held
  <2> QED BY <2>1, <2>2
<1> QED BY <1>1, <1>2, <1>3, <1>4, <1>5 DEF IInv

\* The leftovers a transaction takes are pending rows nobody holds.
LEMMA TxDeleteLeftoversIInv ==
  ASSUME IInv, NEW f \in Files, TxDeleteLeftovers(f)
  PROVE  IInv'
<1>1. TypeOK'
  BY DEF IInv, TypeOK, TxDeleteLeftovers, Leftovers, Locked, uploadVars, history
<1>2. DeletesListed'
  BY DEF IInv, TypeOK, DeletesListed, TxDeleteLeftovers, Leftovers, Locked, uploadVars,
     history
<1>3. ASSUME NEW g \in Files PROVE Stage(g)'
  BY DEF IInv, TypeOK, Stage, Held, TxDeleteLeftovers, Leftovers, Locked, uploadVars,
     history
<1>4. ASSUME NEW g \in Files PROVE Kept(g)'
  BY DEF IInv, TypeOK, Stage, Kept, DeletesListed, TxDeleteLeftovers, Leftovers, Locked,
     uploadVars, history
<1>5. ASSUME NEW g \in Files PROVE Held(g)'
  BY DEF IInv, TypeOK, Stage, Held, TxDeleteLeftovers, Leftovers, Locked, uploadVars,
     history
<1> QED BY <1>1, <1>2, <1>3, <1>4, <1>5 DEF IInv

\* A commit stores a file whose messages have all been sent, and removes the
\* leftovers, none of them stored.
LEMMA TxCommitIInv ==
  ASSUME IInv, NEW f \in Files, TxCommit(f)
  PROVE  IInv'
<1>1. TypeOK'
  BY DEF IInv, TypeOK, TxCommit, Committed, uploadVars, history
<1>2. DeletesListed'
  BY DEF IInv, TypeOK, DeletesListed, TxCommit, Committed, uploadVars, history
<1>3. ASSUME NEW g \in Files PROVE Stage(g)'
  BY DEF IInv, TypeOK, Stage, Held, TxCommit, Committed, uploadVars, history
<1>4. ASSUME NEW g \in Files PROVE Kept(g)'
  BY DEF IInv, TypeOK, Stage, Kept, DeletesListed, TxCommit, Committed, uploadVars, history
<1>5. ASSUME NEW g \in Files PROVE Held(g)'
  BY DEF IInv, TypeOK, Stage, Held, TxCommit, Committed, uploadVars, history
<1> QED BY <1>1, <1>2, <1>3, <1>4, <1>5 DEF IInv

\* So does one whose answer is lost, and its upload starts to clean up.
LEMMA CommitReplyLostIInv ==
  ASSUME IInv, NEW f \in Files, CommitReplyLost(f)
  PROVE  IInv'
<1>1. TypeOK'
  BY DEF IInv, TypeOK, CommitReplyLost, Committed, ReturnError, uploadVars, history
<1>2. DeletesListed'
  BY DEF IInv, TypeOK, DeletesListed, CommitReplyLost, Committed, ReturnError, uploadVars,
     history
<1>3. ASSUME NEW g \in Files PROVE Stage(g)'
  BY DEF IInv, TypeOK, Stage, Held, CommitReplyLost, Committed, ReturnError, uploadVars,
     history
<1>4. ASSUME NEW g \in Files PROVE Kept(g)'
  BY DEF IInv, TypeOK, Stage, Kept, DeletesListed, CommitReplyLost, Committed, ReturnError,
     uploadVars, history
<1>5. ASSUME NEW g \in Files PROVE Held(g)'
  BY DEF IInv, TypeOK, Stage, Held, CommitReplyLost, Committed, ReturnError, uploadVars,
     history
<1> QED BY <1>1, <1>2, <1>3, <1>4, <1>5 DEF IInv

\* The tracker's knowledge touches neither rows nor messages.
LEMMA FinishUploadIInv ==
  ASSUME IInv, NEW f \in Files, FinishUpload(f)
  PROVE  IInv'
<1>1. TypeOK'
  BY DEF IInv, TypeOK, FinishUpload, uploadVars, history
<1>2. DeletesListed'
  BY DEF IInv, TypeOK, DeletesListed, FinishUpload, uploadVars, history
<1>3. ASSUME NEW g \in Files PROVE Stage(g)'
  BY DEF IInv, TypeOK, Stage, Held, FinishUpload, uploadVars, history
<1>4. ASSUME NEW g \in Files PROVE Kept(g)'
  BY DEF IInv, TypeOK, Stage, Kept, DeletesListed, FinishUpload, uploadVars, history
<1>5. ASSUME NEW g \in Files PROVE Held(g)'
  BY DEF IInv, TypeOK, Stage, Held, FinishUpload, uploadVars, history
<1> QED BY <1>1, <1>2, <1>3, <1>4, <1>5 DEF IInv

\* The clean-up takes messages of its own failed upload.
LEMMA CleanUpIInv ==
  ASSUME IInv, NEW f \in Files, CleanUp(f)
  PROVE  IInv'
<1>1. TypeOK'
  BY DEF IInv, TypeOK, CleanUp, uploadVars, history
<1>2. DeletesListed'
  BY DEF IInv, TypeOK, DeletesListed, CleanUp, uploadVars, history
<1>3. ASSUME NEW g \in Files PROVE Stage(g)'
  BY DEF IInv, TypeOK, Stage, Held, CleanUp, uploadVars, history
<1>4. ASSUME NEW g \in Files PROVE Kept(g)'
  BY DEF IInv, TypeOK, Stage, Kept, DeletesListed, CleanUp, uploadVars, history
<1>5. ASSUME NEW g \in Files PROVE Held(g)'
  BY DEF IInv, TypeOK, Stage, Held, CleanUp, uploadVars, history
<1> QED BY <1>1, <1>2, <1>3, <1>4, <1>5 DEF IInv

\* The first half of a cancellation touches neither rows nor messages.
LEMMA CancelUploadIInv ==
  ASSUME IInv, NEW f \in Files, CancelUpload(f)
  PROVE  IInv'
<1>1. TypeOK'
  BY DEF IInv, TypeOK, CancelUpload, uploadVars, history
<1>2. DeletesListed'
  BY DEF IInv, TypeOK, DeletesListed, CancelUpload, uploadVars, history
<1>3. ASSUME NEW g \in Files PROVE Stage(g)'
  BY DEF IInv, TypeOK, Stage, Held, CancelUpload, uploadVars, history
<1>4. ASSUME NEW g \in Files PROVE Kept(g)'
  BY DEF IInv, TypeOK, Stage, Kept, DeletesListed, CancelUpload, uploadVars, history
<1>5. ASSUME NEW g \in Files PROVE Held(g)'
  BY DEF IInv, TypeOK, Stage, Held, CancelUpload, uploadVars, history
<1> QED BY <1>1, <1>2, <1>3, <1>4, <1>5 DEF IInv

\* The cancellation removes the row of an upload that succeeded, if it can.
LEMMA CancelSettlesIInv ==
  ASSUME IInv, NEW f \in Files, CancelSettles(f)
  PROVE  IInv'
<1>1. TypeOK'
  BY DEF IInv, TypeOK, CancelSettles, Present, uploadVars, history
<1>2. DeletesListed'
  BY DEF IInv, TypeOK, DeletesListed, CancelSettles, Present, uploadVars, history
<1>3. ASSUME NEW g \in Files PROVE Stage(g)'
  BY DEF IInv, TypeOK, Stage, Held, CancelSettles, Present, uploadVars, history
<1>4. ASSUME NEW g \in Files PROVE Kept(g)'
  BY DEF IInv, TypeOK, Stage, Kept, DeletesListed, CancelSettles, Present, uploadVars,
     history
<1>5. ASSUME NEW g \in Files PROVE Held(g)'
  BY DEF IInv, TypeOK, Stage, Held, CancelSettles, Present, uploadVars, history
<1> QED BY <1>1, <1>2, <1>3, <1>4, <1>5 DEF IInv

\* The end of a tracker touches neither rows nor messages.
LEMMA TrackerExpiresIInv ==
  ASSUME IInv, NEW f \in Files, TrackerExpires(f)
  PROVE  IInv'
<1>1. TypeOK'
  BY DEF IInv, TypeOK, TrackerExpires, uploadVars, history
<1>2. DeletesListed'
  BY DEF IInv, TypeOK, DeletesListed, TrackerExpires, uploadVars, history
<1>3. ASSUME NEW g \in Files PROVE Stage(g)'
  BY DEF IInv, TypeOK, Stage, Held, TrackerExpires, uploadVars, history
<1>4. ASSUME NEW g \in Files PROVE Kept(g)'
  BY DEF IInv, TypeOK, Stage, Kept, DeletesListed, TrackerExpires, uploadVars, history
<1>5. ASSUME NEW g \in Files PROVE Held(g)'
  BY DEF IInv, TypeOK, Stage, Held, TrackerExpires, uploadVars, history
<1> QED BY <1>1, <1>2, <1>3, <1>4, <1>5 DEF IInv

\* A delete lists the messages of the files it finds.
LEMMA DeleteBeginIInv ==
  ASSUME IInv, NEW x \in Deleters, NEW t \in Targets, NEW force \in BOOLEAN,
         DeleteBegin(x, t, force)
  PROVE  IInv'
<1>1. TypeOK'
  BY DEF IInv, TypeOK, DeleteBegin, ChunksListed, RowsMatching, uploadVars, history
<1>2. DeletesListed'
  BY DEF IInv, TypeOK, DeletesListed, DeleteBegin, ChunksListed, RowsMatching, uploadVars,
     history
<1>3. ASSUME NEW g \in Files PROVE Stage(g)'
  BY DEF IInv, TypeOK, Stage, Held, DeleteBegin, ChunksListed, RowsMatching, uploadVars,
     history
<1>4. ASSUME NEW g \in Files PROVE Kept(g)'
  BY DEF IInv, TypeOK, Stage, Kept, DeletesListed, DeleteBegin, ChunksListed, RowsMatching,
     uploadVars, history
<1>5. ASSUME NEW g \in Files PROVE Held(g)'
  BY DEF IInv, TypeOK, Stage, Held, DeleteBegin, ChunksListed, RowsMatching, uploadVars,
     history
<1> QED BY <1>1, <1>2, <1>3, <1>4, <1>5 DEF IInv

\* Only a message of a listed file leaves the channel.
LEMMA DeleteMessageIInv ==
  ASSUME IInv, NEW x \in Deleters, NEW m \in Files \X Chunks, DeleteMessage(x, m)
  PROVE  IInv'
<1>1. TypeOK'
  <2> DEFINE left == del[x].list \ {m}
             asking == [pc : {"idle", "telegram", "db"}, target : Targets \cup {NoPath},
                        list : SUBSET (Files \X Chunks), force : BOOLEAN]
  <2>1. del[x] \in asking
    BY DEF IInv, TypeOK
  <2>2. [pc |-> IF left = {} THEN "db" ELSE "telegram", target |-> del[x].target,
         list |-> left, force |-> del[x].force] \in asking
    BY <2>1
  <2>3. del' \in [Deleters -> asking]
    BY <2>2 DEF IInv, TypeOK, DeleteMessage
  <2> QED BY <2>3 DEF IInv, TypeOK, DeleteMessage, uploadVars, history
<1>2. DeletesListed'
  BY DEF IInv, TypeOK, DeletesListed, DeleteMessage, uploadVars, history
<1>3. ASSUME NEW g \in Files PROVE Stage(g)'
  BY DEF IInv, TypeOK, Stage, Held, DeleteMessage, uploadVars, history
<1>4. ASSUME NEW g \in Files PROVE Kept(g)'
  BY DEF IInv, TypeOK, Stage, Kept, DeletesListed, DeleteMessage, uploadVars, history
<1>5. ASSUME NEW g \in Files PROVE Held(g)'
  BY DEF IInv, TypeOK, Stage, Held, DeleteMessage, uploadVars, history
<1> QED BY <1>1, <1>2, <1>3, <1>4, <1>5 DEF IInv

\* A delete that fails removes no row.
LEMMA DeleteGivesUpIInv ==
  ASSUME IInv, NEW x \in Deleters, DeleteGivesUp(x)
  PROVE  IInv'
<1>1. TypeOK'
  BY DEF IInv, TypeOK, DeleteGivesUp, Idle, uploadVars, history
<1>2. DeletesListed'
  BY DEF IInv, TypeOK, DeletesListed, DeleteGivesUp, Idle, uploadVars, history
<1>3. ASSUME NEW g \in Files PROVE Stage(g)'
  BY DEF IInv, TypeOK, Stage, Held, DeleteGivesUp, Idle, uploadVars, history
<1>4. ASSUME NEW g \in Files PROVE Kept(g)'
  BY DEF IInv, TypeOK, Stage, Kept, DeletesListed, DeleteGivesUp, Idle, uploadVars,
     history
<1>5. ASSUME NEW g \in Files PROVE Held(g)'
  BY DEF IInv, TypeOK, Stage, Held, DeleteGivesUp, Idle, uploadVars, history
<1> QED BY <1>1, <1>2, <1>3, <1>4, <1>5 DEF IInv

\* The rows a delete removes are locked by nobody.
LEMMA DeleteRowsIInv ==
  ASSUME IInv, NEW x \in Deleters, DeleteRows(x)
  PROVE  IInv'
<1>1. TypeOK'
  BY DEF IInv, TypeOK, DeleteRows, Idle, RowsMatching, Present, Locked, uploadVars,
     history
<1>2. DeletesListed'
  BY DEF IInv, TypeOK, DeletesListed, DeleteRows, Idle, RowsMatching, Present, Locked,
     uploadVars, history
<1>3. ASSUME NEW g \in Files PROVE Stage(g)'
  BY DEF IInv, TypeOK, Stage, Held, DeleteRows, Idle, RowsMatching, Present, Locked,
     uploadVars, history
<1>4. ASSUME NEW g \in Files PROVE Kept(g)'
  BY DEF IInv, TypeOK, Stage, Kept, DeletesListed, DeleteRows, Idle, RowsMatching, Present,
     Locked, uploadVars, history
<1>5. ASSUME NEW g \in Files PROVE Held(g)'
  BY DEF IInv, TypeOK, Stage, Held, DeleteRows, Idle, RowsMatching, Present, Locked,
     uploadVars, history
<1> QED BY <1>1, <1>2, <1>3, <1>4, <1>5 DEF IInv

\* A move changes paths only.
LEMMA MoveIInv ==
  ASSUME IInv, NEW r \in Renames, Move(r[1], r[2])
  PROVE  IInv'
<1>1. TypeOK'
  <2>1. ASSUME NEW h \in Files, h \in RowsMatching(r[1])
        PROVE  Moved(rowPath[h], r[1], r[2]) \in Paths
    <3>1. Matches(r[1]) \subseteq Paths
      BY CatalogAssumption DEF Matches, Paths
    <3> QED BY <2>1, <3>1, MovedIsPath DEF RowsMatching
  <2>2. rowPath' \in [Files -> Paths \cup {NoPath}]
    BY <2>1 DEF IInv, TypeOK, Move
  <2> QED BY <2>2 DEF IInv, TypeOK, Move, uploadVars, history
<1>2. DeletesListed'
  BY DEF IInv, TypeOK, DeletesListed, Move, uploadVars, history
<1>3. ASSUME NEW g \in Files PROVE Stage(g)'
  BY DEF IInv, TypeOK, Stage, Held, Move, uploadVars, history
<1>4. ASSUME NEW g \in Files PROVE Kept(g)'
  BY DEF IInv, TypeOK, Stage, Kept, DeletesListed, Move, uploadVars, history
<1>5. ASSUME NEW g \in Files PROVE Held(g)'
  BY DEF IInv, TypeOK, Stage, Held, Move, uploadVars, history
<1> QED BY <1>1, <1>2, <1>3, <1>4, <1>5 DEF IInv

----------------------------------------------------------------------------
\* At first there is no file.
LEMMA InitIInv == Init => IInv
BY DEF Init, IInv, TypeOK, Stage, Kept, Held, DeletesListed, Idle

\* One step per action; the deadlock victim's is a failure.
LEMMA NextIInv == IInv /\ [Next]_vars => IInv'
<1> SUFFICES ASSUME IInv, [Next]_vars PROVE IInv'
  OBVIOUS
<1>1. ASSUME NEW f \in Files, NEW d \in Dirs, NEW policy \in {"skip", "keep_both"},
             BeginUpload(f, d, policy)
      PROVE  IInv'
  BY <1>1, BeginUploadIInv
<1>2. ASSUME NEW f \in Files, Proceed(f) PROVE IInv'
  BY <1>2, InsertIInv, TxMarkIInv, TxDeleteLeftoversIInv, TxCommitIInv,
     FinishUploadIInv, UploadFailsIInv DEF Proceed
<1>3. ASSUME NEW f \in Files,
             \/ \E c \in Chunks : SendChunk(f, c)
             \/ UploadFails(f) \/ CommitReplyLost(f) \/ CleanUp(f)
      PROVE  IInv'
  BY <1>3, SendChunkIInv, UploadFailsIInv, CommitReplyLostIInv, CleanUpIInv
<1>4. ASSUME NEW f \in Files, CancelUpload(f) \/ CancelSettles(f) \/ TrackerExpires(f)
      PROVE  IInv'
  BY <1>4, CancelUploadIInv, CancelSettlesIInv, TrackerExpiresIInv
<1>5. ASSUME NEW x \in Deleters, NEW t \in Targets, NEW force \in BOOLEAN,
             DeleteBegin(x, t, force)
      PROVE  IInv'
  BY <1>5, DeleteBeginIInv
<1>6. ASSUME NEW x \in Deleters, Delete(x) PROVE IInv'
  BY <1>6, DeleteGivesUpIInv, DeleteRowsIInv, DeleteMessageIInv DEF Delete
<1>7. ASSUME NEW r \in Renames, Move(r[1], r[2]) PROVE IInv'
  BY <1>7, MoveIInv
<1>8. CASE UNCHANGED vars
  BY <1>8 DEF vars, uploadVars, history, IInv, TypeOK, DeletesListed, Stage, Kept, Held
<1> QED BY <1>1, <1>2, <1>3, <1>4, <1>5, <1>6, <1>7, <1>8 DEF Next

\* The invariant holds in every state.
LEMMA IInvHolds == Spec => []IInv
BY InitIInv, NextIInv, PTL DEF Spec

----------------------------------------------------------------------------
\* A commit marks a row that is pending, and removes only such rows, whether or
\* not its answer arrives.
LEMMA CommitRows ==
  ASSUME IInv, NEW f \in Files, up[f] = "ready", rowState' = Committed(f), NEW g \in Files
  PROVE  /\ rowState[f] = "pending"
         /\ rowState[g] = "gone" => rowState'[g] = "gone"
         /\ rowState[g] = "uploaded" => rowState'[g] = "uploaded"
<1>1. rowState[f] = "pending" /\ \A h \in stale[f] : rowState[h] = "pending"
  BY DEF IInv, Stage, Held
<1>2. rowState'[g] = IF g = f THEN "uploaded"
                     ELSE IF g \in stale[f] THEN "gone" ELSE rowState[g]
  BY DEF Committed
<1> QED BY <1>1, <1>2

\* What a step does to the row of a file.
LEMMA RowStep ==
  ASSUME IInv, [Next]_vars, NEW g \in Files
  PROVE  /\ rowState[g] = "gone" => rowState'[g] = "gone"
         /\ rowState[g] = "uploaded" => rowState'[g] \in {"uploaded", "gone"}
<1>1. CASE UNCHANGED rowState
  BY <1>1
<1>2. CASE \E f \in Files : Insert(f)
  <2>1. PICK f \in Files : Insert(f)
    BY <1>2
  <2>2. rowState[f] = "none"
    BY <2>1 DEF IInv, Stage, Insert
  <2>3. rowState' = rowState \/ rowState' = [rowState EXCEPT ![f] = "pending"]
    BY <2>1 DEF Insert
  <2>4. rowState \in [Files -> {"none", "pending", "uploaded", "gone"}]
    BY DEF IInv, TypeOK
  <2> QED BY <2>2, <2>3, <2>4
<1>3. CASE \E f \in Files : TxCommit(f) \/ CommitReplyLost(f)
  <2>1. PICK f \in Files : up[f] = "ready" /\ rowState' = Committed(f)
    BY <1>3 DEF TxCommit, CommitReplyLost
  <2> QED BY <2>1, CommitRows
<1>4. CASE \E f \in Files : CancelSettles(f)
  BY <1>4 DEF CancelSettles, IInv, TypeOK
<1>5. CASE \E x \in Deleters : DeleteRows(x)
  BY <1>5 DEF DeleteRows, IInv, TypeOK
<1>6. \/ UNCHANGED rowState
      \/ \E f \in Files : Insert(f) \/ TxCommit(f) \/ CommitReplyLost(f) \/ CancelSettles(f)
      \/ \E x \in Deleters : DeleteRows(x)
  BY DEF Next, vars, uploadVars, BeginUpload, Proceed, SendChunk, TxMark,
     TxDeleteLeftovers, FinishUpload, UploadFails, CleanUp, CancelUpload, TrackerExpires,
     DeleteBegin, Delete, DeleteGivesUp, DeleteMessage, Move
<1> QED BY <1>1, <1>2, <1>3, <1>4, <1>5, <1>6

\* Only a commit that is answered makes an upload succeed, and its row is there.
LEMMA SuccessStep ==
  ASSUME IInv, [Next]_vars, NEW g \in Files, rowState[g] = "gone", up'[g] = "stored"
  PROVE  up[g] = "stored"
<1>1. \/ up' = up
      \/ \E f \in Files : TxCommit(f)
      \/ \E f \in Files, v \in {"skipped", "inserting", "sending", "error", "locked",
                                "ready", "ok"} : up' = [up EXCEPT ![f] = v]
  BY DEF Next, vars, uploadVars, BeginUpload, Insert, Proceed, SendChunk, TxMark, ReturnError,
     TxDeleteLeftovers, CommitReplyLost, FinishUpload, UploadFails, CleanUp, CancelUpload,
     CancelSettles, TrackerExpires, DeleteBegin, Delete, DeleteGivesUp, DeleteMessage,
     DeleteRows, Move
<1>2. ASSUME NEW f \in Files, TxCommit(f) PROVE f # g
  BY <1>2, CommitRows DEF TxCommit
<1> QED BY <1>1, <1>2 DEF IInv, TypeOK, TxCommit

----------------------------------------------------------------------------
\* Every message of a stored file is in the channel, unless a delete listed
\* it or the COMMIT that stored it went unanswered: every other error of
\* Upload, CancelUpload and the commit of another upload leave the messages
\* of a file the catalog shows alone.
THEOREM StoredStaysReadable == Spec => []StoredFilesReadable
<1>1. IInv => StoredFilesReadable
  <2> SUFFICES ASSUME IInv,
                      NEW f \in Files, rowState[f] = "uploaded",
                      f \notin listed \cup unanswered
               PROVE  {f} \X Chunks \subseteq msgs
    BY DEF IInv, StoredFilesReadable
  <2>1. up[f] \in {"stored", "ok"} /\ sent[f] = Chunks
    BY DEF IInv, Stage
  <2> QED BY <2>1 DEF IInv, Kept
<1> QED BY <1>1, IInvHolds, PTL

\* No commit brings back a row that was deleted under it, nor is it answered
\* with success, and a stored file is never again pending:
\* CreateChunksAndMarkUploaded marks its own row, and deletes only leftovers
\* that are pending.
THEOREM RowsGoForGood == Spec => GoneForGood
<1>1. IInv /\ [Next]_vars =>
        [\A f \in Files :
           /\ rowState[f] = "gone" =>
                /\ rowState'[f] = "gone"
                /\ up'[f] = "stored" => up[f] = "stored"
           /\ rowState[f] = "uploaded" => rowState'[f] \in {"uploaded", "gone"}]_vars
  BY RowStep, SuccessStep
<1> QED BY <1>1, IInvHolds, PTL DEF Spec, GoneForGood
============================================================================
