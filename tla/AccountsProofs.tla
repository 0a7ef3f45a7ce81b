--------------------------- MODULE AccountsProofs ---------------------------
(***************************************************************************)
(* Rights, accounts and watch marks, for any number of users, storages,    *)
(* workers, videos and requests under way.                                 *)
(*                                                                         *)
(* The argument: a request that changes the access of somebody else is     *)
(* about another user than its caller (Asked), so a caller that is still   *)
(* an administrator remains one; and a deletion that has passed a table    *)
(* has cut every row of it that it could have seen (Passed), so what stops *)
(* it at the end is a row that is younger.                                 *)
(***************************************************************************)
EXTENDS Accounts, TLAPS

\* What the checks of a request have established of it.
Asked ==
  \A r \in Requests :
    /\ pc[r] \in {"grant", "revoke"} => op[r].target # op[r].caller
    /\ pc[r] = "own" => op[r].level = "a"

\* A deletion has cut the rows of the tables it has passed, but for new ones.
Passed ==
  \A r \in Requests :
    /\ pc[r] \in {"cutWorkers", "cutUser"} =>
         \A s \in Storages :
           CanRead(op[r].target, s) /\ <<"access", s>> \in seen[r] => <<"access", s>> \in cut[r]
    /\ pc[r] = "cutUser" =>
         \A w \in Workers :
           Owns(op[r].target, w) /\ <<"worker", w>> \in seen[r] => <<"worker", w>> \in cut[r]

IInv == TypeOK /\ RowsRefer /\ Asked /\ Passed

\* A request that is idle is about nothing, and changes nobody.
LEMMA NoOpType == NoOp \in Op /\ NoOp.target = NoOp.caller
BY AccountsAssumption DEF NoOp, Op, Levels, Mark

\* At first there is the superuser and nothing else.
LEMMA InitIInv == Init => IInv
<1> SUFFICES ASSUME Init PROVE IInv
  OBVIOUS
<1>1. TypeOK
  BY NoOpType, AccountsAssumption DEF Init, TypeOK, Places, Row
<1> QED
  BY <1>1, AccountsAssumption DEF Init, IInv, RowsRefer, Asked, Passed, CanRead

\* A check passes and the request waits for its next statement.
LEMMA BeginsTyped ==
  ASSUME TypeOK, NEW r \in Requests, NEW place \in Places, NEW o \in Op, Begins(r, place, o)
  PROVE  /\ pc' \in [Requests -> Places] /\ op' \in [Requests -> Op]
         /\ \A q \in Requests : q # r => pc'[q] = pc[q] /\ op'[q] = op[q]
         /\ pc'[r] = place /\ op'[r] = o
BY DEF TypeOK, Begins

\* A request goes on to its next statement, or ends.
LEMMA GoesTyped ==
  ASSUME TypeOK, NEW r \in Requests, NEW from, NEW to \in Places, Goes(r, from, to)
  PROVE  /\ pc' \in [Requests -> Places] /\ op' \in [Requests -> Op]
         /\ \A q \in Requests : q # r => pc'[q] = pc[q] /\ op'[q] = op[q]
         /\ pc[r] = from /\ pc'[r] = to /\ op'[r] = IF to = "idle" THEN NoOp ELSE op[r]
BY NoOpType DEF TypeOK, Goes

\* A step that moves requests, without entering the later places of a deletion.
LEMMA Moves ==
  ASSUME IInv, UNCHANGED tables,
         pc' \in [Requests -> Places], op' \in [Requests -> Op],
         cut' \in [Requests -> SUBSET Row], seen' \in [Requests -> SUBSET Row],
         Asked',
         \A q \in Requests : pc'[q] \in {"cutWorkers", "cutUser"} =>
           pc'[q] = pc[q] /\ op'[q] = op[q] /\ cut'[q] = cut[q] /\ seen'[q] = seen[q]
  PROVE  IInv'
<1>1. TypeOK' /\ RowsRefer'
  BY DEF IInv, TypeOK, RowsRefer, CanRead, tables
<1>2. Passed'
  BY DEF IInv, Passed, CanRead, Owns, tables
<1> QED
  BY <1>1, <1>2 DEF IInv

\* The positions a player may report leave a mark.
LEMMA MarkAtType ==
  ASSUME NEW v \in Videos, NEW second \in Seconds
  PROVE  MarkAt(v, second) \in Mark
BY AccountsAssumption DEF MarkAt, Mark

\* The steps at which a request only begins.
LEMMA AskedStep ==
  ASSUME IInv, NEW r \in Requests,
         \/ GrantAsked(r) \/ RevokeAsked(r) \/ DropAsked(r) \/ UserDropAsked(r)
         \/ SaveAsked(r) \/ SetAsked(r) \/ ClearAsked(r)
  PROVE  IInv'
<1> DEFINE Begun(place, o) ==
      /\ place \in Places \ {"cutWorkers", "cutUser", "grant", "own"} /\ o \in Op
      /\ place = "revoke" => o.target # o.caller
      /\ Begins(r, place, o)
<1>1. ASSUME NEW place, NEW o, Begun(place, o), UNCHANGED <<tables, cut>>,
             seen' \in [Requests -> SUBSET Row], \A q \in Requests : q # r => seen'[q] = seen[q]
      PROVE  IInv'
  <2>1. /\ pc' \in [Requests -> Places] /\ op' \in [Requests -> Op]
        /\ \A q \in Requests : q # r => pc'[q] = pc[q] /\ op'[q] = op[q]
        /\ pc'[r] = place /\ op'[r] = o
    BY <1>1, BeginsTyped DEF IInv
  <2>2. Asked'
    BY <1>1, <2>1 DEF IInv, Asked
  <2>3. \A q \in Requests : pc'[q] \in {"cutWorkers", "cutUser"} =>
          pc'[q] = pc[q] /\ op'[q] = op[q] /\ cut'[q] = cut[q] /\ seen'[q] = seen[q]
    BY <1>1, <2>1
  <2>4. cut' \in [Requests -> SUBSET Row]
    BY <1>1 DEF IInv, TypeOK
  <2> QED
    BY <1>1, <2>1, <2>2, <2>3, <2>4, Moves
<1>2. ASSUME NEW place, NEW o, Begun(place, o), UNCHANGED <<tables, cut, seen>>
      PROVE  IInv'
  BY <1>1, <1>2 DEF IInv, TypeOK
<1>3. CASE GrantAsked(r)
  <2>1. PICK c \in born, s \in storages, u \in Users, l \in Granted :
          Begins(r, "find", [NoOp EXCEPT !.caller = c, !.storage = s, !.target = u, !.level = l])
    BY <1>3 DEF GrantAsked
  <2> DEFINE o == [NoOp EXCEPT !.caller = c, !.storage = s, !.target = u, !.level = l]
  <2>2. o \in Op
    BY NoOpType, AccountsAssumption DEF IInv, TypeOK, Op, Levels
  <2>3. Begun("find", o)
    BY <2>1, <2>2 DEF Places
  <2> QED
    BY <1>2, <1>3, <2>3 DEF GrantAsked
<1>4. CASE RevokeAsked(r)
  <2>1. PICK c \in born, s \in storages, u \in Users :
          u # c /\ Begins(r, "revoke", [NoOp EXCEPT !.caller = c, !.storage = s, !.target = u])
    BY <1>4 DEF RevokeAsked
  <2> DEFINE o == [NoOp EXCEPT !.caller = c, !.storage = s, !.target = u]
  <2>2. o \in Op /\ o.target # o.caller
    BY <2>1, NoOpType DEF IInv, TypeOK, Op
  <2>3. Begun("revoke", o)
    BY <2>1, <2>2 DEF Places
  <2> QED
    BY <1>2, <1>4, <2>3 DEF RevokeAsked
<1>5. CASE DropAsked(r)
  <2>1. PICK c \in born, s \in storages :
          Begins(r, "drop", [NoOp EXCEPT !.caller = c, !.storage = s])
    BY <1>5 DEF DropAsked
  <2> DEFINE o == [NoOp EXCEPT !.caller = c, !.storage = s]
  <2>2. o \in Op
    BY NoOpType DEF IInv, TypeOK, Op
  <2>3. Begun("drop", o)
    BY <2>1, <2>2 DEF Places
  <2> QED
    BY <1>2, <1>5, <2>3 DEF DropAsked
<1>6. CASE UserDropAsked(r)
  <2>1. PICK u \in users \ {Root} :
          /\ Begins(r, "cutAccess", [NoOp EXCEPT !.target = u])
          /\ seen' = [seen EXCEPT ![r] = Dependents(u)]
    BY <1>6 DEF UserDropAsked
  <2> DEFINE o == [NoOp EXCEPT !.target = u]
  <2>2. o \in Op /\ Dependents(u) \in SUBSET Row
    BY NoOpType DEF IInv, TypeOK, Op, Dependents, Row
  <2>3. Begun("cutAccess", o)
    BY <2>1, <2>2 DEF Places, Deleting
  <2>4. seen' \in [Requests -> SUBSET Row] /\ \A q \in Requests : q # r => seen'[q] = seen[q]
    BY <2>1, <2>2 DEF IInv, TypeOK
  <2> QED
    BY <1>1, <1>6, <2>3, <2>4 DEF UserDropAsked
<1>7. ASSUME NEW place \in {"save", "mark"}, NEW v \in Videos, NEW mark \in Mark,
             MarkAsked(r, place, v, mark)
      PROVE  IInv'
  <2>1. PICK c \in born : Begins(r, place, [NoOp EXCEPT !.caller = c, !.video = v, !.mark = mark])
    BY <1>7 DEF MarkAsked
  <2> DEFINE o == [NoOp EXCEPT !.caller = c, !.video = v, !.mark = mark]
  <2>2. o \in Op
    BY NoOpType DEF IInv, TypeOK, Op
  <2>3. Begun(place, o)
    BY <2>1, <2>2 DEF Places
  <2> QED
    BY <1>2, <1>7, <2>3 DEF MarkAsked
<1>8. CASE SaveAsked(r)
  BY <1>7, <1>8, MarkAtType DEF SaveAsked
<1>9. CASE SetAsked(r)
  BY <1>7, <1>9 DEF SetAsked, Mark
<1>10. CASE ClearAsked(r)
  <2>1. PICK c \in born, s \in storages :
          Begins(r, "clear", [NoOp EXCEPT !.caller = c, !.storage = s])
    BY <1>10 DEF ClearAsked
  <2> DEFINE o == [NoOp EXCEPT !.caller = c, !.storage = s]
  <2>2. o \in Op
    BY NoOpType DEF IInv, TypeOK, Op
  <2>3. Begun("clear", o)
    BY <2>1, <2>2 DEF Places
  <2> QED
    BY <1>2, <1>10, <2>3 DEF ClearAsked
<1> QED
  BY <1>3, <1>4, <1>5, <1>6, <1>8, <1>9, <1>10

\* The steps at which a request goes on or ends and no row changes.
LEMMA GoesStep ==
  ASSUME IInv, NEW r \in Requests,
         GrantFinds(r) \/ DropFails(r) \/ UserDropRefused(r) \/ UserDropFails(r)
  PROVE  IInv'
<1>1. CASE GrantFinds(r)
  <2> DEFINE to == IF FoundOther(op[r]) THEN "grant" ELSE "idle"
  <2>1. to \in Places
    BY DEF Places
  <2>2. /\ pc' \in [Requests -> Places] /\ op' \in [Requests -> Op]
        /\ \A q \in Requests : q # r => pc'[q] = pc[q] /\ op'[q] = op[q]
        /\ pc'[r] = to /\ op'[r] = IF to = "idle" THEN NoOp ELSE op[r]
    BY <1>1, <2>1, GoesTyped DEF GrantFinds, IInv
  <2>3. Asked'
    BY <2>2 DEF IInv, Asked, FoundOther
  <2> QED
    BY <1>1, <2>2, <2>3, Moves DEF GrantFinds, IInv, TypeOK
<1>2. CASE DropFails(r)
  <2>1. /\ pc' \in [Requests -> Places] /\ op' \in [Requests -> Op]
        /\ \A q \in Requests : q # r => pc'[q] = pc[q] /\ op'[q] = op[q]
        /\ pc'[r] = "idle"
    BY <1>2, GoesTyped DEF DropFails, IInv, Places
  <2>2. Asked'
    BY <2>1 DEF IInv, Asked
  <2> QED
    BY <1>2, <2>1, <2>2, Moves DEF DropFails, IInv, TypeOK
<1>3. ASSUME NEW from, RolledBack(r, from)
      PROVE  IInv'
  <2>1. /\ pc' \in [Requests -> Places] /\ op' \in [Requests -> Op]
        /\ \A q \in Requests : q # r => pc'[q] = pc[q] /\ op'[q] = op[q]
        /\ pc'[r] = "idle"
    BY <1>3, GoesTyped DEF RolledBack, IInv, Places
  <2>2. Asked'
    BY <2>1 DEF IInv, Asked
  <2>3. /\ cut' \in [Requests -> SUBSET Row] /\ seen' \in [Requests -> SUBSET Row]
        /\ \A q \in Requests : q # r => cut'[q] = cut[q] /\ seen'[q] = seen[q]
    BY <1>3 DEF RolledBack, IInv, TypeOK
  <2> QED
    BY <1>3, <2>1, <2>2, <2>3, Moves DEF RolledBack
<1> QED
  BY <1>1, <1>2, <1>3 DEF UserDropRefused, UserDropFails

\* What an upsert of a right changes, if its user and its storage are there.
LEMMA Upserted ==
  ASSUME TypeOK, NEW o \in Op, Upsert(o)
  PROVE  /\ access' \in [Users -> [Storages -> Levels \cup {"none"}]]
         /\ seen' \in [Requests -> SUBSET Row]
         /\ \A u \in Users, s \in Storages :
              access'[u][s] = IF u = o.target /\ s = o.storage /\ u \in users /\ s \in storages
                              THEN o.level ELSE access[u][s]
         /\ \A r \in Requests : seen'[r] \subseteq seen[r]
         /\ \A u \in Users, s \in Storages, r \in Requests :
              access'[u][s] # access[u][s] /\ op[r].target = u => <<"access", s>> \notin seen'[r]
<1>1. CASE o.target \in users /\ o.storage \in storages
  <2>1. /\ access' = [access EXCEPT ![o.target][o.storage] = o.level]
        /\ seen' = [r \in Requests |->
             IF op[r].target = o.target THEN seen[r] \ {<<"access", o.storage>>} ELSE seen[r]]
    BY <1>1 DEF Upsert, Adds
  <2>2. o.target \in Users /\ o.storage \in Storages /\ o.level \in Levels
    BY <1>1 DEF TypeOK, Op
  <2>3. \A u \in Users, s \in Storages :
          access'[u][s] = IF u = o.target /\ s = o.storage THEN o.level ELSE access[u][s]
    BY <2>1, <2>2 DEF TypeOK
  <2>4. access' \in [Users -> [Storages -> Levels \cup {"none"}]]
    BY <2>1, <2>2 DEF TypeOK
  <2>5. seen' \in [Requests -> SUBSET Row]
    BY <2>1 DEF TypeOK
  <2> QED
    BY <1>1, <2>1, <2>3, <2>4, <2>5
<1>2. CASE ~(o.target \in users /\ o.storage \in storages)
  BY <1>2 DEF Upsert, TypeOK
<1> QED
  BY <1>1, <1>2

\* Rights are written and taken.
LEMMA RightStep ==
  ASSUME IInv, NEW r \in Requests, GrantWrites(r) \/ StorageOwned(r) \/ RevokeWrites(r)
  PROVE  IInv'
<1> USE AccountsAssumption DEF IInv
<1>0. op[r] \in Op /\ op[r].target \in Users /\ op[r].level \in Levels
  BY DEF TypeOK, Op
<1>1. /\ pc' \in [Requests -> Places] /\ op' \in [Requests -> Op]
      /\ \A q \in Requests : q # r => pc'[q] = pc[q] /\ op'[q] = op[q]
      /\ pc'[r] = "idle"
  BY GoesTyped DEF GrantWrites, StorageOwned, RevokeWrites, Places
<1>2. Asked'
  BY <1>1 DEF Asked
<1>3. UNCHANGED <<users, born, storages, made, workers, videos, marks, cut>>
  BY DEF GrantWrites, StorageOwned, RevokeWrites
<1>4. CASE Upsert(op[r])
  <2>1. /\ access' \in [Users -> [Storages -> Levels \cup {"none"}]]
        /\ seen' \in [Requests -> SUBSET Row]
        /\ \A u \in Users, s \in Storages :
             access'[u][s] = IF u = op[r].target /\ s = op[r].storage /\ u \in users /\ s \in storages
                             THEN op[r].level ELSE access[u][s]
        /\ \A q \in Requests : seen'[q] \subseteq seen[q]
        /\ \A u \in Users, s \in Storages, q \in Requests :
             access'[u][s] # access[u][s] /\ op[q].target = u => <<"access", s>> \notin seen'[q]
    BY <1>0, <1>4, Upserted
  <2>2. TypeOK'
    BY <1>1, <1>3, <2>1 DEF TypeOK
  <2>3. RowsRefer'
    BY <1>3, <2>1 DEF RowsRefer, CanRead
  <2>4. Passed'
    <3> SUFFICES ASSUME NEW q \in Requests, pc'[q] \in {"cutWorkers", "cutUser"}
                 PROVE  Passed!(q)'
      BY <1>1 DEF Passed
    <3>1. q # r /\ pc'[q] = pc[q] /\ op'[q] = op[q] /\ op[q].target \in Users
      BY <1>1 DEF TypeOK, Op
    <3> QED
      BY <1>3, <2>1, <3>1 DEF Passed, CanRead, Owns
  <2> QED
    BY <1>2, <2>2, <2>3, <2>4
<1>5. CASE UNCHANGED <<access, seen>>
  <2>1. UNCHANGED tables
    BY <1>3, <1>5 DEF tables
  <2> QED
    BY <1>1, <1>2, <1>3, <1>5, <2>1, Moves DEF TypeOK
<1>6. CASE RevokeWrites(r)
  <2>1. access' = [access EXCEPT ![op[r].target][op[r].storage] = "none"] /\ seen' = seen
    BY <1>6 DEF RevokeWrites
  <2>2. access' \in [Users -> [Storages -> Levels \cup {"none"}]]
    BY <1>0, <2>1 DEF TypeOK
  <2>3. \A u \in Users, s \in Storages : CanRead(u, s)' => CanRead(u, s)
    BY <1>0, <2>1 DEF TypeOK, CanRead
  <2>4. TypeOK'
    BY <1>1, <1>3, <2>1, <2>2 DEF TypeOK
  <2>5. RowsRefer'
    BY <1>3, <2>3 DEF RowsRefer
  <2>6. Passed'
    <3> SUFFICES ASSUME NEW q \in Requests, pc'[q] \in {"cutWorkers", "cutUser"}
                 PROVE  Passed!(q)'
      BY <1>1 DEF Passed
    <3>1. q # r /\ pc'[q] = pc[q] /\ op'[q] = op[q] /\ op[q].target \in Users
      BY <1>1 DEF TypeOK, Op
    <3> QED
      BY <1>3, <2>1, <2>3, <3>1 DEF Passed, Owns
  <2> QED
    BY <1>2, <2>4, <2>5, <2>6
<1> QED
  BY <1>4, <1>5, <1>6 DEF GrantWrites, StorageOwned

\* A storage is made, or goes with what belongs to it.
LEMMA StorageStep ==
  ASSUME IInv, NEW r \in Requests, StorageCreated(r) \/ StorageDropped(r)
  PROVE  IInv'
<1> USE AccountsAssumption DEF IInv
<1>1. CASE StorageCreated(r)
  <2>1. PICK c \in born, s \in Storages \ made :
          /\ Begins(r, "own", [NoOp EXCEPT !.caller = c, !.target = c, !.storage = s, !.level = "a"])
          /\ storages' = storages \cup {s} /\ made' = made \cup {s}
    BY <1>1 DEF StorageCreated
  <2> DEFINE o == [NoOp EXCEPT !.caller = c, !.target = c, !.storage = s, !.level = "a"]
  <2>2. o \in Op /\ o.level = "a" /\ "own" \in Places
    BY NoOpType DEF TypeOK, Op, Levels, Places
  <2>3. /\ pc' \in [Requests -> Places] /\ op' \in [Requests -> Op]
        /\ \A q \in Requests : q # r => pc'[q] = pc[q] /\ op'[q] = op[q]
        /\ pc'[r] = "own" /\ op'[r] = o
    BY <2>1, <2>2, BeginsTyped
  <2> HIDE DEF o
  <2>4. TypeOK'
    BY <1>1, <2>1, <2>3 DEF StorageCreated, TypeOK
  <2>5. RowsRefer'
    BY <1>1, <2>1 DEF StorageCreated, RowsRefer, CanRead
  <2>6. Asked'
    BY <2>2, <2>3 DEF Asked
  <2>7. Passed'
    BY <1>1, <2>3 DEF StorageCreated, Passed, CanRead, Owns
  <2> QED
    BY <2>4, <2>5, <2>6, <2>7
<1>2. CASE StorageDropped(r)
  <2> DEFINE s == op[r].storage
  <2>1. /\ pc' \in [Requests -> Places] /\ op' \in [Requests -> Op]
        /\ \A q \in Requests : q # r => pc'[q] = pc[q] /\ op'[q] = op[q]
        /\ pc'[r] = "idle"
    BY <1>2, GoesTyped DEF StorageDropped, Places
  <2>2. s \in Storages /\ s # None
    BY <1>2 DEF StorageDropped, TypeOK
  <2>3. /\ access' \in [Users -> [Storages -> Levels \cup {"none"}]]
        /\ \A u \in Users, t \in Storages : CanRead(u, t)' => CanRead(u, t) /\ t # s
    BY <1>2, <2>2 DEF StorageDropped, TypeOK, CanRead
  <2>4. /\ workers' \in [Workers -> [owner : Users, storage : Storages \cup {None}] \cup {None}]
        /\ \A w \in Workers : workers'[w] # None =>
             /\ workers[w] # None /\ workers'[w].owner = workers[w].owner
             /\ workers'[w].storage \in {workers[w].storage, None} /\ workers'[w].storage # s
    <3> SUFFICES ASSUME NEW w \in Workers
                 PROVE  /\ workers'[w] \in [owner : Users, storage : Storages \cup {None}] \cup {None}
                        /\ workers'[w] # None =>
                             /\ workers[w] # None /\ workers'[w].owner = workers[w].owner
                             /\ workers'[w].storage \in {workers[w].storage, None}
                             /\ workers'[w].storage # s
      BY <1>2 DEF StorageDropped
    <3>1. workers[w] \in [owner : Users, storage : Storages \cup {None}] \cup {None}
      BY DEF TypeOK
    <3>2. CASE workers[w] # None /\ workers[w].storage = s
      <4>1. workers'[w] = [workers[w] EXCEPT !.storage = None]
        BY <1>2, <3>2 DEF StorageDropped
      <4> QED
        BY <2>2, <3>1, <3>2, <4>1
    <3>3. CASE ~(workers[w] # None /\ workers[w].storage = s)
      <4>1. workers'[w] = workers[w]
        BY <1>2, <3>3 DEF StorageDropped
      <4> QED
        BY <3>1, <3>3, <4>1
    <3> QED
      BY <3>2, <3>3
  <2>5. /\ marks' \in [Users -> [Videos -> Mark \cup {None}]]
        /\ \A u \in Users, v \in Videos : marks'[u][v] # None => marks[u][v] # None /\ HomeOf[v] # s
    BY <1>2 DEF StorageDropped, TypeOK
  <2>6. TypeOK'
    BY <1>2, <2>1, <2>3, <2>4, <2>5 DEF StorageDropped, TypeOK
  <2>7. RowsRefer'
    BY <1>2, <2>3, <2>4, <2>5 DEF StorageDropped, RowsRefer, TypeOK
  <2>8. Asked'
    BY <2>1 DEF Asked
  <2>9. Passed'
    <3> SUFFICES ASSUME NEW q \in Requests, pc'[q] \in {"cutWorkers", "cutUser"}
                 PROVE  Passed!(q)'
      BY <2>1 DEF Passed
    <3>1. q # r /\ pc'[q] = pc[q] /\ op'[q] = op[q] /\ op[q].target \in Users
      BY <2>1 DEF TypeOK, Op
    <3>2. UNCHANGED <<cut, seen>>
      BY <1>2 DEF StorageDropped
    <3> QED
      BY <2>3, <2>4, <3>1, <3>2 DEF Passed, Owns
  <2> QED
    BY <2>6, <2>7, <2>8, <2>9
<1> QED
  BY <1>1, <1>2

\* A deletion passes the tables, and then the account goes.
LEMMA UserDropStep ==
  ASSUME IInv, NEW r \in Requests, CutAccess(r) \/ CutWorkers(r) \/ UserDropped(r)
  PROVE  IInv'
<1> USE AccountsAssumption DEF IInv
<1>0. op[r].target \in Users
  BY DEF TypeOK, Op
<1>1. CASE CutAccess(r) \/ CutWorkers(r)
  <2> DEFINE to == IF CutAccess(r) THEN "cutWorkers" ELSE "cutUser"
             from == IF CutAccess(r) THEN "cutAccess" ELSE "cutWorkers"
  <2>1. Goes(r, from, to)
    BY <1>1 DEF CutAccess, CutWorkers
  <2>2. to \in Places /\ to # "idle"
    BY DEF Places, Deleting
  <2>3. /\ pc' \in [Requests -> Places] /\ op' \in [Requests -> Op]
        /\ \A q \in Requests : q # r => pc'[q] = pc[q] /\ op'[q] = op[q]
        /\ pc[r] = from /\ pc'[r] = to /\ op'[r] = op[r]
    BY <2>1, <2>2, GoesTyped
  <2>4. \A table : RowsOf(op[r].target, table) \subseteq Row
    BY DEF RowsOf, Dependents, Row
  <2>5. /\ cut' \in [Requests -> SUBSET Row] /\ \A q \in Requests : q # r => cut'[q] = cut[q]
        /\ CutAccess(r) => cut'[r] = RowsOf(op[r].target, "access")
        /\ CutWorkers(r) => cut'[r] = cut[r] \cup RowsOf(op[r].target, "worker")
    BY <1>1, <2>4 DEF CutAccess, CutWorkers, TypeOK
  <2>6. UNCHANGED <<tables, seen>>
    BY <1>1 DEF CutAccess, CutWorkers
  <2>7. TypeOK' /\ RowsRefer'
    BY <2>3, <2>5, <2>6 DEF TypeOK, RowsRefer, CanRead, tables
  <2>8. Asked'
    BY <2>3 DEF Asked
  <2>9. Passed'
    <3> SUFFICES ASSUME NEW q \in Requests
                 PROVE  Passed!(q)'
      BY DEF Passed
    <3>1. CASE q # r
      BY <2>3, <2>5, <2>6, <3>1 DEF Passed, CanRead, Owns, tables
    <3>2. CASE q = r /\ CutAccess(r)
      <4>1. \A s \in Storages : CanRead(op[r].target, s) => <<"access", s>> \in cut'[r]
        BY <2>5, <3>2 DEF RowsOf, Dependents
      <4> QED
        BY <2>3, <2>6, <3>2, <4>1 DEF CanRead, tables
    <3>3. CASE q = r /\ ~CutAccess(r)
      <4>1. \A w \in Workers : Owns(op[r].target, w) => <<"worker", w>> \in cut'[r]
        BY <1>1, <2>5, <3>3 DEF RowsOf, Dependents
      <4>2. \A s \in Storages :
              CanRead(op[r].target, s) /\ <<"access", s>> \in seen[r] => <<"access", s>> \in cut'[r]
        BY <1>1, <2>3, <2>5, <3>3 DEF Passed
      <4> QED
        BY <2>3, <2>6, <3>3, <4>1, <4>2 DEF CanRead, Owns, tables
    <3> QED
      BY <3>1, <3>2, <3>3
  <2> QED
    BY <2>7, <2>8, <2>9
<1>2. CASE UserDropped(r)
  <2> DEFINE u == op[r].target
  <2>1. /\ pc' \in [Requests -> Places] /\ op' \in [Requests -> Op]
        /\ \A q \in Requests : q # r => pc'[q] = pc[q] /\ op'[q] = op[q]
        /\ pc'[r] = "idle"
    BY <1>2, GoesTyped DEF UserDropped, Places
  <2>2. /\ cut' \in [Requests -> SUBSET Row] /\ seen' \in [Requests -> SUBSET Row]
        /\ \A q \in Requests : q # r => cut'[q] = cut[q] /\ seen'[q] = seen[q]
    BY <1>2 DEF UserDropped, TypeOK
  <2>3. /\ access' \in [Users -> [Storages -> Levels \cup {"none"}]]
        /\ \A v \in Users, s \in Storages : CanRead(v, s)' => CanRead(v, s) /\ v # u
    BY <1>0, <1>2 DEF UserDropped, TypeOK, CanRead
  <2>4. /\ workers' \in [Workers -> [owner : Users, storage : Storages \cup {None}] \cup {None}]
        /\ \A w \in Workers : workers'[w] # None => workers'[w] = workers[w] /\ workers[w].owner # u
    BY <1>2 DEF UserDropped, TypeOK, Owns
  <2>5. /\ marks' \in [Users -> [Videos -> Mark \cup {None}]]
        /\ \A v \in Users, x \in Videos : marks'[v][x] # None => marks[v][x] # None /\ v # u
    BY <1>0, <1>2 DEF UserDropped, TypeOK
  <2>6. TypeOK'
    BY <1>2, <2>1, <2>2, <2>3, <2>4, <2>5 DEF UserDropped, TypeOK
  <2>7. RowsRefer'
    BY <1>2, <2>3, <2>4, <2>5 DEF UserDropped, RowsRefer
  <2>8. Asked'
    BY <2>1 DEF Asked
  <2>9. Passed'
    <3> SUFFICES ASSUME NEW q \in Requests, pc'[q] \in {"cutWorkers", "cutUser"}
                 PROVE  Passed!(q)'
      BY <2>1 DEF Passed
    <3>1. q # r /\ pc'[q] = pc[q] /\ op'[q] = op[q] /\ op[q].target \in Users
      BY <2>1 DEF TypeOK, Op
    <3> QED
      BY <2>2, <2>3, <2>4, <3>1 DEF Passed, Owns
  <2> QED
    BY <2>6, <2>7, <2>8, <2>9
<1> QED
  BY <1>1, <1>2

\* Single statements: accounts, workers and files that come and go.
LEMMA RowStep ==
  ASSUME IInv,
         \/ \E u \in Users : UserCreated(u)
         \/ \E u \in Users, w \in Workers : WorkerCreated(w, u) \/ WorkerChanged(w, u)
         \/ \E v \in Videos : VideoStored(v) \/ VideoGone(v)
  PROVE  IInv'
<1> USE AccountsAssumption DEF IInv
<1>1. ASSUME NEW u \in Users, UserCreated(u)
      PROVE  IInv'
  <2>1. TypeOK' /\ RowsRefer'
    BY <1>1 DEF UserCreated, requests, TypeOK, RowsRefer, CanRead
  <2>2. Asked' /\ Passed'
    BY <1>1 DEF UserCreated, requests, Asked, Passed, CanRead, Owns
  <2> QED
    BY <2>1, <2>2
<1>2. ASSUME NEW c \in Users, NEW w \in Workers, WorkerCreated(w, c)
      PROVE  IInv'
  <2>1. PICK s \in Assignments : workers' = [workers EXCEPT ![w] = [owner |-> c, storage |-> s]]
    BY <1>2 DEF WorkerCreated
  <2>2. s \in Storages \cup {None} /\ s \in storages \cup {None} /\ c \in users
    BY <1>2 DEF WorkerCreated, Assignments, TypeOK
  <2>3. seen' = [q \in Requests |-> IF op[q].target = c THEN seen[q] \ {<<"worker", w>>} ELSE seen[q]]
    BY <1>2 DEF WorkerCreated, Adds
  <2>4. TypeOK'
    BY <1>2, <2>1, <2>2, <2>3 DEF WorkerCreated, TypeOK
  <2>5. RowsRefer'
    BY <1>2, <2>1, <2>2 DEF WorkerCreated, RowsRefer, CanRead, TypeOK
  <2>6. Asked'
    BY <1>2 DEF WorkerCreated, Asked
  <2>7. Passed'
    <3> SUFFICES ASSUME NEW q \in Requests
                 PROVE  Passed!(q)'
      BY DEF Passed
    <3>1. \A x \in Workers : x # w => (Owns(op[q].target, x)' <=> Owns(op[q].target, x))
      BY <1>2, <2>1 DEF WorkerCreated, Owns, TypeOK
    <3>2. Owns(op[q].target, w)' => <<"worker", w>> \notin seen'[q]
      BY <1>2, <2>1, <2>3 DEF WorkerCreated, Owns, TypeOK
    <3>3. seen'[q] \subseteq seen[q]
      BY <2>3
    <3> QED
      BY <1>2, <3>1, <3>2, <3>3 DEF WorkerCreated, Passed, CanRead
  <2> QED
    BY <2>4, <2>5, <2>6, <2>7
<1>3. ASSUME NEW c \in Users, NEW w \in Workers, WorkerChanged(w, c)
      PROVE  IInv'
  <2>1. PICK row \in {[owner |-> c, storage |-> s] : s \in Assignments} \cup {None} :
          workers' = [workers EXCEPT ![w] = row]
    BY <1>3 DEF WorkerChanged
  <2>2. /\ row \in [owner : Users, storage : Storages \cup {None}] \cup {None}
        /\ row # None => row.owner = c /\ row.storage \in storages \cup {None}
    BY DEF Assignments, TypeOK
  <2>3. workers[w] # None /\ workers[w].owner = c
    BY <1>3 DEF WorkerChanged, Owns
  <2>4. TypeOK'
    BY <1>3, <2>1, <2>2 DEF WorkerChanged, requests, TypeOK
  <2>5. RowsRefer'
    BY <1>3, <2>1, <2>2, <2>3 DEF WorkerChanged, requests, RowsRefer, CanRead, TypeOK
  <2>6. \A u \in Users, x \in Workers : Owns(u, x)' => Owns(u, x)
    BY <2>1, <2>2, <2>3 DEF Owns, TypeOK
  <2>7. Asked' /\ Passed'
    BY <1>3, <2>6 DEF WorkerChanged, requests, Asked, Passed, CanRead, TypeOK, Op
  <2> QED
    BY <2>4, <2>5, <2>7
<1>4. ASSUME NEW v \in Videos, VideoStored(v)
      PROVE  IInv'
  <2>1. TypeOK' /\ RowsRefer'
    BY <1>4 DEF VideoStored, requests, TypeOK, RowsRefer, CanRead
  <2>2. Asked' /\ Passed'
    BY <1>4 DEF VideoStored, requests, Asked, Passed, CanRead, Owns
  <2> QED
    BY <2>1, <2>2
<1>5. ASSUME NEW v \in Videos, VideoGone(v)
      PROVE  IInv'
  <2>1. /\ marks' \in [Users -> [Videos -> Mark \cup {None}]]
        /\ \A u \in Users, x \in Videos : marks'[u][x] # None => marks[u][x] # None /\ x # v
    BY <1>5 DEF VideoGone, TypeOK
  <2>2. TypeOK' /\ RowsRefer'
    BY <1>5, <2>1 DEF VideoGone, requests, TypeOK, RowsRefer, CanRead
  <2>3. Asked' /\ Passed'
    BY <1>5 DEF VideoGone, requests, Asked, Passed, CanRead, Owns
  <2> QED
    BY <2>2, <2>3
<1> QED
  BY <1>1, <1>2, <1>3, <1>4, <1>5

\* The watch mark of a user and a video, or none, is all that such a step writes.
LEMMA MarkStep ==
  ASSUME IInv,
         \/ \E r \in Requests : Saved(r) \/ SetByHand(r) \/ Cleared(r)
         \/ \E u \in Users : ClearedAll(u)
  PROVE  IInv'
<1> USE AccountsAssumption DEF IInv
<1>1. ASSUME marks' \in [Users -> [Videos -> Mark \cup {None}]],
             \A u \in Users, v \in Videos :
               marks'[u][v] # None => marks[u][v] # None \/ (u \in users /\ v \in videos),
             pc' \in [Requests -> Places], op' \in [Requests -> Op],
             \A q \in Requests : pc'[q] = "idle" \/ (pc'[q] = pc[q] /\ op'[q] = op[q]),
             UNCHANGED <<users, born, storages, made, access, workers, videos, cut, seen>>
      PROVE  IInv'
  <2>1. TypeOK' /\ RowsRefer'
    BY <1>1 DEF TypeOK, RowsRefer, CanRead
  <2>2. Asked' /\ Passed'
    BY <1>1 DEF Asked, Passed, CanRead, Owns
  <2> QED
    BY <2>1, <2>2
<1>2. ASSUME NEW r \in Requests, NEW place, NEW mark \in Mark, MarkWritten(r, place, mark)
      PROVE  IInv'
  <2>1. op[r] \in Op
    BY DEF TypeOK
  <2>2. /\ pc' \in [Requests -> Places] /\ op' \in [Requests -> Op]
        /\ \A q \in Requests : pc'[q] = "idle" \/ (pc'[q] = pc[q] /\ op'[q] = op[q])
    BY <1>2, GoesTyped DEF MarkWritten, Places
  <2>3. CASE op[r].caller \in users /\ op[r].video \in videos
    <3>1. marks' = [marks EXCEPT ![op[r].caller][op[r].video] = mark]
      BY <1>2, <2>3 DEF MarkWritten
    <3>2. op[r].caller \in Users /\ op[r].video \in Videos
      BY <2>3 DEF TypeOK
    <3>3. /\ marks' \in [Users -> [Videos -> Mark \cup {None}]]
          /\ \A u \in Users, v \in Videos :
               marks'[u][v] # None => marks[u][v] # None \/ (u = op[r].caller /\ v = op[r].video)
      BY <3>1, <3>2 DEF TypeOK
    <3> QED
      BY <1>1, <1>2, <2>2, <2>3, <3>3 DEF MarkWritten
  <2>4. CASE ~(op[r].caller \in users /\ op[r].video \in videos)
    <3>1. marks' = marks
      BY <1>2, <2>4 DEF MarkWritten
    <3> QED
      BY <1>1, <1>2, <2>2, <3>1 DEF MarkWritten, TypeOK
  <2> QED
    BY <2>3, <2>4
<1>3. ASSUME NEW c \in Users, NEW vs, Forgotten(c, vs)
      PROVE  /\ marks' \in [Users -> [Videos -> Mark \cup {None}]]
             /\ \A u \in Users, v \in Videos : marks'[u][v] # None => marks[u][v] # None
  BY <1>3 DEF Forgotten, TypeOK
<1>4. ASSUME NEW r \in Requests, Saved(r)
      PROVE  IInv'
  <2>1. CASE Marked(op[r]) = None
    <3>1. op[r].mark \in Mark
      BY DEF TypeOK, Op
    <3>2. Merged(op[r]) \in Mark
      BY <2>1, <3>1 DEF Merged, Mark
    <3> QED
      BY <1>2, <1>4, <3>2 DEF Saved
  <2>2. CASE Marked(op[r]) # None
    <3>1. op[r].caller \in users /\ op[r].video \in videos => Marked(op[r]) \in Mark
      BY <2>2 DEF Marked, TypeOK
    <3>2. CASE op[r].caller \in users /\ op[r].video \in videos
      BY <1>2, <1>4, <3>1, <3>2 DEF Saved, Merged, TypeOK, Op, Mark
    <3>3. CASE ~(op[r].caller \in users /\ op[r].video \in videos)
      <4>1. MarkWritten(r, "save", op[r].mark) /\ op[r].mark \in Mark
        BY <1>4, <3>3 DEF Saved, MarkWritten, TypeOK, Op
      <4> QED
        BY <1>2, <4>1
    <3> QED
      BY <3>2, <3>3
  <2> QED
    BY <2>1, <2>2
<1>5. ASSUME NEW r \in Requests, SetByHand(r)
      PROVE  IInv'
  BY <1>2, <1>5 DEF SetByHand, TypeOK, Op
<1>6. ASSUME NEW r \in Requests, Cleared(r)
      PROVE  IInv'
  <2>1. op[r].caller \in Users
    BY DEF TypeOK, Op
  <2>2. /\ pc' \in [Requests -> Places] /\ op' \in [Requests -> Op]
        /\ \A q \in Requests : pc'[q] = "idle" \/ (pc'[q] = pc[q] /\ op'[q] = op[q])
    BY <1>6, GoesTyped DEF Cleared, Places
  <2> QED
    BY <1>1, <1>3, <1>6, <2>1, <2>2 DEF Cleared
<1>7. ASSUME NEW u \in Users, ClearedAll(u)
      PROVE  IInv'
  BY <1>1, <1>3, <1>7 DEF ClearedAll, requests, TypeOK
<1> QED
  BY <1>4, <1>5, <1>6, <1>7

\* A step that changes nothing.
LEMMA Stutter == IInv /\ UNCHANGED vars => IInv'
BY DEF IInv, vars, tables, requests, TypeOK, RowsRefer, Asked, Passed, CanRead, Owns

\* The invariant holds in every state.
THEOREM Invariance == Spec => []IInv
<1>1. IInv /\ [Next]_vars => IInv'
  BY AskedStep, GoesStep, RightStep, StorageStep, UserDropStep, RowStep, MarkStep, Stutter
     DEF Next
<1> QED
  BY InitIInv, <1>1, PTL DEF Spec

\* The rows of every table refer to rows that are there.
THEOREM Refers == Spec => [](TypeOK /\ RowsRefer)
BY Invariance, PTL DEF IInv

\* Writing the right of a user takes nobody's right to read.
LEMMA UpsertKeeps ==
  ASSUME TypeOK, NEW o \in Op, Upsert(o), NEW u \in Users, NEW s \in Storages, CanRead(u, s)
  PROVE  CanRead(u, s)'
BY Upserted DEF CanRead, Levels, Op

\* A user keeps a right until it is revoked or its storage or account goes
\* (DeleteManaged is one transaction).
THEOREM RightsKept == Spec => RightsAreKept
<1> DEFINE Kept(u, s) ==
      CanRead(u, s) /\ ~CanRead(u, s)' =>
        \/ s \notin storages' \/ u \notin users'
        \/ \E r \in Requests : RevokeWrites(r) /\ op[r].target = u
<1>1. ASSUME TypeOK, [Next]_vars, NEW u \in Users, NEW s \in Storages
      PROVE  Kept(u, s)
  <2>1. SUFFICES ASSUME CanRead(u, s), ~CanRead(u, s)'
                 PROVE  \/ s \notin storages' \/ u \notin users'
                        \/ \E r \in Requests : RevokeWrites(r) /\ op[r].target = u
    OBVIOUS
  <2>2. access' # access
    BY <2>1 DEF CanRead
  <2>3. PICK r \in Requests : \/ GrantWrites(r) \/ StorageOwned(r) \/ RevokeWrites(r)
                              \/ StorageDropped(r) \/ UserDropped(r)
    BY <1>1, <2>2 DEF Next, vars, tables, requests, GrantAsked, GrantFinds, RevokeAsked,
       StorageCreated, DropAsked, DropFails, UserDropAsked, CutAccess, CutWorkers,
       UserDropRefused, UserDropFails, RolledBack, SaveAsked, SetAsked, MarkAsked, Saved,
       SetByHand, MarkWritten, ClearAsked, Cleared, UserCreated, ClearedAll,
       WorkerCreated, WorkerChanged, VideoStored, VideoGone
  <2>4. CASE GrantWrites(r) \/ StorageOwned(r)
    <3>1. op[r] \in Op
      BY <1>1 DEF TypeOK
    <3> QED
      BY <1>1, <2>1, <2>2, <2>4, <3>1, UpsertKeeps DEF GrantWrites, StorageOwned
  <2>5. CASE RevokeWrites(r)
    BY <1>1, <2>1, <2>5 DEF RevokeWrites, CanRead, TypeOK
  <2>6. CASE StorageDropped(r)
    BY <1>1, <2>1, <2>6 DEF StorageDropped, CanRead, TypeOK
  <2>7. CASE UserDropped(r)
    BY <1>1, <2>1, <2>7 DEF UserDropped, CanRead, TypeOK
  <2> QED
    BY <2>3, <2>4, <2>5, <2>6, <2>7
<1>2. IInv /\ [Next]_vars => [\A u \in Users, s \in Storages : Kept(u, s)]_vars
  BY <1>1 DEF IInv
<1> QED
  BY Invariance, <1>2, PTL DEF Spec, RightsAreKept

\* A deletion that is refused meets a row it could not have seen
\* (DeleteManaged deletes what refers to users).
THEOREM RefusedOnlyByRace == Spec => RefusedByRace
<1> DEFINE Race(r) == UserDropRefused(r) => ~(Dependents(op[r].target) \subseteq seen[r])
<1>1. ASSUME IInv, NEW r \in Requests
      PROVE  Race(r)
  <2>1. SUFFICES ASSUME UserDropRefused(r)
                 PROVE  \E row \in Dependents(op[r].target) : row \notin seen[r]
    OBVIOUS
  <2>2. pc[r] = "cutUser"
    BY <2>1 DEF UserDropRefused, RolledBack, Goes
  <2>3. PICK row \in Dependents(op[r].target) : row \notin cut[r]
    BY <2>1 DEF UserDropRefused
  <2>4. row \notin seen[r]
    BY <1>1, <2>2, <2>3 DEF IInv, Passed, Dependents
  <2> QED
    BY <2>4
<1>2. IInv => [\A r \in Requests : Race(r)]_vars
  BY <1>1
<1> QED
  BY Invariance, <1>2, PTL DEF RefusedByRace

\* A watched video stays watched until its user marks or clears it (Save).
THEOREM WatchedKept == Spec => WatchedStays
<1> DEFINE Watched(u, v) == marks[u][v] # None /\ marks[u][v].watched
           Kept(u, v) ==
             Watched(u, v) /\ ~Watched(u, v)' =>
               \/ ClearedAll(u)
               \/ \E r \in Requests : op[r].caller = u /\ (SetByHand(r) \/ Cleared(r))
<1>1. ASSUME TypeOK, [Next]_vars, NEW u \in users \cap users', NEW v \in videos \cap videos'
      PROVE  Kept(u, v)
  <2>1. SUFFICES ASSUME Watched(u, v), ~Watched(u, v)'
                 PROVE  \/ ClearedAll(u)
                        \/ \E r \in Requests : op[r].caller = u /\ (SetByHand(r) \/ Cleared(r))
    OBVIOUS
  <2>2. marks'[u][v] # marks[u][v] /\ u \in Users /\ v \in Videos
    BY <1>1, <2>1 DEF TypeOK
  <2>3. \/ \E r \in Requests : \/ StorageDropped(r) \/ UserDropped(r)
                               \/ Saved(r) \/ SetByHand(r) \/ Cleared(r)
        \/ \E c \in Users : ClearedAll(c)
        \/ \E x \in Videos : VideoGone(x)
    BY <1>1, <2>2 DEF Next, vars, tables, requests, GrantAsked, GrantFinds, GrantWrites,
       RevokeAsked, RevokeWrites, StorageCreated, StorageOwned, DropAsked, DropFails,
       UserDropAsked, CutAccess, CutWorkers, UserDropRefused, UserDropFails, RolledBack,
       SaveAsked, SetAsked, MarkAsked, ClearAsked, UserCreated, WorkerCreated,
       WorkerChanged, VideoStored
  <2>4. ASSUME NEW r \in Requests, StorageDropped(r)
        PROVE  FALSE
    BY <1>1, <2>2, <2>4 DEF StorageDropped
  <2>5. ASSUME NEW r \in Requests, UserDropped(r)
        PROVE  FALSE
    BY <1>1, <2>2, <2>5 DEF UserDropped, TypeOK
  <2>6. ASSUME NEW x \in Videos, VideoGone(x)
        PROVE  FALSE
    BY <1>1, <2>2, <2>6 DEF VideoGone, TypeOK
  <2>7. ASSUME NEW r \in Requests, Saved(r)
        PROVE  FALSE
    <3>1. op[r] \in Op
      BY <1>1 DEF TypeOK
    <3>2. /\ op[r].caller = u /\ op[r].video = v
          /\ marks' = [marks EXCEPT ![u][v] = Merged(op[r])]
      BY <1>1, <2>2, <2>7 DEF Saved, MarkWritten, TypeOK
    <3>3. Merged(op[r]) \in Mark /\ Merged(op[r]).watched
      <4>1. op[r].mark \in Mark
        BY <3>1 DEF Op
      <4>2. Merged(op[r]) = [op[r].mark EXCEPT !.watched = TRUE]
        BY <2>1, <3>2, <4>1 DEF Merged, Marked, Mark
      <4> QED
        BY <4>1, <4>2 DEF Mark
    <3>4. Merged(op[r]) # None
      BY <3>3, AccountsAssumption DEF Mark
    <3> QED
      BY <1>1, <2>1, <2>2, <3>2, <3>3, <3>4 DEF TypeOK
  <2>8. ASSUME NEW r \in Requests, SetByHand(r) \/ Cleared(r)
        PROVE  op[r].caller = u
    BY <1>1, <2>2, <2>8 DEF SetByHand, MarkWritten, Cleared, Forgotten, TypeOK
  <2>9. ASSUME NEW c \in Users, ClearedAll(c)
        PROVE  c = u
    BY <1>1, <2>2, <2>9 DEF ClearedAll, Forgotten, TypeOK
  <2> QED
    BY <2>3, <2>4, <2>5, <2>6, <2>7, <2>8, <2>9
<1>2. IInv /\ [Next]_vars =>
        [\A u \in users \cap users', v \in videos \cap videos' : Kept(u, v)]_vars
  BY <1>1 DEF IInv
<1> QED
  BY Invariance, <1>2, PTL DEF Spec, WatchedStays

\* A storage loses its last administrator only with an account, or by one who
\* was an administrator when asking and is one no more (Grant, Revoke).
THEOREM LastAdminKept == Spec => LastAdminStays
<1> DEFINE Kept(s) ==
      Admins(s) # {} /\ Admins(s)' = {} =>
        \/ users' # users
        \/ \E r \in Requests : op[r].storage = s /\ op'[r] # op[r] /\ ~Admin(op[r].caller, s)
<1>1. ASSUME IInv, [Next]_vars, NEW s \in storages \cap storages'
      PROVE  Kept(s)
  <2>1. SUFFICES ASSUME NEW u \in Users, Admin(u, s), \A v \in Users : ~Admin(v, s)', users' = users
                 PROVE  \E r \in Requests :
                          op[r].storage = s /\ op'[r] # op[r] /\ ~Admin(op[r].caller, s)
    BY DEF Admins
  <2>2. s \in Storages /\ access' # access
    BY <1>1, <2>1 DEF IInv, TypeOK, Admin
  <2>3. PICK r \in Requests : \/ GrantWrites(r) \/ StorageOwned(r) \/ RevokeWrites(r)
                              \/ StorageDropped(r) \/ UserDropped(r)
    BY <1>1, <2>2 DEF Next, vars, tables, requests, GrantAsked, GrantFinds, RevokeAsked,
       StorageCreated, DropAsked, DropFails, UserDropAsked, CutAccess, CutWorkers,
       UserDropRefused, UserDropFails, RolledBack, SaveAsked, SetAsked, MarkAsked, Saved,
       SetByHand, MarkWritten, ClearAsked, Cleared, UserCreated, ClearedAll,
       WorkerCreated, WorkerChanged, VideoStored, VideoGone
  <2>4. op[r] \in Op /\ op[r].caller \in Users /\ op[r].target \in Users
    BY <1>1 DEF IInv, TypeOK, Op
  <2>5. CASE GrantWrites(r) \/ RevokeWrites(r)
    <3>1. \A v \in Users, t \in Storages :
            access'[v][t] # access[v][t] => v = op[r].target /\ t = op[r].storage
      BY <1>1, <2>4, <2>5, Upserted DEF GrantWrites, RevokeWrites, IInv, TypeOK
    <3>2. op[r].target # op[r].caller /\ op'[r] = NoOp
      BY <1>1, <2>5, GoesTyped DEF GrantWrites, RevokeWrites, IInv, Asked, Goes, Places
    <3>3. op[r].storage = s /\ u = op[r].target
      BY <2>1, <2>2, <3>1 DEF Admin
    <3>4. ~Admin(op[r].caller, s)
      BY <2>1, <2>2, <2>4, <3>1, <3>2 DEF Admin
    <3> QED
      BY <3>2, <3>3, <3>4, NoOpType
  <2>6. CASE StorageOwned(r)
    <3>1. op[r].level = "a"
      BY <1>1, <2>6 DEF StorageOwned, Goes, IInv, Asked
    <3>2. Upsert(op[r]) \/ access' = access
      BY <2>6 DEF StorageOwned
    <3>3. Admin(u, s)'
      BY <1>1, <2>1, <2>2, <2>4, <3>1, <3>2, Upserted DEF IInv, Admin
    <3> QED
      BY <2>1, <3>3
  <2>7. CASE StorageDropped(r)
    BY <1>1, <2>1, <2>2, <2>7 DEF StorageDropped, IInv, TypeOK, Admin
  <2>8. CASE UserDropped(r)
    BY <1>1, <2>1, <2>8 DEF UserDropped
  <2> QED
    BY <2>3, <2>5, <2>6, <2>7, <2>8
<1>2. IInv /\ [Next]_vars => [\A s \in storages \cap storages' : Kept(s)]_vars
  BY <1>1
<1> QED
  BY Invariance, <1>2, PTL DEF Spec, LastAdminStays
=============================================================================
