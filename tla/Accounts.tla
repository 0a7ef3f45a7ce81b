------------------------------ MODULE Accounts ------------------------------
(***************************************************************************)
(* Users, storages, access rights, workers and watch marks: the services   *)
(* of service/users.go, storages.go, access.go, storage_workers.go and     *)
(* watch_progress.go over their repositories and the schema of             *)
(* startup/startup.go.                                                     *)
(*                                                                         *)
(* A request checks first and writes later, and requests interleave: each  *)
(* SQL statement is one step.  Deleting a user is a transaction, whose     *)
(* deletes nobody sees before it commits and whose rows the writes of      *)
(* others wait for.  An account is not looked up again once its token is   *)
(* issued, so a caller may have been deleted.  Ids are never used again.   *)
(***************************************************************************)
EXTENDS Naturals, FiniteSets

CONSTANTS
  Users, Root,       \* accounts; the superuser's
  Storages, ChatOf,  \* storages and the channel of each
  Workers,
  Videos, HomeOf,    \* files and the storage of each
  Durations,         \* the length of each video in seconds
  ResumeMin,         \* WatchResumeMinSeconds
  Seconds,           \* positions a player may report
  Granted,           \* levels asked for
  Requests,          \* requests under way at one time
  None               \* no row

ASSUME AccountsAssumption ==
  /\ Root \in Users
  /\ None \notin Users \cup Storages \cup [watched : BOOLEAN, resume : Nat]
  /\ HomeOf \in [Videos -> Storages] /\ Granted \subseteq {"r", "w", "a"}
  /\ Durations \in [Videos -> Nat] /\ Seconds \subseteq Nat /\ ResumeMin \in Nat

VARIABLES
  users, born,      \* rows of users; those there ever were
  storages, made,   \* rows of storages; those there ever were
  access,           \* the level of each user in each storage, or "none"
  workers,          \* the row of each worker, or None
  videos,           \* rows of files
  marks,            \* the watch_progress row of each user and video, or None
  pc, op,           \* where each request is, and what it is about
  cut,              \* the rows its open transaction has deleted
  seen              \* history: rows of the user that are there since its deletion began

tables   == <<users, born, storages, made, access, workers, videos, marks>>
requests == <<pc, op, cut, seen>>
vars == <<tables, requests>>

Levels  == {"r", "w", "a"}
Mark    == [watched : BOOLEAN, resume : Nat]
Row     == {<<"access", s>> : s \in Storages} \cup {<<"worker", w>> : w \in Workers}
Deleting == {"cutAccess", "cutWorkers", "cutUser"}
Places  == Deleting \cup {"idle", "find", "grant", "revoke", "own", "drop", "save", "mark", "clear"}
Op      == [caller : Users, target : Users, storage : Storages \cup {None}, level : Levels,
            video : Videos \cup {None}, mark : Mark]

TypeOK ==
  /\ users \subseteq born /\ born \subseteq Users
  /\ storages \subseteq made /\ made \subseteq Storages
  /\ access \in [Users -> [Storages -> Levels \cup {"none"}]]
  /\ workers \in [Workers -> [owner : Users, storage : Storages \cup {None}] \cup {None}]
  /\ videos \subseteq Videos
  /\ marks \in [Users -> [Videos -> Mark \cup {None}]]
  /\ pc \in [Requests -> Places] /\ op \in [Requests -> Op]
  /\ cut \in [Requests -> SUBSET Row] /\ seen \in [Requests -> SUBSET Row]

NoOp == [caller |-> Root, target |-> Root, storage |-> None, level |-> "r", video |-> None,
         mark |-> [watched |-> FALSE, resume |-> 0]]

\* CreateSuperuser has run.
Init ==
  /\ users = {Root} /\ born = {Root}
  /\ storages = {} /\ made = {}
  /\ access = [u \in Users |-> [s \in Storages |-> "none"]]
  /\ workers = [w \in Workers |-> None]
  /\ videos = {}
  /\ marks = [u \in Users |-> [v \in Videos |-> None]]
  /\ pc = [r \in Requests |-> "idle"]
  /\ op = [r \in Requests |-> NoOp]
  /\ cut = [r \in Requests |-> {}] /\ seen = [r \in Requests |-> {}]

----------------------------------------------------------------------------
(* HasAccess, and the rows of a user.                                      *)

Admin(u, s)   == access[u][s] = "a"
CanRead(u, s) == access[u][s] # "none"
Admins(s)     == {u \in Users : Admin(u, s)}

Owns(u, w) == workers[w] # None /\ workers[w].owner = u

\* The rows that refer to a user and do not go with it.
Dependents(u) ==
  {<<"access", s>> : s \in {s \in Storages : CanRead(u, s)}} \cup
  {<<"worker", w>> : w \in {w \in Workers : Owns(u, w)}}

\* A row deleted in an open transaction: writes to it wait.
Locked(u, row) ==
  \E r \in Requests : pc[r] \in Deleting /\ op[r].target = u /\ row \in cut[r]

Begins(r, place, o) ==
  /\ pc[r] = "idle"
  /\ pc' = [pc EXCEPT ![r] = place]
  /\ op' = [op EXCEPT ![r] = o]

Goes(r, from, to) ==
  /\ pc[r] = from
  /\ pc' = [pc EXCEPT ![r] = to]
  /\ op' = [op EXCEPT ![r] = IF to = "idle" THEN NoOp ELSE @]

----------------------------------------------------------------------------
(* Access.                                                                 *)

\* Grant: the caller is an administrator.
GrantAsked(r) ==
  /\ \E c \in born, s \in storages, u \in Users, l \in Granted :
       /\ Admin(c, s)
       /\ Begins(r, "find", [NoOp EXCEPT !.caller = c, !.storage = s, !.target = u, !.level = l])
  /\ UNCHANGED <<tables, cut, seen>>

\* Fault: nothing keeps a caller from changing its own access.
Found(o) == o.target \in users

\* The target's account is there and not the caller's own.
FoundOther(o) == o.target \in users /\ o.target # o.caller

GrantFinds(r) ==
  /\ Goes(r, "find", IF FoundOther(op[r]) THEN "grant" ELSE "idle")
  /\ UNCHANGED <<tables, cut, seen>>

\* A row of a user is new.
Adds(u, row) == seen' = [r \in Requests |-> IF op[r].target = u THEN seen[r] \ {row} ELSE seen[r]]

\* CreateOrUpdate: fails when the user or the storage has gone.
Upsert(o) ==
  IF o.target \in users /\ o.storage \in storages
  THEN /\ ~Locked(o.target, <<"access", o.storage>>)
       /\ access' = [access EXCEPT ![o.target][o.storage] = o.level]
       /\ Adds(o.target, <<"access", o.storage>>)
  ELSE UNCHANGED <<access, seen>>

GrantWrites(r) ==
  /\ Goes(r, "grant", "idle")
  /\ Upsert(op[r])
  /\ UNCHANGED <<users, born, storages, made, workers, videos, marks, cut>>

RevokeAsked(r) ==
  /\ \E c \in born, s \in storages, u \in Users :
       /\ Admin(c, s) /\ u # c
       /\ Begins(r, "revoke", [NoOp EXCEPT !.caller = c, !.storage = s, !.target = u])
  /\ UNCHANGED <<tables, cut, seen>>

RevokeWrites(r) ==
  /\ Goes(r, "revoke", "idle")
  /\ ~Locked(op[r].target, <<"access", op[r].storage>>)
  /\ access' = [access EXCEPT ![op[r].target][op[r].storage] = "none"]
  /\ UNCHANGED <<users, born, storages, made, workers, videos, marks, cut, seen>>

----------------------------------------------------------------------------
(* Storages.                                                               *)

\* Create: the row, unless the channel has a storage.
StorageCreated(r) ==
  /\ \E c \in born, s \in Storages \ made :
       /\ \A t \in storages : ChatOf[t] # ChatOf[s]
       /\ Begins(r, "own", [NoOp EXCEPT !.caller = c, !.target = c, !.storage = s, !.level = "a"])
       /\ storages' = storages \cup {s} /\ made' = made \cup {s}
  /\ UNCHANGED <<users, born, access, workers, videos, marks, cut, seen>>

\* Then the creator's right, in another statement, which may fail.
StorageOwned(r) ==
  /\ Goes(r, "own", "idle")
  /\ Upsert(op[r]) \/ UNCHANGED <<access, seen>>
  /\ UNCHANGED <<users, born, storages, made, workers, videos, marks, cut>>

\* Delete: the check; FileCatalog and its runs have the chunks.
DropAsked(r) ==
  /\ \E c \in born, s \in storages :
       Admin(c, s) /\ Begins(r, "drop", [NoOp EXCEPT !.caller = c, !.storage = s])
  /\ UNCHANGED <<tables, cut, seen>>

\* What goes with a storage: rights, files and their marks; its workers serve
\* every storage from then on.
StorageDropped(r) ==
  LET s == op[r].storage IN
  /\ Goes(r, "drop", "idle")
  /\ s \in storages
  /\ \A u \in Users :
       /\ ~Locked(u, <<"access", s>>)
       /\ \A w \in Workers : Owns(u, w) /\ workers[w].storage = s => ~Locked(u, <<"worker", w>>)
  /\ storages' = storages \ {s}
  /\ access' = [u \in Users |-> [access[u] EXCEPT ![s] = "none"]]
  /\ workers' = [w \in Workers |->
                   IF workers[w] # None /\ workers[w].storage = s
                   THEN [workers[w] EXCEPT !.storage = None] ELSE workers[w]]
  /\ videos' = {v \in videos : HomeOf[v] # s}
  /\ marks' = [u \in Users |-> [v \in Videos |-> IF HomeOf[v] = s THEN None ELSE marks[u][v]]]
  /\ UNCHANGED <<users, born, made, cut, seen>>

\* Telegram refuses, or the storage has gone.
DropFails(r) ==
  /\ Goes(r, "drop", "idle")
  /\ UNCHANGED <<tables, cut, seen>>

----------------------------------------------------------------------------
(* Users.                                                                  *)

\* Register and CreateManaged.
UserCreated(u) ==
  /\ u \notin born
  /\ users' = users \cup {u} /\ born' = born \cup {u}
  /\ UNCHANGED <<storages, made, access, workers, videos, marks, requests>>

\* DeleteManaged: the superuser, for somebody else.
UserDropAsked(r) ==
  /\ \E u \in users \ {Root} :
       /\ Begins(r, "cutAccess", [NoOp EXCEPT !.target = u])
       /\ seen' = [seen EXCEPT ![r] = Dependents(u)]
  /\ UNCHANGED <<tables, cut>>

\* Fault: the first delete is not part of the transaction.
CutAccessAlone(r) ==
  LET u == op[r].target IN
  /\ Goes(r, "cutAccess", "cutWorkers")
  /\ access' = [access EXCEPT ![u] = [s \in Storages |-> "none"]]
  /\ UNCHANGED <<users, born, storages, made, workers, videos, marks, cut, seen>>

RowsOf(u, table) == {row \in Dependents(u) : row[1] = table}

CutAccess(r) ==
  LET rows == RowsOf(op[r].target, "access") IN
  /\ Goes(r, "cutAccess", "cutWorkers")
  /\ \A row \in rows : ~Locked(op[r].target, row)
  /\ cut' = [cut EXCEPT ![r] = rows]
  /\ UNCHANGED <<tables, seen>>

\* Fault: the workers of the user are forgotten.
CutNoWorkers(r) ==
  /\ Goes(r, "cutWorkers", "cutUser")
  /\ UNCHANGED <<tables, cut, seen>>

CutWorkers(r) ==
  LET rows == RowsOf(op[r].target, "worker") IN
  /\ Goes(r, "cutWorkers", "cutUser")
  /\ \A row \in rows : ~Locked(op[r].target, row)
  /\ cut' = [cut EXCEPT ![r] = @ \cup rows]
  /\ UNCHANGED <<tables, seen>>

RolledBack(r, from) ==
  /\ Goes(r, from, "idle")
  /\ cut' = [cut EXCEPT ![r] = {}] /\ seen' = [seen EXCEPT ![r] = {}]
  /\ UNCHANGED tables

\* The user's row goes, with its marks, if nothing else refers to it.
UserDropped(r) ==
  LET u == op[r].target IN
  /\ Goes(r, "cutUser", "idle")
  /\ u \in users /\ Dependents(u) \subseteq cut[r]
  /\ users' = users \ {u}
  /\ access' = [access EXCEPT ![u] = [s \in Storages |-> "none"]]
  /\ workers' = [w \in Workers |-> IF Owns(u, w) THEN None ELSE workers[w]]
  /\ marks' = [marks EXCEPT ![u] = [v \in Videos |-> None]]
  /\ cut' = [cut EXCEPT ![r] = {}] /\ seen' = [seen EXCEPT ![r] = {}]
  /\ UNCHANGED <<born, storages, made, videos>>

\* A row refers to the user that the transaction did not delete.
UserDropRefused(r) ==
  /\ op[r].target \in users /\ ~(Dependents(op[r].target) \subseteq cut[r])
  /\ RolledBack(r, "cutUser")

\* The user had gone, or the transaction failed.
UserDropFails(r) ==
  \/ op[r].target \notin users /\ RolledBack(r, "cutUser")
  \/ \E place \in Deleting : RolledBack(r, place)

----------------------------------------------------------------------------
(* Workers: single statements, on rows of the caller.                      *)

Assignments == storages \cup {None}

WorkerCreated(w, c) ==
  /\ workers[w] = None /\ c \in users
  /\ \E s \in Assignments : workers' = [workers EXCEPT ![w] = [owner |-> c, storage |-> s]]
  /\ Adds(c, <<"worker", w>>)
  /\ UNCHANGED <<users, born, storages, made, access, videos, marks, pc, op, cut>>

WorkerChanged(w, c) ==
  /\ Owns(c, w) /\ ~Locked(c, <<"worker", w>>)
  /\ \/ \E s \in Assignments : workers' = [workers EXCEPT ![w] = [owner |-> c, storage |-> s]]
     \/ workers' = [workers EXCEPT ![w] = None]
  /\ UNCHANGED <<users, born, storages, made, access, videos, marks, requests>>

----------------------------------------------------------------------------
(* Watch marks.                                                            *)

\* Uploads and deletes of FileCatalog; marks go with their file.
VideoStored(v) ==
  /\ HomeOf[v] \in storages
  /\ videos' = videos \cup {v}
  /\ UNCHANGED <<users, born, storages, made, access, workers, marks, requests>>

VideoGone(v) ==
  /\ v \in videos /\ videos' = videos \ {v}
  /\ marks' = [u \in Users |-> [marks[u] EXCEPT ![v] = None]]
  /\ UNCHANGED <<users, born, storages, made, access, workers, requests>>

\* watchProgressAt: with less than a tenth left the video counts as watched; the
\* beginning and the credits leave nothing to resume.
MarkAt(v, second) ==
  LET p == IF second < Durations[v] THEN second ELSE Durations[v]
      over == 10 * p > 9 * Durations[v] IN
  [watched |-> over, resume |-> IF over \/ p < ResumeMin THEN 0 ELSE p]

\* readableFile.
MarkAsked(r, place, v, mark) ==
  /\ \E c \in born :
       /\ CanRead(c, HomeOf[v]) /\ v \in videos
       /\ Begins(r, place, [NoOp EXCEPT !.caller = c, !.video = v, !.mark = mark])
  /\ UNCHANGED <<tables, cut, seen>>

SaveAsked(r) == \E v \in Videos, second \in Seconds : MarkAsked(r, "save", v, MarkAt(v, second))
SetAsked(r)  == \E v \in Videos, w \in BOOLEAN :
                  MarkAsked(r, "mark", v, [watched |-> w, resume |-> 0])

Marked(o) == marks[o.caller][o.video]

\* Fault: what was saved last replaces what was there.
Replaced(o) == o.mark

\* Save: a finished video that is played again stays watched.
Merged(o) ==
  [o.mark EXCEPT !.watched = @ \/ (Marked(o) # None /\ Marked(o).watched)]

\* The row, unless its user or its file has gone.
MarkWritten(r, place, mark) ==
  LET o == op[r] IN
  /\ Goes(r, place, "idle")
  /\ IF o.caller \in users /\ o.video \in videos
     THEN marks' = [marks EXCEPT ![o.caller][o.video] = mark]
     ELSE UNCHANGED marks
  /\ UNCHANGED <<users, born, storages, made, access, workers, videos, cut, seen>>

Saved(r)     == MarkWritten(r, "save", Merged(op[r]))
SetByHand(r) == MarkWritten(r, "mark", op[r].mark)

Forgotten(c, vs) ==
  marks' = [marks EXCEPT ![c] = [v \in Videos |-> IF v \in vs THEN None ELSE @[v]]]

\* ClearAll.
ClearedAll(c) ==
  /\ c \in born /\ Forgotten(c, Videos)
  /\ UNCHANGED <<users, born, storages, made, access, workers, videos, requests>>

\* ClearFolder: any of the files of the storage are in the folder.
ClearAsked(r) ==
  /\ \E c \in born, s \in storages :
       CanRead(c, s) /\ Begins(r, "clear", [NoOp EXCEPT !.caller = c, !.storage = s])
  /\ UNCHANGED <<tables, cut, seen>>

Cleared(r) ==
  /\ \E folder \in SUBSET {v \in videos : HomeOf[v] = op[r].storage} :
       Forgotten(op[r].caller, folder)
  /\ Goes(r, "clear", "idle")
  /\ UNCHANGED <<users, born, storages, made, access, workers, videos, cut, seen>>

----------------------------------------------------------------------------

Next ==
  \/ \E r \in Requests :
       \/ GrantAsked(r) \/ GrantFinds(r) \/ GrantWrites(r) \/ RevokeAsked(r) \/ RevokeWrites(r)
       \/ StorageCreated(r) \/ StorageOwned(r)
       \/ DropAsked(r) \/ StorageDropped(r) \/ DropFails(r)
       \/ UserDropAsked(r) \/ CutAccess(r) \/ CutWorkers(r)
       \/ UserDropped(r) \/ UserDropRefused(r) \/ UserDropFails(r)
       \/ SaveAsked(r) \/ SetAsked(r) \/ Saved(r) \/ SetByHand(r)
       \/ ClearAsked(r) \/ Cleared(r)
  \/ \E u \in Users :
       \/ UserCreated(u) \/ ClearedAll(u)
       \/ \E w \in Workers : WorkerCreated(w, u) \/ WorkerChanged(w, u)
  \/ \E v \in Videos : VideoStored(v) \/ VideoGone(v)

Spec == Init /\ [][Next]_vars

----------------------------------------------------------------------------
(* Properties.                                                             *)

\* Every row refers to rows that are there (the foreign keys of startup.go).
RowsRefer ==
  /\ \A u \in Users, s \in Storages : CanRead(u, s) => u \in users /\ s \in storages
  /\ \A w \in Workers :
       workers[w] # None => workers[w].owner \in users /\ workers[w].storage \in storages \cup {None}
  /\ \A v \in videos : HomeOf[v] \in storages
  /\ \A u \in Users, v \in Videos : marks[u][v] # None => u \in users /\ v \in videos

\* A user loses a right only with the storage or the account, or because it is
\* revoked: a deletion of the account that fails has taken nothing away, however
\* far it got (DeleteManaged of repository/users.go).  The right is that to read:
\* Grant may lower a level, and no level is without it.
RightsAreKept ==
  [][\A u \in Users, s \in Storages :
       CanRead(u, s) /\ ~CanRead(u, s)' =>
         \/ s \notin storages' \/ u \notin users'
         \/ \E r \in Requests : RevokeWrites(r) /\ op[r].target = u]_vars

\* A storage loses its last administrator only with an account, or by one who
\* was an administrator when asking and is one no more: two who revoke each
\* other.  Nobody alone can leave a storage that way (ErrSelfAccess).
LastAdminStays ==
  [][\A s \in storages \cap storages' :
       Admins(s) # {} /\ Admins(s)' = {} =>
         \/ users' # users
         \/ \E r \in Requests : op[r].storage = s /\ op'[r] # op[r] /\ ~Admin(op[r].caller, s)]_vars

\* Deleting a user is refused only for a row that was added while it ran: no
\* table refers to users whose rows DeleteManaged or the schema forgets.
RefusedByRace ==
  [][\A r \in Requests :
       UserDropRefused(r) => ~(Dependents(op[r].target) \subseteq seen[r])]_vars

\* A video that was watched stays so, however it is played again, until its
\* user says otherwise (Save and SetWatched of repository/watch_progress.go).
WatchedStays ==
  [][\A u \in users \cap users', v \in videos \cap videos' :
       LET watched == marks[u][v] # None /\ marks[u][v].watched IN
       watched /\ ~watched' =>
         \/ ClearedAll(u)
         \/ \E r \in Requests : op[r].caller = u /\ (SetByHand(r) \/ Cleared(r))]_vars
=============================================================================
