------------------------------ MODULE Content ------------------------------
(***************************************************************************)
(* The workspace's projects and boards, the requests that change them, the *)
(* keys that make creation idempotent, the worker that deletes a board's   *)
(* content and the cursor with which a client lists the boards.            *)
(*                                                                         *)
(* A request runs in one transaction at READ COMMITTED.  Its input and the *)
(* first access decision are checked without a lock (Ask...); then it      *)
(* takes the workspace row, repeats the check and writes.  Whatever others *)
(* commit in between, it finds under the lock.  Until it commits it may be *)
(* refused, cancelled or lost with the process: then nothing of it stays.  *)
(*                                                                         *)
(* Members, grants, the subscription, the purge of the workspace, imports  *)
(* and the drawing itself belong to others and happen at any time.         *)
(***************************************************************************)
EXTENDS Access, SequencesExt

CONSTANTS Users, Owner,
          Boards, Projects, Workspaces, \* the ids that can be generated
          Keys,                         \* Idempotency-Key headers
          Names,                        \* names, where they make requests differ
          Requests,                     \* requests in flight
          None,
          Seats,                        \* paid_seats
          Limit,                        \* rows of a page
          MaxAttempts,                  \* runs of a cleanup job (5 in the code)
          MaxRevision                   \* revisions of a row

ASSUME ContentAssumption ==
  /\ Owner \in Users
  /\ None \notin Users \cup Boards \cup Projects \cup Names
  /\ Seats \in Nat \ {0} /\ Limit \in Nat \ {0}
  /\ MaxAttempts \in Nat \ {0} /\ MaxRevision \in Nat \ {0}

VARIABLES
  env,      \* role, grants, standing and lifecycle: what Access reads
  renamed,  \* workspaces.revision
  created,  \* workspaces created by onboarding
  project,  \* the projects rows
  board,    \* the boards rows, with their documents
  job,      \* the board_deletion_jobs rows
  keys,     \* idempotency_records
  recent,   \* the boards by updated_at, the latest first
  reader,   \* a client that lists the boards, or None
  req,      \* what each request is about to do under the lock
  answers   \* history: the creations answered while their key is kept

rows == <<renamed, created, project, board, job, keys, recent>>
vars == <<env, rows, reader, req, answers>>

ProjectRow == [state: {"absent", "live", "deleted"}, revision: 1..MaxRevision]
BoardRow == [status: {"absent", "initializing", "active", "deleting", "gone"},
             project: Projects \cup {None}, creator: Users \cup {None},
             revision: 1..MaxRevision, document: {"none", "plain", "drawn"}]
Job == [status: {"none", "queued", "succeeded", "failed"}, attempts: 0..MaxAttempts]

Exists(b) == board[b].status \notin {"absent", "gone"}
NoBoard(status) == [status |-> status, project |-> None, creator |-> None,
                    revision |-> 1, document |-> "none"]

(* The rows an access decision reads, for the workspace and for a board.   *)
Rows(b) == [lifecycle |-> env.lifecycle, standing |-> env.standing, seats |-> Seats,
            role |-> env.role, board |-> board[b].status, guests |-> env.grants[b]]
Workspace == [lifecycle |-> env.lifecycle, standing |-> env.standing, seats |-> Seats,
              role |-> env.role, board |-> "absent", guests |-> {}]
MayEdit(u) == Require(Workspace, "workspace", u, "edit_content")

(* Mutant: access is not decided again under the lock.                     *)
LockUnchecked(u) == env.lifecycle = "ready"
LockWorkspace(u) == CanWriteWorkspace(Workspace, u)

-----------------------------------------------------------------------------
(* Requests.                                                               *)

Idle(c) == req[c] = None
Ask(c, r) == req' = [req EXCEPT ![c] = r] /\ UNCHANGED <<env, rows, reader, answers>>
Answer(c) == req' = [req EXCEPT ![c] = None] /\ UNCHANGED env
Asked(c, op) == req[c].op = op

(* Every refusal, and every failure of the process or of a dependency      *)
(* before the commit.                                                      *)
RollBack(c) == Answer(c) /\ UNCHANGED <<rows, reader, answers>>

(* A request to create carries a key, and what identifies its payload.     *)
Payload(op) ==
  IF op = "board.create"
    THEN [name: {None}, project: Projects \cup {None}, mode: {"empty", "import"}]
    ELSE [name: Names, project: {None}, mode: {"empty"}]
AskCreate(c, op, u) ==
  \E k \in Keys, p \in Payload(op) :
    Ask(c, [op |-> op, user |-> u, key |-> k, payload |-> p])

(* A request to change names the revision its client has read; seen is     *)
(* the row it was read from.                                               *)
AskChange(c, op, u, at, row, to) ==
  Ask(c, [op |-> op, user |-> u, at |-> at, seen |-> row, to |-> to])

-----------------------------------------------------------------------------
(* Idempotency keys.  The advisory lock of a key is held until the end of  *)
(* the transaction, so no two requests with one key are under way at once  *)
(* past Begin.                                                             *)

Of(r) == {k \in keys : k.op = r.op /\ k.user = r.user /\ k.key = r.key}
Replayed(r) == \E k \in Of(r) : k.payload = r.payload
Reference(r) == (CHOOSE k \in Of(r) : TRUE).id

Record(r, id) == [op |-> r.op, user |-> r.user, key |-> r.key,
                  payload |-> r.payload, id |-> id]
(* Mutant: the record is not completed with the resource.                  *)
CompleteNothing(r, id) == keys' = keys /\ answers' = answers \cup {Record(r, id)}
Complete(r, id) == /\ keys' = keys \cup {Record(r, id)}
                   /\ answers' = answers \cup {Record(r, id)}
Replay(c) == /\ answers' = answers \cup {Record(req[c], Reference(req[c]))}
             /\ Answer(c) /\ UNCHANGED <<rows, reader>>

(* A key is forgotten a day after its use.                                 *)
KeyExpires ==
  \E k \in keys :
    /\ \A c \in Requests : Idle(c)
    /\ keys' = keys \ {k}
    /\ answers' = {a \in answers : ~ (a.op = k.op /\ a.user = k.user /\ a.key = k.key)}
    /\ UNCHANGED <<env, renamed, created, project, board, job, recent, reader, req>>

-----------------------------------------------------------------------------
(* Workspaces.                                                             *)

(* The key is reserved without a workspace lock: a second request with it  *)
(* is told that the first is being processed.                              *)
Reserved(u, k) == \E c \in Requests :
  ~ Idle(c) /\ Asked(c, "workspace.create") /\ req[c].user = u /\ req[c].key = k
AskCreateWorkspace(c, u) ==
  /\ AskCreate(c, "workspace.create", u)
  /\ ~ Reserved(u, req'[c].key)
CreateWorkspace(c) ==
  /\ Asked(c, "workspace.create") /\ Of(req[c]) = {}
  /\ \E w \in Workspaces \ created :
       created' = created \cup {w} /\ Complete(req[c], w)
  /\ Answer(c) /\ UNCHANGED <<renamed, project, board, job, recent, reader>>
ReplayWorkspace(c) == Asked(c, "workspace.create") /\ Replayed(req[c]) /\ Replay(c)

AskRenameWorkspace(c, u) ==
  /\ Require(Workspace, "workspace", u, "rename_workspace")
  /\ AskChange(c, "workspace.rename", u, None, [revision |-> renamed], None)
RenameWorkspace(c) ==
  /\ Asked(c, "workspace.rename")
  /\ LockWorkspace(req[c].user) /\ req[c].user = Owner
  /\ renamed = req[c].seen.revision /\ renamed < MaxRevision
  /\ renamed' = renamed + 1
  /\ Answer(c) /\ UNCHANGED <<created, project, board, job, keys, recent, reader, answers>>

-----------------------------------------------------------------------------
(* Projects.                                                               *)

LockedProject(p) == project[p].state = "live"
CheckProject(p) == p # None => LockedProject(p)
OtherRows == UNCHANGED <<renamed, created, reader>>

AskCreateProject(c, u) == MayEdit(u) /\ AskCreate(c, "project.create", u)
CreateProject(c) ==
  /\ Asked(c, "project.create") /\ LockWorkspace(req[c].user) /\ Of(req[c]) = {}
  /\ \E p \in Projects :
       /\ project[p].state = "absent"
       /\ project' = [project EXCEPT ![p] = [state |-> "live", revision |-> 1]]
       /\ Complete(req[c], p)
  /\ Answer(c) /\ OtherRows /\ UNCHANGED <<board, job, recent>>
ReplayProject(c) ==
  /\ Asked(c, "project.create") /\ LockWorkspace(req[c].user) /\ Replayed(req[c])
  /\ LockedProject(Reference(req[c]))
  /\ Replay(c)

(* Deleted is read before the lock, with the project's workspace.          *)
ProjectScope(p, u) == LockedProject(p) /\ MayEdit(u)
AskRenameProject(c, u, p) ==
  ProjectScope(p, u) /\ AskChange(c, "project.rename", u, p, project[p], None)
AskDeleteProject(c, u, p) ==
  ProjectScope(p, u) /\ AskChange(c, "project.delete", u, p, project[p], None)

ProjectAt(r) == /\ LockWorkspace(r.user) /\ LockedProject(r.at)
                /\ project[r.at].revision = r.seen.revision
                /\ project[r.at].revision < MaxRevision
RenameProject(c) ==
  /\ Asked(c, "project.rename") /\ ProjectAt(req[c])
  /\ project' = [project EXCEPT ![req[c].at].revision = @ + 1]
  /\ Answer(c) /\ OtherRows /\ UNCHANGED <<board, job, keys, recent, answers>>

(* Mutant: a board that is being deleted does not keep its project.        *)
NoActiveBoards(p) == \A b \in Boards : board[b].project = p => board[b].status # "active"
NoBoards(p) == \A b \in Boards : Exists(b) => board[b].project # p
DeleteEmpty(c) ==
  /\ Asked(c, "project.delete") /\ ProjectAt(req[c]) /\ NoBoards(req[c].at)
  /\ project' = [project EXCEPT ![req[c].at] = [state |-> "deleted", revision |-> @.revision + 1]]
  /\ Answer(c) /\ OtherRows /\ UNCHANGED <<board, job, keys, recent, answers>>

-----------------------------------------------------------------------------
(* Boards.                                                                 *)

(* A row that is written moves to the front of the order; a board has one  *)
(* place in it.                                                            *)
Place(b) == CHOOSE i \in DOMAIN recent : recent[i] = b
Without(b) == IF b \in ToSet(recent) THEN RemoveAt(recent, Place(b)) ELSE recent
ToFront(b) == recent' = <<b>> \o Without(b)
(* What a page that was read earlier finds below its cursor: rows that     *)
(* were written since have left.                                           *)
Forget(b) == reader' = IF reader = None THEN None
                        ELSE [reader EXCEPT !.below = @ \ {b}, !.next = @ \ {b},
                                            !.steady = @ \ {b}]
Write(b, row) == /\ row.revision < MaxRevision
                 /\ board' = [board EXCEPT ![b] = [row EXCEPT !.revision = @ + 1]]
                 /\ ToFront(b) /\ Forget(b)

(* Metadata with what the actor may do; the document's version is read     *)
(* with it.                                                                *)
Get(b, u) == /\ Require(Rows(b), "board", u, "read_metadata")
             /\ Exists(b) /\ board[b].document # "none"

NewBoard(r) == [status   |-> IF r.payload.mode = "import" THEN "initializing" ELSE "active",
                project  |-> r.payload.project, creator |-> r.user,
                revision |-> 1, document |-> "plain"]
AskCreateBoard(c, u) == MayEdit(u) /\ AskCreate(c, "board.create", u)
CreateBoard(c) ==
  /\ Asked(c, "board.create") /\ LockWorkspace(req[c].user) /\ Of(req[c]) = {}
  /\ CheckProject(req[c].payload.project)
  /\ \E b \in Boards :
       /\ board[b].status = "absent"
       /\ board' = [board EXCEPT ![b] = NewBoard(req[c])]
       /\ ToFront(b) /\ Complete(req[c], b)
  /\ Answer(c) /\ OtherRows /\ UNCHANGED <<project, job>>
ReplayBoard(c) ==
  /\ Asked(c, "board.create") /\ LockWorkspace(req[c].user) /\ Replayed(req[c])
  /\ Get(Reference(req[c]), req[c].user)
  /\ Replay(c)

LockedBoard(r) == /\ Exists(r.at) /\ board[r.at].revision = r.seen.revision
                  /\ board[r.at].status \in {"active", "initializing"}

(* A patch may move the board to a project, out of it, or leave it there.  *)
AskUpdateBoard(c, u, b) ==
  /\ Require(Rows(b), "board", u, "edit_content")
  /\ \E p \in Projects \cup {None} : AskChange(c, "board.update", u, b, board[b], p)
UpdateBoard(c) ==
  LET r == req[c] IN
  /\ Asked(c, "board.update") /\ LockWorkspace(r.user)
  /\ CheckProject(r.to)
  /\ LockedBoard(r) /\ board[r.at].status = "active"
  /\ Write(r.at, [board[r.at] EXCEPT !.project = r.to])
  /\ Answer(c) /\ UNCHANGED <<renamed, created, project, job, keys, answers>>

(* A board that has a job already is answered with it.                     *)
MayDelete(b, u) == /\ job[b].status = "none"
                   /\ Require(Rows(b), "board", u, "read_metadata") /\ MayEdit(u)
AskDeleteBoard(c, u, b) ==
  MayDelete(b, u) /\ AskChange(c, "board.delete", u, b, board[b], None)
Enqueue(b) == job' = [job EXCEPT ![b].status = IF @ = "none" THEN "queued" ELSE @]
DeleteBoard(c) ==
  LET r == req[c] IN
  /\ Asked(c, "board.delete") /\ LockWorkspace(r.user)
  /\ job[r.at].status = "none"
  /\ LockedBoard(r)
  /\ Write(r.at, [board[r.at] EXCEPT !.status = "deleting"]) /\ Enqueue(r.at)
  /\ Answer(c) /\ UNCHANGED <<renamed, created, project, keys, answers>>
(* The job of a repeated deletion is returned as it is.                    *)
DeletedAlready(c) ==
  /\ Asked(c, "board.delete") /\ LockWorkspace(req[c].user) /\ job[req[c].at].status # "none"
  /\ Answer(c) /\ UNCHANGED <<rows, reader, answers>>

(* Deleting a board's row takes its document along.                        *)
Drop(b) == /\ board' = [board EXCEPT ![b] = NoBoard("gone")]
           /\ recent' = Without(b) /\ Forget(b)

(* One run of the worker.  It locks the job, then the workspace; what it   *)
(* does is undone when it fails, and only the attempt is counted.          *)
Attempted(b) == job[b].attempts + 1
CleanUp(b) ==
  /\ job[b].status = "queued"
  /\ Exists(b) => board[b].status = "deleting"
  /\ IF Exists(b) THEN Drop(b) ELSE UNCHANGED <<board, recent, reader>>
  /\ job' = [job EXCEPT ![b] = [status |-> "succeeded", attempts |-> Attempted(b)]]
  /\ UNCHANGED <<env, renamed, created, project, keys, req, answers>>
CleanUpFails(b) ==
  /\ job[b].status = "queued"
  /\ job' = [job EXCEPT ![b] = [attempts |-> Attempted(b),
                                status   |-> IF Attempted(b) >= MaxAttempts THEN "failed"
                                                                             ELSE "queued"]]
  /\ UNCHANGED <<env, renamed, created, project, board, keys, recent, reader, req, answers>>

(* The worker of the transfers fills a board that is being created.        *)
ImportCompletes(b) ==
  /\ board[b].status = "initializing" /\ LockWorkspace(board[b].creator)
  /\ Write(b, [board[b] EXCEPT !.status = "active", !.document = "drawn"])
  /\ UNCHANGED <<env, renamed, created, project, job, keys, req, answers>>

(* Editors draw, and erase what they drew; metadata stays.                 *)
Draw(b) ==
  /\ board[b].status = "active" /\ Editors(env.role) # {} /\ EntitlementEditable(Workspace)
  /\ board' = [board EXCEPT ![b].document = IF @ = "plain" THEN "drawn" ELSE "plain"]
  /\ UNCHANGED <<env, renamed, created, project, job, keys, recent, reader, req, answers>>

-----------------------------------------------------------------------------
(* Listing.  A page is read with one row of lookahead; the cursor is the   *)
(* position of its last row.  Then every active board of the page is read  *)
(* again on its own.                                                       *)

Filtered(filter) == {b \in ToSet(recent) : filter = "all" \/ board[b].project = filter}
Above(b, S) == {a \in S : Place(a) < Place(b)}
First(S, n) == {b \in S : Cardinality(Above(b, S)) < n}
Active(S) == {b \in S : board[b].status = "active"}
(* Mutant: the cursor is the position of the row of lookahead.             *)
PageQueryPast(S) == [page |-> Active(First(S, Limit)), next |-> S \ First(S, Limit + 1)]
PageQuery(S) == [page |-> Active(First(S, Limit)), next |-> S \ First(S, Limit)]

Reading == UNCHANGED <<env, rows, req, answers>>
MayList(u) == Require(Workspace, "workspace", u, "read_content")
ListBoards(u, filter) ==
  LET S == Filtered(filter) IN
  /\ reader = None /\ MayList(u) /\ Cardinality(S) > Limit
  /\ reader' = [user |-> u, filter |-> filter, page |-> PageQuery(S).page,
                next |-> PageQuery(S).next, below |-> S, listed |-> {},
                steady |-> Active(S), state |-> "read"]
  /\ Reading
NextPage ==
  /\ reader # None /\ reader.state = "served" /\ MayList(reader.user)
  /\ LET q == PageQuery(Filtered(reader.filter) \cap reader.below)
     IN  reader' = [reader EXCEPT !.page = q.page, !.next = q.next, !.state = "read"]
  /\ Reading
ServePage ==
  /\ reader # None /\ reader.state = "read"
  /\ \A b \in reader.page : Get(b, reader.user)
  /\ reader' = [reader EXCEPT !.listed = @ \cup reader.page, !.below = reader.next,
                              !.page = {}, !.next = {},
                              !.state = IF reader.next = {} THEN "ended" ELSE "served"]
  /\ Reading
(* A board that can no longer be read fails the page, and the client asks  *)
(* for it again.                                                           *)
PageFails ==
  /\ reader # None /\ reader.state = "read"
  /\ \E b \in reader.page : ~ Get(b, reader.user)
  /\ reader' = [reader EXCEPT !.page = {}, !.next = {}, !.state = "served"]
  /\ Reading
LeaveList == reader # None /\ reader' = None /\ Reading

-----------------------------------------------------------------------------
(* What belongs to others.                                                 *)

Elsewhere == UNCHANGED <<rows, reader, req, answers>>
RoleChanges == \E u \in Users \ {Owner}, r \in {"editor", "viewer", "none"} :
  env.role[u] # r /\ env' = [env EXCEPT !.role[u] = r] /\ Elsewhere
GrantChanges == \E u \in Users, b \in Boards :
  /\ Exists(b) /\ env.role[u] = "none"
  /\ env' = [env EXCEPT !.grants[b] = IF u \in @ THEN @ \ {u} ELSE @ \cup {u}]
  /\ Elsewhere
SubscriptionChanges == \E s \in {"current", "retained", "lapsed"} :
  /\ env.lifecycle = "ready" /\ env.standing # s
  /\ env' = [env EXCEPT !.standing = s] /\ Elsewhere
PurgeStarts ==
  /\ env.lifecycle = "ready" /\ env.standing = "lapsed"
  /\ env' = [env EXCEPT !.lifecycle = "purging"] /\ Elsewhere
(* The purge drops the boards one by one, and then what is left.           *)
PurgeBoard(b) ==
  /\ env.lifecycle = "purging" /\ Exists(b) /\ Drop(b)
  /\ UNCHANGED <<env, renamed, created, project, job, keys, req, answers>>
PurgeEnds ==
  /\ env.lifecycle = "purging" /\ \A b \in Boards : ~ Exists(b)
  /\ env' = [env EXCEPT !.lifecycle = "deleted"]
  /\ project' = [p \in Projects |-> IF LockedProject(p) THEN [project[p] EXCEPT !.state = "deleted"]
                                                          ELSE project[p]]
  /\ UNCHANGED <<renamed, created, board, job, keys, recent, reader, req, answers>>

-----------------------------------------------------------------------------
Init ==
  /\ env = [role |-> [u \in Users |-> IF u = Owner THEN "owner" ELSE "none"],
            grants |-> [b \in Boards |-> {}], standing |-> "current", lifecycle |-> "ready"]
  /\ renamed = 1 /\ created = {} /\ keys = {} /\ recent = <<>>
  /\ project = [p \in Projects |-> [state |-> "absent", revision |-> 1]]
  /\ board = [b \in Boards |-> NoBoard("absent")]
  /\ job = [b \in Boards |-> [status |-> "none", attempts |-> 0]]
  /\ reader = None /\ req = [c \in Requests |-> None] /\ answers = {}

AskAny(c, u) ==
  \/ AskCreateWorkspace(c, u) \/ AskRenameWorkspace(c, u)
  \/ AskCreateProject(c, u) \/ AskCreateBoard(c, u)
  \/ \E p \in Projects : AskRenameProject(c, u, p) \/ AskDeleteProject(c, u, p)
  \/ \E b \in Boards : AskUpdateBoard(c, u, b) \/ AskDeleteBoard(c, u, b)
Commit(c) ==
  \/ CreateWorkspace(c) \/ ReplayWorkspace(c) \/ RenameWorkspace(c)
  \/ CreateProject(c) \/ ReplayProject(c) \/ RenameProject(c) \/ DeleteEmpty(c)
  \/ CreateBoard(c) \/ ReplayBoard(c) \/ UpdateBoard(c) \/ DeleteBoard(c) \/ DeletedAlready(c)
Client == \E c \in Requests :
  IF Idle(c) THEN \E u \in Users : AskAny(c, u) ELSE Commit(c) \/ RollBack(c)
Lists ==
  \/ \E u \in Users, filter \in {"all", None} \cup Projects : ListBoards(u, filter)
  \/ NextPage \/ ServePage \/ PageFails \/ LeaveList
Workers == \E b \in Boards :
  CleanUp(b) \/ CleanUpFails(b) \/ ImportCompletes(b) \/ Draw(b) \/ PurgeBoard(b)
Others == RoleChanges \/ GrantChanges \/ SubscriptionChanges \/ PurgeStarts \/ PurgeEnds \/ KeyExpires

Next == Client \/ Lists \/ Workers \/ Others
Spec == Init /\ [][Next]_vars

-----------------------------------------------------------------------------
(* Properties.                                                             *)

(* A key means one payload and one resource: a creation that is asked      *)
(* again, at once or after its answer was lost, by two requests or after a *)
(* crash, is answered with what the first one created.                     *)
RetriesAgree == \A a, b \in answers :
  (a.op = b.op /\ a.user = b.user /\ a.key = b.key) => a = b

(* The rows agree with each other between any two transactions: a board    *)
(* has its document exactly as long as it exists; a board that is being    *)
(* deleted has a job, and a job that succeeded has left nothing; boards    *)
(* are only in projects that are not deleted, also while they are being    *)
(* deleted themselves; the order holds the boards that exist.              *)
RowsAgree ==
  /\ \A b \in Boards :
       /\ Exists(b) <=> board[b].document # "none"
       /\ board[b].status = "deleting" => job[b].status \in {"queued", "failed"}
       /\ job[b].status = "succeeded" => board[b].status = "gone"
       /\ board[b].project # None => project[board[b].project].state = "live"
  /\ ToSet(recent) = {b \in Boards : Exists(b)} /\ IsInjective(recent)

(* What a request may do to rows: change them only while its actor may, by *)
(* the policy in Go, and only the row its client has read: whatever        *)
(* happened to that row since, except in the document, has changed the     *)
(* revision.                                                               *)
Metadata(row) == [row EXCEPT !.document = "plain"]
AsSeen(r) ==
  CASE r.op = "workspace.rename" -> renamed = r.seen.revision
    [] r.op \in {"project.rename", "project.delete"} -> project[r.at] = r.seen
    [] r.op \in {"board.update", "board.delete"} -> Metadata(board[r.at]) = Metadata(r.seen)
    [] OTHER -> TRUE
Permitted(r) == r.op = "workspace.create" \/ MayEdit(r.user)

(* A client that follows the cursor to the end sees every board that was   *)
(* active and has not been written since it began, and sees it once,       *)
(* whatever moves, appears or disappears around it in the meantime.        *)
TraversalComplete == reader # None =>
  /\ reader.steady \subseteq reader.listed \cup reader.below
  /\ reader.steady \cap reader.listed \cap reader.below = {}
=============================================================================
