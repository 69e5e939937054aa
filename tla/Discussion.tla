----------------------------- MODULE Discussion -----------------------------
(***************************************************************************)
(* The comment threads on the boards of Content.  Threads are anchored to  *)
(* the board or to something drawn on it, and go with the board.           *)
(*                                                                         *)
(* The requests call one SQL function each: it reads the thread or the     *)
(* comment, locks the workspace row, decides again who may take part, and  *)
(* writes.                                                                 *)
(***************************************************************************)
EXTENDS Content

CONSTANTS Threads, Comments, \* the ids that can be generated
          Gone               \* what was deleted: its id is not generated again

VARIABLES thread,  \* comment_threads
          comment  \* comments

threadRows == <<thread, comment>>
allVars == <<vars, threadRows>>

Anchors == {"board", "shape"}
Thread == [board: Boards, anchor: Anchors, author: Users, resolver: Users \cup {None},
           revision: 1..MaxRevision]
Comment == [thread: Threads, author: Users, removed: BOOLEAN, revision: 1..MaxRevision]

ASSUME DiscussionAssumption ==
  /\ None # Gone
  /\ None \notin Thread \cup Comment /\ Gone \notin Thread \cup Comment

BoardOf(t) == thread[t].board
Open(t) == thread[t] \notin {None, Gone}
Posted(m) == comment[m] \notin {None, Gone}
BoardOfComment(m) == BoardOf(comment[m].thread)

-----------------------------------------------------------------------------
(* Deleting a board's row takes its threads along, and these their         *)
(* comments.                                                               *)
Cascade ==
  LET lost == {t \in Threads : Open(t) /\ board'[BoardOf(t)].status = "gone"}
  IN  /\ thread' = [t \in Threads |-> IF t \in lost THEN Gone ELSE thread[t]]
      /\ comment' = [m \in Comments |-> IF Posted(m) /\ comment[m].thread \in lost
                                         THEN Gone ELSE comment[m]]

-----------------------------------------------------------------------------
(* Who may take part: decided on the board before the lock, and again      *)
(* under it, where the workspace must be editable too.  The entitlement is *)
(* shown to members only.                                                  *)
AccessEntitlement(w, u) == IsWorkspaceMember(w, u) /\ EntitlementEditable(w)
LockDiscussion(b, u) == BoardContentReadable(Rows(b), u) /\ AccessEntitlement(Rows(b), u)

Discuss(c, op, u, at, row, to) ==
  /\ AskChange(c, op, u, at, row, to) /\ UNCHANGED threadRows
Writing(c) == Answer(c) /\ UNCHANGED <<rows, reader, answers>>

-----------------------------------------------------------------------------
(* Whether the anchor is on the board is decided on the committed document *)
(* under the lock; a note or a page is there like a shape.                 *)
AnchorExists(anchor, b) == anchor = "board" \/ board[b].document = "drawn"

AskCreateThread(c, u, b, anchor) ==
  /\ BoardContentReadable(Rows(b), u)
  /\ Discuss(c, "thread.create", u, b, board[b], anchor)
CreateThread(c) ==
  LET r == req[c] IN
  /\ Asked(c, "thread.create") /\ LockDiscussion(r.at, r.user) /\ AnchorExists(r.to, r.at)
  /\ \E t \in Threads, m \in Comments :
       /\ thread[t] = None /\ comment[m] = None
       /\ thread' = [thread EXCEPT ![t] = [board |-> r.at, anchor |-> r.to, author |-> r.user,
                                           resolver |-> None, revision |-> 1]]
       /\ comment' = [comment EXCEPT ![m] = [thread |-> t, author |-> r.user,
                                             removed |-> FALSE, revision |-> 1]]
  /\ Writing(c)

AskOnThread(c, op, u, t, to) ==
  /\ Open(t) /\ BoardContentReadable(Rows(BoardOf(t)), u)
  /\ Discuss(c, op, u, t, thread[t], to)
AskReply(c, u, t) == AskOnThread(c, "comment.reply", u, t, None)
AskResolve(c, u, t) ==
  \E to \in {"open", "resolved"} : AskOnThread(c, "thread.resolve", u, t, to)

Reply(c) ==
  LET r == req[c] IN
  /\ Asked(c, "comment.reply") /\ Open(r.at) /\ LockDiscussion(BoardOf(r.at), r.user)
  /\ \E m \in Comments :
       /\ comment[m] = None
       /\ comment' = [comment EXCEPT ![m] = [thread |-> r.at, author |-> r.user,
                                             removed |-> FALSE, revision |-> 1]]
  /\ UNCHANGED thread /\ Writing(c)
(* The author of a thread and the owner resolve it and open it again.      *)
ResolveThread(c) ==
  LET r == req[c]
      row == thread[r.at] IN
  /\ Asked(c, "thread.resolve") /\ Open(r.at) /\ LockDiscussion(row.board, r.user)
  /\ r.user \in {row.author, Owner}
  /\ row.revision = r.seen.revision /\ row.revision < MaxRevision
  /\ thread' = [thread EXCEPT ![r.at] =
       [row EXCEPT !.revision = @ + 1, !.resolver = IF r.to = "resolved" THEN r.user ELSE None]]
  /\ UNCHANGED comment /\ Writing(c)

(* The author edits or removes a comment, and the owner removes it.        *)
AskEditComment(c, u, m, to) ==
  /\ Posted(m) /\ BoardContentReadable(Rows(BoardOfComment(m)), u)
  /\ Discuss(c, "comment.edit", u, m, comment[m], to)
Editable(row, r) == row.revision = r.seen.revision /\ ~ row.removed
EditComment(c) ==
  LET r == req[c]
      row == comment[r.at] IN
  /\ Asked(c, "comment.edit") /\ Posted(r.at) /\ LockDiscussion(BoardOf(row.thread), r.user)
  /\ r.user = row.author \/ (r.to = "removed" /\ r.user = Owner)
  /\ Editable(row, r) /\ row.revision < MaxRevision
  /\ comment' = [comment EXCEPT ![r.at] =
       [row EXCEPT !.revision = @ + 1, !.removed = r.to = "removed"]]
  /\ UNCHANGED thread /\ Writing(c)

-----------------------------------------------------------------------------
DiscussionInit == /\ Init
                  /\ thread = [t \in Threads |-> None]
                  /\ comment = [m \in Comments |-> None]

AskDiscussion(c, u) ==
  \/ \E b \in Boards, anchor \in Anchors : AskCreateThread(c, u, b, anchor)
  \/ \E t \in Threads :
       \/ AskReply(c, u, t)
       \/ AskResolve(c, u, t)
  \/ \E m \in Comments, to \in {"edited", "removed"} : AskEditComment(c, u, m, to)
DiscussionCommit(c) == CreateThread(c) \/ Reply(c) \/ ResolveThread(c) \/ EditComment(c)
DiscussionNext ==
  \/ Next /\ Cascade
  \/ \E c \in Requests :
       IF Idle(c) THEN \E u \in Users : AskDiscussion(c, u) ELSE DiscussionCommit(c)
DiscussionSpec == DiscussionInit /\ [][DiscussionNext]_allVars

-----------------------------------------------------------------------------
(* Properties.                                                             *)

(* RowsAgree, and threads are on boards that exist and comments in threads *)
(* that do, whoever deletes the board.                                     *)
AllRowsAgree ==
  /\ RowsAgree
  /\ \A t \in Threads : Open(t) => Exists(BoardOf(t))
  /\ \A m \in Comments : Posted(m) => Open(comment[m].thread)

OnBoard(r) == CASE r.op = "thread.create" -> r.at
                [] r.op \in {"comment.reply", "thread.resolve"} -> BoardOf(r.at)
                [] r.op = "comment.edit" -> BoardOfComment(r.at)
MayComment(b, u) == Found(Rows(b), "board", u) /\ Resolve(Load(Rows(b), "board", u)).canComment
Discussed(r) ==
  /\ MayComment(OnBoard(r), r.user)
  /\ r.op = "thread.resolve" => thread[r.at] = r.seen
  /\ r.op = "comment.edit" => comment[r.at] = r.seen /\ ~ comment[r.at].removed
(* A request changes rows only while its actor may, by the policy in Go    *)
(* and at the moment it commits, and only as its client has read them: no  *)
(* change that was made in between is lost, neither to a board, a project  *)
(* or the workspace nor to a thread or a comment; a comment that was       *)
(* removed is never written again.                                         *)
ChangesAreCurrent == [][\A c \in Requests : req[c] # None /\ req'[c] = None =>
  /\ rows' # rows => Permitted(req[c]) /\ AsSeen(req[c])
  /\ threadRows' # threadRows => Discussed(req[c])]_allVars
=============================================================================
