---------------------------- MODULE CollabServer ----------------------------
(***************************************************************************)
(* Cloud collaboration on one board: the WebSocket server                  *)
(* (internal/collaboration/inbound/ws), the transactional service behind   *)
(* it (app/collaboration/service) and the single-runtime authority         *)
(* (app/collaboration/infra/db).                                           *)
(*                                                                         *)
(* Every socket has a reader goroutine, whose place in the code is pc[p],  *)
(* and a maintenance goroutine that may stop it.  The reader holds the     *)
(* room's mutex (rm.mu) in the Holding states, and the authority's mutex   *)
(* around a database transaction in the InTransaction states.  Both        *)
(* mutexes are derived from pc, so that their exclusion is a property and  *)
(* not an assumption.  A frame's authorization check and the work behind   *)
(* it are separate steps: permissions, connections and the authority may   *)
(* change in between.                                                      *)
(***************************************************************************)
EXTENDS Naturals, FiniteSets

CONSTANTS
  Peers,           \* clients, each with one socket at a time
  Updates,         \* indivisible CRDT changes
  Rooms,           \* identities of room objects in memory
  MaxConnections,  \* Config.MaxConnections
  MaxPeers,        \* Config.MaxPeers
  None             \* the nil pointer

ASSUME NoneAssumption == None \notin Peers /\ None \notin Rooms
ASSUME LimitAssumption == MaxConnections \in Nat \ {0} /\ MaxPeers \in Nat \ {0}

VARIABLES
  row,        \* the board_documents row: revision and merged changes
  perm,       \* perm[p]: what access policy now grants p's user
  authority,  \* whether this process still holds the advisory lock
  closed,     \* Server.closed
  current,    \* Server.rooms[board]
  rooms,      \* rooms[r]: document, failed flag; history: what skipped fan-outs missed
  roomOf,     \* peer.room; room.peers is its inverse
  pc,         \* where p's reader goroutine is
  stage,      \* anonymous, authenticated (peer.token) or ready (peer.ready)
  stopped,    \* peer.done is closed
  loaded,     \* the document p's last transaction read
  frame,      \* the changes in the update frame p is handling
  todo,       \* recipients p's fan-out has not reached
  recipient,  \* the recipient p has reauthorized and not yet written to
  acked,      \* history: changes p was ever told are saved
  known,      \* history: changes p's present session sent or was sent
  synced,     \* history: p's present session got a full Step2 answer
  visible     \* history: the newest content p was allowed to read

dbVars == <<row, perm, authority>>
roomVars == <<current, rooms>>
applyVars == <<frame, todo, recipient>>
historyVars == <<acked, known, synced, visible>>
vars == <<row, perm, authority, closed, current, rooms, roomOf, pc, stage, stopped,
          loaded, frame, todo, recipient, acked, known, synced, visible>>

Documents == [rev : Nat, state : SUBSET Updates]
EmptyDocument == [rev |-> 1, state |-> {}]
RoomStates == [doc : Documents, failed : BOOLEAN, missed : [Peers -> SUBSET Updates]]
EmptyRoom == [doc |-> EmptyDocument, failed |-> FALSE, missed |-> [p \in Peers |-> {}]]
Permissions == {"none", "read", "edit"}
Stages == {"anonymous", "authenticated", "ready"}

InTransaction == {"validated", "locked"}
Holding == InTransaction \cup {"committed", "fanout", "sending"}
Places == Holding \cup {"gone", "reading", "loaded", "joined", "diff", "save", "update", "closing"}

Members(r) == {p \in Peers : roomOf[p] = r}
Connected == {p \in Peers : pc[p] # "gone"}

(* rm.mu of room r is held by somebody.                                    *)
RoomLocked(r) == \E p \in Peers : roomOf[p] = r /\ pc[p] \in Holding

(* Authority.mu is held across a transaction of several steps.             *)
AuthorityBusy == \E p \in Peers : pc[p] \in InTransaction

(* A content transaction holds the workspace row FOR UPDATE; losing the    *)
(* pinned connection releases it.                                          *)
WorkspaceLocked == authority /\ \E p \in Peers : pc[p] = "locked"

(* backend.Check and backend.Load: a transaction that requires ReadContent.*)
Readable(p) == authority /\ ~ AuthorityBusy /\ perm[p] # "none"

-----------------------------------------------------------------------------
Init ==
  /\ row = EmptyDocument
  /\ perm = [p \in Peers |-> "edit"]
  /\ authority = TRUE
  /\ closed = FALSE
  /\ current = None
  /\ rooms = [r \in Rooms |-> EmptyRoom]
  /\ roomOf = [p \in Peers |-> None]
  /\ pc = [p \in Peers |-> "gone"]
  /\ stage = [p \in Peers |-> "anonymous"]
  /\ stopped = [p \in Peers |-> FALSE]
  /\ loaded = [p \in Peers |-> EmptyDocument]
  /\ frame = [p \in Peers |-> {}]
  /\ todo = [p \in Peers |-> {}]
  /\ recipient = [p \in Peers |-> None]
  /\ acked = [p \in Peers |-> {}]
  /\ known = [p \in Peers |-> {}]
  /\ synced = [p \in Peers |-> FALSE]
  /\ visible = [p \in Peers |-> {}]

Goto(p, place) == pc' = [pc EXCEPT ![p] = place]

(* handle returned an error: session-error, stop, and the deferred leave.  *)
Fail(p) ==
  /\ Goto(p, "closing")
  /\ stopped' = [stopped EXCEPT ![p] = TRUE]

(* Mutant: abort marks the room and stops nobody but the caller.           *)
AbortCallerOnly(p, r) ==
  /\ Goto(p, "closing")
  /\ rooms' = [rooms EXCEPT ![r].failed = TRUE]
  /\ stopped' = [stopped EXCEPT ![p] = TRUE]

(* room.abort stops every peer of the room; the caller's handler fails.    *)
AbortAndFail(p, r) ==
  /\ Goto(p, "closing")
  /\ rooms' = [rooms EXCEPT ![r].failed = TRUE]
  /\ stopped' = [q \in Peers |-> stopped[q] \/ q = p \/ roomOf[q] = r]

(* What each user could have read, once the row or the permissions change. *)
Witnessed(newRow, newPerm) ==
  [p \in Peers |-> IF newPerm[p] = "none" THEN visible[p] ELSE newRow.state]

-----------------------------------------------------------------------------
(* Opening a session.                                                      *)

(* serve admits a socket unless the server is closed or full.              *)
Connect(p) ==
  /\ pc[p] = "gone"
  /\ ~ closed
  /\ Cardinality(Connected) < MaxConnections
  /\ Goto(p, "reading")
  /\ stage' = [stage EXCEPT ![p] = "anonymous"]
  /\ stopped' = [stopped EXCEPT ![p] = FALSE]
  /\ known' = [known EXCEPT ![p] = {}]
  /\ synced' = [synced EXCEPT ![p] = FALSE]
  /\ UNCHANGED <<dbVars, closed, roomVars, roomOf, loaded, applyVars, acked, visible>>

(* authenticate stores the token once the board is readable with it.       *)
Authenticate(p) ==
  /\ pc[p] = "reading" /\ ~ stopped[p]
  /\ stage[p] = "anonymous"
  /\ Readable(p)
  /\ stage' = [stage EXCEPT ![p] = "authenticated"]
  /\ UNCHANGED <<dbVars, closed, roomVars, roomOf, pc, stopped, loaded, applyVars, historyVars>>

(* client-hello loads the document, holding no lock.                       *)
Hello(p) ==
  /\ pc[p] = "reading" /\ ~ stopped[p]
  /\ stage[p] = "authenticated" /\ roomOf[p] = None
  /\ Readable(p)
  /\ loaded' = [loaded EXCEPT ![p] = row]
  /\ Goto(p, "loaded")
  /\ UNCHANGED <<dbVars, closed, roomVars, roomOf, stage, stopped, applyVars, historyVars>>

(* join, under Server.mu and rm.mu: the first peer's document becomes the  *)
(* room's; a room older than what p loaded is aborted.                     *)
JoinNew(p) ==
  /\ pc[p] = "loaded" /\ ~ closed
  /\ current = None
  /\ \E r \in {x \in Rooms : Members(x) = {}} :
       /\ current' = r
       /\ rooms' = [rooms EXCEPT ![r] = [EmptyRoom EXCEPT !.doc = loaded[p]]]
       /\ roomOf' = [roomOf EXCEPT ![p] = r]
  /\ Goto(p, "joined")
  /\ UNCHANGED <<dbVars, closed, stage, stopped, loaded, applyVars, historyVars>>

(* Mutant: join compares no revisions.                                     *)
JoinWithoutRevision(p) ==
  /\ pc[p] = "loaded" /\ ~ closed
  /\ current # None
  /\ ~ RoomLocked(current)
  /\ ~ rooms[current].failed /\ Cardinality(Members(current)) < MaxPeers
  /\ roomOf' = [roomOf EXCEPT ![p] = current]
  /\ Goto(p, "joined")
  /\ UNCHANGED <<dbVars, closed, roomVars, stage, stopped, loaded, applyVars, historyVars>>

JoinExisting(p) ==
  /\ pc[p] = "loaded" /\ ~ closed
  /\ current # None
  /\ ~ RoomLocked(current)
  /\ ~ rooms[current].failed /\ Cardinality(Members(current)) < MaxPeers
  /\ ~ (rooms[current].doc.rev < loaded[p].rev)
  /\ roomOf' = [roomOf EXCEPT ![p] = current]
  /\ Goto(p, "joined")
  /\ UNCHANGED <<dbVars, closed, roomVars, stage, stopped, loaded, applyVars, historyVars>>

JoinStale(p) ==
  /\ pc[p] = "loaded" /\ ~ closed
  /\ current # None
  /\ ~ RoomLocked(current)
  /\ ~ rooms[current].failed /\ Cardinality(Members(current)) < MaxPeers
  /\ rooms[current].doc.rev < loaded[p].rev
  /\ AbortAndFail(p, current)
  /\ UNCHANGED <<dbVars, closed, current, roomOf, stage, loaded, applyVars, historyVars>>

JoinRefused(p) ==
  /\ pc[p] = "loaded"
  /\ \/ closed
     \/ /\ current # None /\ ~ RoomLocked(current)
        /\ rooms[current].failed \/ Cardinality(Members(current)) >= MaxPeers
  /\ Fail(p)
  /\ UNCHANGED <<dbVars, closed, roomVars, roomOf, stage, loaded, applyVars, historyVars>>

(* Under rm.mu again: refuse a failed room, write session-ready, be ready, *)
(* and write the other peers' presence, which may fail with p ready.       *)
Ready(p) ==
  /\ pc[p] = "joined"
  /\ ~ RoomLocked(roomOf[p])
  /\ \/ /\ ~ rooms[roomOf[p]].failed /\ ~ stopped[p]
        /\ stage' = [stage EXCEPT ![p] = "ready"]
        /\ Fail(p) \/ (Goto(p, "reading") /\ UNCHANGED stopped)
     \/ /\ Fail(p)
        /\ UNCHANGED stage
  /\ UNCHANGED <<dbVars, closed, roomVars, roomOf, loaded, applyVars, historyVars>>

-----------------------------------------------------------------------------
(* Serving a ready session.  The frame is read and checked first; the work *)
(* needs rm.mu and comes later.                                            *)

Request(p, place, U) ==
  /\ pc[p] = "reading" /\ ~ stopped[p]
  /\ stage[p] = "ready"
  /\ Readable(p)
  /\ Goto(p, place)
  /\ frame' = [frame EXCEPT ![p] = U]
  /\ UNCHANGED <<dbVars, closed, roomVars, roomOf, stage, stopped, loaded, todo, recipient, historyVars>>

(* Step1: the difference to the room's document; the client is then whole. *)
AnswerStep1(p) ==
  /\ pc[p] = "diff"
  /\ ~ RoomLocked(roomOf[p])
  /\ \/ /\ ~ rooms[roomOf[p]].failed /\ ~ stopped[p]
        /\ known' = [known EXCEPT ![p] = @ \cup rooms[roomOf[p]].doc.state]
        /\ synced' = [synced EXCEPT ![p] = TRUE]
        /\ Goto(p, "reading")
        /\ UNCHANGED stopped
     \/ /\ Fail(p)
        /\ UNCHANGED <<known, synced>>
  /\ UNCHANGED <<dbVars, closed, roomVars, roomOf, stage, loaded, applyVars, acked, visible>>

(* save-checkpoint: `saved' covers whatever this session holds.            *)
AnswerCheckpoint(p) ==
  /\ pc[p] = "save"
  /\ ~ RoomLocked(roomOf[p])
  /\ \/ /\ ~ rooms[roomOf[p]].failed /\ ~ stopped[p]
        /\ acked' = [acked EXCEPT ![p] = @ \cup known[p]]
        /\ Goto(p, "reading")
        /\ UNCHANGED stopped
     \/ /\ Fail(p)
        /\ UNCHANGED acked
  /\ UNCHANGED <<dbVars, closed, roomVars, roomOf, stage, loaded, applyVars, known, synced, visible>>

-----------------------------------------------------------------------------
(* An update, from here to Acknowledge under rm.mu.  Service.Apply is one  *)
(* transaction in three steps: read and validate, lock, write and commit.  *)

(* An error other than ErrRejected is fatal to the room.                   *)
ApplyFails(p) ==
  /\ AbortAndFail(p, roomOf[p])
  /\ UNCHANGED <<closed, current, roomOf, stage, loaded, applyVars, historyVars>>

(* ErrRejected is fatal only to the sender's session.                      *)
ApplyRejects(p) ==
  /\ Fail(p)
  /\ UNCHANGED <<closed, roomVars, roomOf, stage, loaded, applyVars, historyVars>>

(* Require ReadContent, Load, compare revisions, merge in isolation.       *)
ReadTransaction(p) ==
  /\ pc[p] = "update"
  /\ ~ RoomLocked(roomOf[p]) /\ ~ AuthorityBusy
  /\ UNCHANGED dbVars
  /\ \/ /\ rooms[roomOf[p]].failed
        /\ ApplyRejects(p)
     \/ /\ ~ rooms[roomOf[p]].failed
        /\ ApplyFails(p)  \* a conflict, lost access, or a database error
     \/ /\ ~ rooms[roomOf[p]].failed
        /\ Readable(p) /\ row.rev = rooms[roomOf[p]].doc.rev
        /\ \/ ApplyRejects(p)  \* an invalid update, or no CanEditContent
           \/ /\ frame[p] \subseteq row.state
              /\ rooms' = [rooms EXCEPT ![roomOf[p]].doc = row]
              /\ Goto(p, "fanout")
              /\ UNCHANGED <<closed, current, roomOf, stage, stopped, loaded, applyVars, historyVars>>
           \/ /\ ~ (frame[p] \subseteq row.state) /\ perm[p] = "edit"
              /\ loaded' = [loaded EXCEPT ![p] = row]
              /\ Goto(p, "validated")
              /\ UNCHANGED <<closed, roomVars, roomOf, stage, stopped, applyVars, historyVars>>

(* Mutant: the permission read before the lock is trusted after it.        *)
LockWithoutRequire(p) ==
  /\ pc[p] = "validated"
  /\ authority
  /\ Goto(p, "locked")
  /\ UNCHANGED <<dbVars, closed, roomVars, roomOf, stage, stopped, loaded, applyVars, historyVars>>

(* LockWorkspace, then Require EditContent again and the premium check.    *)
LockTransaction(p) ==
  /\ pc[p] = "validated"
  /\ UNCHANGED dbVars
  /\ \/ /\ authority /\ perm[p] = "edit"
        /\ \/ /\ Goto(p, "locked")
              /\ UNCHANGED <<closed, roomVars, roomOf, stage, stopped, loaded, applyVars, historyVars>>
           \/ ApplyRejects(p)
     \/ ApplyFails(p)

Candidate(p) == [rev |-> loaded[p].rev + 1, state |-> loaded[p].state \cup frame[p]]

(* Mutant: Save without WHERE revision=?, retried on another connection.   *)
CommitUnfenced(p) ==
  /\ pc[p] = "locked"
  /\ row' = Candidate(p)
  /\ visible' = Witnessed(row', perm)
  /\ rooms' = [rooms EXCEPT ![roomOf[p]].doc = Candidate(p)]
  /\ Goto(p, "committed")
  /\ UNCHANGED <<perm, authority, closed, current, roomOf, stage, stopped, loaded, applyVars,
                 acked, known, synced>>

(* Save by compare-and-swap and COMMIT, confirmed by PostgreSQL.           *)
CommitTransaction(p) ==
  /\ pc[p] = "locked"
  /\ authority /\ row.rev = loaded[p].rev
  /\ row' = Candidate(p)
  /\ visible' = Witnessed(row', perm)
  /\ rooms' = [rooms EXCEPT ![roomOf[p]].doc = Candidate(p)]
  /\ Goto(p, "committed")
  /\ UNCHANGED <<perm, authority, closed, current, roomOf, stage, stopped, loaded, applyVars,
                 acked, known, synced>>

(* Mutant: the candidate of a failed transaction is published.             *)
CommitFailurePublished(p) ==
  /\ pc[p] = "locked"
  /\ rooms' = [rooms EXCEPT ![roomOf[p]].doc = Candidate(p)]
  /\ Goto(p, "committed")
  /\ UNCHANGED <<dbVars, closed, current, roomOf, stage, stopped, loaded, applyVars, historyVars>>

(* The transaction reports an error: it rolled back, or it committed and   *)
(* only the response was lost.  Either way no candidate is published.      *)
CommitFails(p) ==
  /\ pc[p] = "locked"
  /\ \/ UNCHANGED <<row, visible>>
     \/ /\ authority /\ row.rev = loaded[p].rev
        /\ row' = Candidate(p)
        /\ visible' = Witnessed(row', perm)
  /\ AbortAndFail(p, roomOf[p])
  /\ UNCHANGED <<perm, authority, closed, current, roomOf, stage, loaded, applyVars,
                 acked, known, synced>>

(* History: the changes U of a skipped fan-out pass these members by.      *)
AlsoMissed(missed, others, U) ==
  [q \in Peers |-> IF q \in others THEN missed[q] \cup U ELSE missed[q]]

(* activityNotice precedes the fan-out: if it fails, sync returns and the  *)
(* other peers never get this update.                                      *)
Notice(p) ==
  /\ pc[p] = "committed"
  /\ LET others == {q \in Members(roomOf[p]) \ {p} : stage[q] = "ready"}
     IN  \/ /\ todo' = [todo EXCEPT ![p] = others]
            /\ Goto(p, "fanout")
            /\ UNCHANGED <<rooms, stopped>>
         \/ /\ rooms' = [rooms EXCEPT ![roomOf[p]].missed = AlsoMissed(@, others, frame[p])]
            /\ Fail(p)
            /\ UNCHANGED todo
  /\ UNCHANGED <<dbVars, closed, current, roomOf, stage, loaded, frame, recipient, historyVars>>

(* Mutants: recipients are not reauthorized, or are skipped and not stopped. *)
SendUnchecked(p, q) ==
  /\ pc[p] = "fanout" /\ q \in todo[p]
  /\ todo' = [todo EXCEPT ![p] = @ \ {q}]
  /\ recipient' = [recipient EXCEPT ![p] = q]
  /\ Goto(p, "sending")
  /\ UNCHANGED <<dbVars, closed, roomVars, roomOf, stage, stopped, loaded, frame, historyVars>>

SkipUnreadable(p, q) ==
  /\ pc[p] = "fanout" /\ q \in todo[p]
  /\ todo' = [todo EXCEPT ![p] = @ \ {q}]
  /\ \/ /\ Readable(q)
        /\ recipient' = [recipient EXCEPT ![p] = q]
        /\ Goto(p, "sending")
     \/ UNCHANGED <<recipient, pc>>
  /\ UNCHANGED <<dbVars, closed, roomVars, roomOf, stage, stopped, loaded, frame, historyVars>>

(* Each recipient is checked again ...                                     *)
CheckRecipient(p, q) ==
  /\ pc[p] = "fanout" /\ q \in todo[p]
  /\ todo' = [todo EXCEPT ![p] = @ \ {q}]
  /\ \/ /\ Readable(q)
        /\ recipient' = [recipient EXCEPT ![p] = q]
        /\ Goto(p, "sending")
        /\ UNCHANGED stopped
     \/ /\ stopped' = [stopped EXCEPT ![q] = TRUE]
        /\ UNCHANGED <<recipient, pc>>
  /\ UNCHANGED <<dbVars, closed, roomVars, roomOf, stage, loaded, frame, historyVars>>

(* Mutant: a failed write is ignored.                                      *)
SendIgnoringErrors(p) ==
  /\ pc[p] = "sending"
  /\ \/ /\ ~ stopped[recipient[p]]
        /\ known' = [known EXCEPT ![recipient[p]] = @ \cup frame[p]]
     \/ UNCHANGED known
  /\ recipient' = [recipient EXCEPT ![p] = None]
  /\ Goto(p, "fanout")
  /\ UNCHANGED <<dbVars, closed, roomVars, roomOf, stage, stopped, loaded, frame, todo, acked, synced, visible>>

(* ... and then written to, or stopped.                                    *)
SendUpdate(p) ==
  /\ pc[p] = "sending"
  /\ LET q == recipient[p]
     IN  \/ /\ ~ stopped[q]
            /\ known' = [known EXCEPT ![q] = @ \cup frame[p]]
            /\ UNCHANGED stopped
         \/ /\ stopped' = [stopped EXCEPT ![q] = TRUE]
            /\ UNCHANGED known
  /\ recipient' = [recipient EXCEPT ![p] = None]
  /\ Goto(p, "fanout")
  /\ UNCHANGED <<dbVars, closed, roomVars, roomOf, stage, loaded, frame, todo, acked, synced, visible>>

(* The sync status frame tells the sender its changes are saved.           *)
Acknowledge(p) ==
  /\ pc[p] = "fanout" /\ todo[p] = {}
  /\ \/ /\ ~ stopped[p]
        /\ acked' = [acked EXCEPT ![p] = @ \cup frame[p]]
        /\ known' = [known EXCEPT ![p] = @ \cup frame[p]]
        /\ Goto(p, "reading")
        /\ UNCHANGED stopped
     \/ /\ Fail(p)
        /\ UNCHANGED <<acked, known>>
  /\ UNCHANGED <<dbVars, closed, roomVars, roomOf, stage, loaded, applyVars, synced, visible>>

-----------------------------------------------------------------------------
(* Ending sessions.                                                        *)

(* A read or a frame fails: malformed frame, failed check, lost socket,    *)
(* read deadline, or a socket somebody stopped.                            *)
Disconnect(p) ==
  /\ pc[p] = "reading"
  /\ Fail(p)
  /\ UNCHANGED <<dbVars, closed, roomVars, roomOf, stage, loaded, applyVars, historyVars>>

(* Mutant: maintain checks the connection and not the user's access.       *)
RevokeOnLostAuthority(p) ==
  /\ p \in Connected /\ stage[p] = "ready" /\ ~ stopped[p]
  /\ ~ authority
  /\ stopped' = [stopped EXCEPT ![p] = TRUE]
  /\ UNCHANGED <<dbVars, closed, roomVars, roomOf, pc, stage, loaded, applyVars, historyVars>>

(* maintain stops a ready peer whose access check fails ...                *)
RevokeSession(p) ==
  /\ p \in Connected /\ stage[p] = "ready" /\ ~ stopped[p]
  /\ ~ AuthorityBusy /\ ~ Readable(p)
  /\ stopped' = [stopped EXCEPT ![p] = TRUE]
  /\ UNCHANGED <<dbVars, closed, roomVars, roomOf, pc, stage, loaded, applyVars, historyVars>>

(* ... or that is idle past its deadline, or misses a heartbeat.           *)
ExpireSession(p) ==
  /\ p \in Connected /\ stage[p] = "ready" /\ ~ stopped[p]
  /\ stopped' = [stopped EXCEPT ![p] = TRUE]
  /\ UNCHANGED <<dbVars, closed, roomVars, roomOf, pc, stage, loaded, applyVars, historyVars>>

(* Mutant: every peer that leaves takes the room with it.                  *)
LeaveOccupied(p) ==
  /\ pc[p] = "closing" /\ (roomOf[p] # None => ~ RoomLocked(roomOf[p]))
  /\ roomOf' = [roomOf EXCEPT ![p] = None]
  /\ current' = IF roomOf[p] # None THEN None ELSE current
  /\ Goto(p, "gone")
  /\ stage' = [stage EXCEPT ![p] = "anonymous"]
  /\ known' = [known EXCEPT ![p] = {}]
  /\ synced' = [synced EXCEPT ![p] = FALSE]
  /\ UNCHANGED <<dbVars, closed, rooms, stopped, loaded, applyVars, acked, visible>>

(* The deferred leave: the last peer takes the room with it.               *)
Leave(p) ==
  /\ pc[p] = "closing"
  /\ roomOf[p] # None => ~ RoomLocked(roomOf[p])
  /\ roomOf' = [roomOf EXCEPT ![p] = None]
  /\ IF roomOf[p] # None /\ Members(roomOf[p]) = {p}
     THEN /\ current' = None
          /\ rooms' = [rooms EXCEPT ![roomOf[p]] = EmptyRoom]
     ELSE UNCHANGED roomVars
  /\ Goto(p, "gone")
  /\ stage' = [stage EXCEPT ![p] = "anonymous"]
  /\ stopped' = [stopped EXCEPT ![p] = FALSE]
  /\ loaded' = [loaded EXCEPT ![p] = EmptyDocument]
  /\ frame' = [frame EXCEPT ![p] = {}]
  /\ todo' = [todo EXCEPT ![p] = {}]
  /\ recipient' = [recipient EXCEPT ![p] = None]
  /\ known' = [known EXCEPT ![p] = {}]
  /\ synced' = [synced EXCEPT ![p] = FALSE]
  /\ UNCHANGED <<dbVars, closed, acked, visible>>

(* Mutant: Close only refuses new sockets.                                 *)
CloseDoor ==
  /\ ~ closed
  /\ closed' = TRUE
  /\ UNCHANGED <<dbVars, roomVars, roomOf, pc, stage, stopped, loaded, applyVars, historyVars>>

(* Close refuses new sockets and stops the present ones; it then waits.    *)
Close ==
  /\ ~ closed
  /\ closed' = TRUE
  /\ stopped' = [p \in Peers |-> p \in Connected]
  /\ UNCHANGED <<dbVars, roomVars, roomOf, pc, stage, loaded, applyVars, historyVars>>

-----------------------------------------------------------------------------
(* The environment: policy, the database session, other runtimes.          *)

(* Membership, entitlement and board changes lock the workspace row.       *)
ChangePermission(p, level) ==
  /\ ~ WorkspaceLocked /\ perm[p] # level
  /\ perm' = [perm EXCEPT ![p] = level]
  /\ visible' = Witnessed(row, perm')
  /\ UNCHANGED <<row, authority, closed, roomVars, roomOf, pc, stage, stopped, loaded, applyVars,
                 acked, known, synced>>

(* The pinned connection dies; it is never reopened.                       *)
LoseAuthority ==
  /\ authority
  /\ authority' = FALSE
  /\ UNCHANGED <<row, perm, closed, roomVars, roomOf, pc, stage, stopped, loaded, applyVars, historyVars>>

(* PostgreSQL has released the lock, so another runtime may serve the board. *)
ForeignCommit(U) ==
  /\ ~ authority
  /\ ~ (U \subseteq row.state)
  /\ row' = [rev |-> row.rev + 1, state |-> row.state \cup U]
  /\ visible' = Witnessed(row', perm)
  /\ UNCHANGED <<perm, authority, closed, roomVars, roomOf, pc, stage, stopped, loaded, applyVars,
                 acked, known, synced>>

(* The process dies, or exits after Close, and a new one takes the lock.   *)
Restart ==
  /\ authority' = TRUE
  /\ closed' = FALSE
  /\ current' = None
  /\ rooms' = [r \in Rooms |-> EmptyRoom]
  /\ roomOf' = [p \in Peers |-> None]
  /\ pc' = [p \in Peers |-> "gone"]
  /\ stage' = [p \in Peers |-> "anonymous"]
  /\ stopped' = [p \in Peers |-> FALSE]
  /\ loaded' = [p \in Peers |-> EmptyDocument]
  /\ frame' = [p \in Peers |-> {}]
  /\ todo' = [p \in Peers |-> {}]
  /\ recipient' = [p \in Peers |-> None]
  /\ known' = [p \in Peers |-> {}]
  /\ synced' = [p \in Peers |-> FALSE]
  /\ UNCHANGED <<row, perm, acked, visible>>

-----------------------------------------------------------------------------
(* The reader goroutine of p, once it has something to do.                 *)
Reader(p) ==
  \/ JoinNew(p) \/ JoinExisting(p) \/ JoinStale(p) \/ JoinRefused(p) \/ Ready(p)
  \/ AnswerStep1(p) \/ AnswerCheckpoint(p)
  \/ ReadTransaction(p) \/ LockTransaction(p) \/ CommitTransaction(p) \/ CommitFails(p)
  \/ Notice(p) \/ (\E q \in Peers : CheckRecipient(p, q)) \/ SendUpdate(p) \/ Acknowledge(p)
  \/ Leave(p)

Client(p) ==
  \/ Connect(p) \/ Authenticate(p) \/ Hello(p)
  \/ Request(p, "diff", {}) \/ Request(p, "save", {})
  \/ \E U \in SUBSET Updates \ {{}} : Request(p, "update", U)
  \/ Disconnect(p)

Maintain(p) == RevokeSession(p) \/ ExpireSession(p)

Environment ==
  \/ \E p \in Peers, level \in Permissions : ChangePermission(p, level)
  \/ LoseAuthority
  \/ \E U \in SUBSET Updates : ForeignCommit(U)
  \/ Close
  \/ Restart

Next == Environment \/ \E p \in Peers : Client(p) \/ Reader(p) \/ Maintain(p)

Spec == Init /\ [][Next]_vars

(* A goroutine that can run does.  Go's mutexes hand over in FIFO order    *)
(* once a waiter has starved, hence strong fairness where a reader needs a *)
(* lock; reads of a closed socket fail; maintain checks every 15 seconds.  *)
Fairness ==
  \A p \in Peers :
    /\ SF_vars(Reader(p))
    /\ WF_vars(stopped[p] /\ Disconnect(p))
    /\ SF_vars(RevokeSession(p))

-----------------------------------------------------------------------------
TypeOK ==
  /\ row \in Documents
  /\ perm \in [Peers -> Permissions]
  /\ authority \in BOOLEAN /\ closed \in BOOLEAN
  /\ current \in Rooms \cup {None}
  /\ rooms \in [Rooms -> RoomStates]
  /\ roomOf \in [Peers -> Rooms \cup {None}]
  /\ pc \in [Peers -> Places]
  /\ stage \in [Peers -> Stages]
  /\ stopped \in [Peers -> BOOLEAN]
  /\ loaded \in [Peers -> Documents]
  /\ frame \in [Peers -> SUBSET Updates]
  /\ todo \in [Peers -> SUBSET Peers]
  /\ recipient \in [Peers -> Peers \cup {None}]
  /\ acked \in [Peers -> SUBSET Updates]
  /\ known \in [Peers -> SUBSET Updates]
  /\ synced \in [Peers -> BOOLEAN]
  /\ visible \in [Peers -> SUBSET Updates]

(* `Server holds one serial room per board' (server.go:25): every socket   *)
(* that joined is in the room the map still names, and at most one of them *)
(* is inside rm.mu.  Leave, join and abort of several peers could otherwise *)
(* leave two rooms for one board, each with its own document.              *)
OneSerialRoom ==
  /\ \A p \in Peers : roomOf[p] # None => roomOf[p] = current
  /\ \A p, q \in Peers : pc[p] \in Holding /\ pc[q] \in Holding => p = q

(* `Document contains only successfully committed CRDT history'            *)
(* (model/session.go): a room's document is never ahead of the row, never  *)
(* holds a change the row lacks, and at the row's revision is the row.     *)
Committed(doc) ==
  /\ doc.rev <= row.rev /\ doc.state \subseteq row.state
  /\ doc.rev = row.rev => doc = row

RoomIsCommitted == \A r \in Rooms : current = r => Committed(rooms[r].doc)

(* Changes a client was told are saved, by sync status or save-checkpoint, *)
(* are in the durable row whatever aborts, lost responses, other runtimes  *)
(* and restarts follow.                                                    *)
AcknowledgedIsDurable == \A p \in Peers : acked[p] \subseteq row.state

(* A client that reconnects is admitted only to a room that holds          *)
(* everything it was ever told is saved, although its document was loaded  *)
(* without a lock and the room may have been opened from an older load.    *)
ReadsOwnSavedChanges ==
  \A p \in Peers :
    stage[p] = "ready" /\ ~ rooms[roomOf[p]].failed => acked[p] \subseteq rooms[roomOf[p]].doc.state

(* After abort every member of the room is stopped, and none can be added: *)
(* `ErrConflict requires every peer to reopen committed state'.            *)
FailedRoomIsStopped ==
  \A p \in Peers : roomOf[p] # None /\ rooms[roomOf[p]].failed => stopped[p]

(* What fan-outs would have brought p, had their senders' activity notice  *)
(* not failed (protocol.go:380).                                           *)
Missed(p) == rooms[roomOf[p]].missed[p]

(* A connected, synchronized client lacks nothing its room committed but   *)
(* the changes of skipped fan-outs.                                        *)
SynchronizedPeersConverge ==
  \A p \in Peers :
    synced[p] /\ ~ stopped[p] /\ ~ RoomLocked(roomOf[p]) =>
      rooms[roomOf[p]].doc.state \subseteq known[p] \cup Missed(p)

(* `RLS cannot protect bytes already in memory' (protocol.go:388): what is *)
(* sent to a user was committed while the user had access, though checks   *)
(* and writes are separate and a check may precede a wait for the room.    *)
(* The exception is real: a change whose fan-out was skipped stops nobody, *)
(* and a Step1 checked before it (330) is then answered with it (353).     *)
NoContentAfterRevocation ==
  \A p \in Peers : roomOf[p] # None => known[p] \subseteq visible[p] \cup Missed(p)

(* This runtime writes the row only for a user who may edit at the commit, *)
(* although the permission was read two steps earlier.                     *)
CommitsAreAuthorized ==
  [][row' # row /\ authority => \E p \in Peers : pc[p] = "locked" /\ perm[p] = "edit"]_vars

-----------------------------------------------------------------------------
(* The inductive invariant behind these properties.                        *)

(* Where a peer is tells whether it is in a room, and what it can hold.    *)
Located ==
  \A p \in Peers :
    /\ pc[p] \in Holding \cup {"joined", "diff", "save", "update"} => roomOf[p] # None
    /\ pc[p] \in {"gone", "loaded"} => roomOf[p] = None
    /\ stage[p] = "ready" => roomOf[p] # None
    /\ roomOf[p] = None => known[p] = {}

(* Every document in memory is a past value of the row, and two of them    *)
(* are ordered by their revisions.                                         *)
InMemory == {EmptyDocument} \cup {loaded[p] : p \in Peers} \cup {rooms[r].doc : r \in Rooms}

Snapshots ==
  /\ \A doc \in InMemory : Committed(doc)
  /\ \A older, newer \in InMemory : older.rev <= newer.rev => older.state \subseteq newer.state

(* A room's document contains what its members hold, were told, and are    *)
(* sending; before it joins, p's loaded document contains what p was told. *)
RoomIsAhead ==
  \A p \in Peers :
    /\ roomOf[p] # None => acked[p] \cup known[p] \subseteq rooms[roomOf[p]].doc.state
    /\ pc[p] \in {"committed", "fanout", "sending"} => frame[p] \subseteq rooms[roomOf[p]].doc.state
    /\ pc[p] = "loaded" => acked[p] \subseteq loaded[p].state

(* A fan-out reaches members of its own room only: nobody leaves meanwhile. *)
FanOutStaysInRoom ==
  \A p \in Peers :
    /\ pc[p] \notin {"fanout", "sending"} => todo[p] = {}
    /\ todo[p] \subseteq Members(roomOf[p])
    /\ pc[p] = "sending" => recipient[p] \in Members(roomOf[p])

(* A transaction that goes on to save has something to save: a frame that  *)
(* is not contained in the document it read.                               *)
FrameIsNew ==
  \A p \in Peers : pc[p] \in InTransaction => ~ (frame[p] \subseteq loaded[p].state)

(* The workspace lock keeps the permission as it was when it was required. *)
WriterMayEdit == \A p \in Peers : pc[p] = "locked" /\ authority => perm[p] = "edit"

(* Only a ready session is served, and only a served one is synchronized.  *)
ServedAreReady ==
  \A p \in Peers :
    pc[p] \in Holding \cup {"diff", "save", "update"} \/ synced[p] => stage[p] = "ready"

(* Who may read has seen the row as it is now, the others an earlier one.  *)
ReadersSeeTheRow ==
  \A p \in Peers :
    visible[p] \subseteq row.state /\ (perm[p] # "none" => visible[p] = row.state)

(* Nothing touches a room's document while its holder is in a transaction. *)
TransactionsAreCurrent ==
  \A p \in Peers : pc[p] \in InTransaction => loaded[p] = rooms[roomOf[p]].doc

(* q has committed and p's turn in the fan-out is still to come.           *)
Owes(q, p) ==
  /\ roomOf[q] = roomOf[p]
  /\ pc[q] = "committed" \/ (pc[q] \in {"fanout", "sending"} /\ p \in todo[q])
Writes(q, p) ==
  \/ Owes(q, p)
  \/ roomOf[q] = roomOf[p] /\ pc[q] = "sending" /\ recipient[q] = p
  \/ q = p /\ pc[q] \in {"fanout", "sending"}

(* Whoever sends or is sent a change may read it; an answer that waits for *)
(* the room is about content its client may read or has missed, or the     *)
(* fan-out of what it may not read comes first.                            *)
AnswersAreReadable ==
  \A p \in Peers :
    /\ pc[p] \in {"committed", "fanout", "sending"} => frame[p] \subseteq visible[p]
    /\ pc[p] = "sending" => frame[p] \subseteq visible[recipient[p]]
    /\ pc[p] = "diff" /\ ~ stopped[p] =>
         \/ rooms[roomOf[p]].doc.state \subseteq visible[p] \cup Missed(p)
         \/ \E q \in Peers :
              /\ Owes(q, p)
              /\ rooms[roomOf[p]].doc.state \subseteq visible[p] \cup Missed(p) \cup frame[q]

(* A synchronized client lacks at most what it has missed and the frame    *)
(* that is being fanned out and has yet to reach it.                       *)
FanOutCompletes ==
  \A p \in Peers :
    synced[p] /\ ~ stopped[p] =>
      \/ rooms[roomOf[p]].doc.state \subseteq known[p] \cup Missed(p)
      \/ \E q \in Peers :
           /\ Writes(q, p)
           /\ rooms[roomOf[p]].doc.state \subseteq known[p] \cup Missed(p) \cup frame[q]

(* What a room promises about documents, and then what it promises about   *)
(* their delivery.                                                         *)
RoomInv ==
  /\ TypeOK
  /\ Located
  /\ OneSerialRoom
  /\ Snapshots
  /\ FrameIsNew
  /\ AcknowledgedIsDurable
  /\ RoomIsAhead
  /\ FanOutStaysInRoom
  /\ FailedRoomIsStopped
  /\ WriterMayEdit

DeliveryInv ==
  /\ ServedAreReady
  /\ ReadersSeeTheRow
  /\ TransactionsAreCurrent
  /\ AnswersAreReadable
  /\ NoContentAfterRevocation
  /\ FanOutCompletes

Inv == RoomInv /\ DeliveryInv

-----------------------------------------------------------------------------
(* Rooms, sockets and processes together implement the durable board.      *)
Board == INSTANCE DurableBoard
  WITH Peers <- Peers, Updates <- Updates,
       row <- row, acked <- acked, known <- known
ImplementsDurableBoard == Board!Spec

(* A failed room drains, so that its peers can reopen committed state.     *)
FailedRoomReopens == \A r \in Rooms : rooms[r].failed ~> ~ rooms[r].failed

(* Close returns: no reader is left waiting for a lock or a stopped peer.  *)
CloseDrains == closed ~> Connected = {} \/ ~ closed

(* A ready peer that stays without access is disconnected.                 *)
RevokedPeerLeaves ==
  \A p \in Peers : perm[p] = "none" /\ stage[p] = "ready" ~> perm[p] # "none" \/ pc[p] = "gone"
=============================================================================
