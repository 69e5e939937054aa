----------------------------- MODULE LocalRelay -----------------------------
(***************************************************************************)
(* Local sharing: ephemeral sessions in which one host publishes snapshots *)
(* to viewers.  The relay (app/local_sharing/service) is a monitor, whose  *)
(* whole state under r.mu is the record `relay'; every entry sweeps first, *)
(* except Detach.  Each socket of the server (app/local_sharing/inbound)   *)
(* has a reader, whose place is phase[s], and a writer goroutine, which    *)
(* takes from the channels `slot' and `ended' without the relay's mutex.   *)
(*                                                                         *)
(* A deadline is the number of ticks that remain; at 0 it has passed.  A   *)
(* token is its grant: issuing a new one invalidates the old, and a stale  *)
(* token is refused without any effect but the sweep.                      *)
(***************************************************************************)
EXTENDS Naturals, FiniteSets, Functions, FiniteSetsExt

CONSTANTS
  Actors,          \* signed-in users
  Rooms,           \* session identifiers
  Sockets,         \* connections, each used again after it is gone
  None,            \* an empty channel
  MaxRooms,        \* sessions of the relay
  MaxHosted,       \* sessions of one host
  MaxGrants,       \* grants of one session
  MaxConnections,  \* sockets of the server, and attached sockets of the relay
  MaxPeers,        \* attached sockets of one session
  MaxStoredBytes,  \* bytes of all snapshots
  Sizes,           \* sizes of published snapshots
  IdleTimeout,     \* ticks without activity
  HostDeadline,    \* ticks for the host's first connection
  TokenTTL,        \* ticks of a token
  MaxRevision      \* bound of the model on publications in one session

ASSUME SizesAssumption == Sizes \subseteq Nat \ {0} /\ MaxStoredBytes \in Nat
ASSUME TicksAssumption == {IdleTimeout, HostDeadline, TokenTTL} \subseteq Nat \ {0}

VARIABLES
  relay,   \* what r.mu protects: sessions, attached sockets, bytes, channels
  door,    \* how far Server.Close has come
  doomed,  \* the sockets Close found before their admission
  phase,   \* where the reader of s is
  conn,    \* open, lost (to the client) or closed (by the server)
  writer,  \* where the writer of s is
  held,    \* the event the writer is about to write
  sent,    \* the writer's local variable `revision'
  shown    \* history: the revision of the snapshot the client holds

socketVars == <<phase, conn, writer, held, sent, shown>>
serverVars == <<door, doomed>>
vars == <<relay, door, doomed, phase, conn, writer, held, sent, shown>>

Roles == {"host", "viewer"}
Reasons == {"host_revoked", "idle_timeout", "host_absent", "token_expired",
            "host_disconnected", "relay_stopped"}
Events == [type : {"session-state", "presence"}, rev : 0..MaxRevision, snapshot : BOOLEAN]
GrantType == [role : Roles, left : 0..TokenTTL]

ASSUME ChannelsAssumption == MaxRevision \in Nat /\ None \notin Events \cup Reasons

-----------------------------------------------------------------------------
(* The relay, as operators from one state of the monitor to another.       *)

Without(f, S) == Restrict(f, DOMAIN f \ S)
With(f, x, v) == [y \in DOMAIN f \cup {x} |-> IF y = x THEN v ELSE f[y]]

Members(st, r) == {s \in DOMAIN st.peers : st.peers[s].room = r}
Stored(st, R) == SumFunctionOnSet([r \in R |-> st.rooms[r].size], R)

(* A session-state event carries the whole snapshot, for viewers only.     *)
StateEvent(st, s) ==
  LET room == st.rooms[st.peers[s].room]
  IN  [type |-> "session-state", rev |-> room.rev,
       snapshot |-> st.peers[s].role = "viewer" /\ room.size > 0]

(* Mutant: an event is dropped when the channel is full.                   *)
BroadcastOrDrop(st, R) ==
  [st EXCEPT !.slot = [s \in Sockets |->
     IF s \in DOMAIN st.peers /\ st.peers[s].room \in R /\ @[s] = None
     THEN StateEvent(st, s) ELSE @[s]]]

(* offer to every member: the newest state replaces a pending event.       *)
Broadcast(st, R) ==
  [st EXCEPT !.slot = [s \in Sockets |->
     IF s \in DOMAIN st.peers /\ st.peers[s].room \in R THEN StateEvent(st, s) ELSE @[s]]]

(* Mutant: an ended socket is not deleted from r.peers.                    *)
ReleaseKept(st, why) ==
  [st EXCEPT !.slot  = [s \in Sockets |-> IF s \in DOMAIN why THEN None ELSE @[s]],
             !.ended = [s \in Sockets |-> IF s \in DOMAIN why THEN why[s] ELSE @[s]]]

(* The sockets of why leave the relay: a pending event is drained and the  *)
(* reason sent.                                                            *)
Release(st, why) ==
  [st EXCEPT !.peers = Without(@, DOMAIN why),
             !.slot  = [s \in Sockets |-> IF s \in DOMAIN why THEN None ELSE @[s]],
             !.ended = [s \in Sockets |-> IF s \in DOMAIN why THEN why[s] ELSE @[s]]]

(* The sockets of ended sessions, each with the reason of its session.     *)
Ousted(st, why) ==
  [s \in UNION {Members(st, r) : r \in DOMAIN why} |-> why[st.peers[s].room]]

(* Mutant: the bytes of an ended session stay counted.                     *)
EndUncounted(st, why) ==
  [Release(st, Ousted(st, why)) EXCEPT !.rooms = Without(@, DOMAIN why)]

(* end, for every session of why.                                          *)
End(st, why) ==
  [Release(st, Ousted(st, why))
     EXCEPT !.rooms = Without(@, DOMAIN why), !.bytes = @ - Stored(st, DOMAIN why)]

All(S, reason) == [x \in S |-> reason]

(* Mutant: detach removes any socket like a viewer's.                      *)
DetachOnly(st, S, reason) ==
  Broadcast(Release(st, All(S, reason)), {st.peers[s].room : s \in S})

(* detach: a host takes the session with it, a viewer only its presence.   *)
DetachAll(st, S, reason) ==
  LET led == {st.peers[s].room : s \in {x \in S : st.peers[x].role = "host"}}
      rest == {s \in S : st.peers[s].room \notin led}
  IN  Broadcast(Release(End(st, All(led, reason)), All(rest, reason)),
                {st.peers[s].room : s \in rest})

(* Mutant: only expired tokens are swept.                                  *)
SweepTokens(st) == DetachAll(st, {s \in DOMAIN st.peers : st.peers[s].left = 0}, "token_expired")

(* sweep: idle sessions and sessions without a host, then expired tokens.  *)
Sweep(st) ==
  LET idle == {r \in DOMAIN st.rooms : st.rooms[r].idle = 0}
      absent == {r \in DOMAIN st.rooms : ~ st.rooms[r].online /\ st.rooms[r].pending = 0}
      why == [r \in idle \cup absent |-> IF r \in idle THEN "idle_timeout" ELSE "host_absent"]
  IN  DetachAll(End(st, why),
                {s \in DOMAIN st.peers : st.peers[s].left = 0 /\ st.peers[s].room \notin DOMAIN why},
                "token_expired")

Grant(role) == [role |-> role, left |-> TokenTTL]
Issue(st, r, a, role) == [st EXCEPT !.rooms[r].grants = With(@, a, Grant(role))]

(* admitted: an actor whose token for r has not expired.                   *)
Admitted(st, r, a) ==
  r \in DOMAIN st.rooms /\ a \in DOMAIN st.rooms[r].grants /\ st.rooms[r].grants[a].left > 0

NewRoom(a) ==
  [host |-> a, online |-> FALSE, idle |-> IdleTimeout, pending |-> HostDeadline,
   rev |-> 0, size |-> 0, grants |-> With(<<>>, a, Grant("host"))]

NewRelay ==
  [closed |-> FALSE, rooms |-> <<>>, peers |-> <<>>, bytes |-> 0,
   slot |-> [s \in Sockets |-> None], ended |-> [s \in Sockets |-> None]]

Init ==
  /\ relay = NewRelay
  /\ door = "open"
  /\ doomed = {}
  /\ phase = [s \in Sockets |-> "gone"]
  /\ conn = [s \in Sockets |-> "closed"]
  /\ writer = [s \in Sockets |-> "exited"]
  /\ held = [s \in Sockets |-> None]
  /\ sent = [s \in Sockets |-> 0]
  /\ shown = [s \in Sockets |-> 0]

-----------------------------------------------------------------------------
(* Requests over HTTP.  A refused request only sweeps: see SweepTick.      *)

(* The limits of the relay and of one host.                                *)
MayCreate(st, a) ==
  /\ ~ st.closed
  /\ Cardinality(DOMAIN st.rooms) < MaxRooms
  /\ Cardinality({x \in DOMAIN st.rooms : st.rooms[x].host = a}) < MaxHosted

Create(a, r) ==
  LET st == Sweep(relay)
  IN  /\ r \notin DOMAIN relay.rooms /\ MayCreate(st, a)
      /\ relay' = [st EXCEPT !.rooms = With(@, r, NewRoom(a))]
      /\ UNCHANGED <<serverVars, socketVars>>

(* With the invitation of an online session.                               *)
MayJoin(st, a, r) ==
  /\ r \in DOMAIN st.rooms /\ st.rooms[r].online
  /\ \/ a = st.rooms[r].host
     \/ a \in DOMAIN st.rooms[r].grants
     \/ Cardinality(DOMAIN st.rooms[r].grants) < MaxGrants

Join(a, r) ==
  LET st == Sweep(relay)
  IN  /\ MayJoin(st, a, r)
      /\ relay' = Issue(st, r, a, IF a = st.rooms[r].host THEN "host" ELSE "viewer")
      /\ UNCHANGED <<serverVars, socketVars>>

(* Renew needs a grant, not a token that is still valid.                   *)
MayRenew(st, a, r) == r \in DOMAIN st.rooms /\ a \in DOMAIN st.rooms[r].grants

Renew(a, r) ==
  LET st == Sweep(relay)
  IN  /\ MayRenew(st, a, r)
      /\ relay' = Issue(st, r, a, st.rooms[r].grants[a].role)
      /\ UNCHANGED <<serverVars, socketVars>>

MayRevoke(st, a, r) == r \in DOMAIN st.rooms /\ st.rooms[r].host = a

Revoke(a, r) ==
  LET st == Sweep(relay)
  IN  /\ MayRevoke(st, a, r)
      /\ relay' = End(st, All({r}, "host_revoked"))
      /\ UNCHANGED <<serverVars, socketVars>>

-----------------------------------------------------------------------------
(* A socket: admission.                                                    *)

(* Mutant: Connect without the check of s.closed.                          *)
ConnectLate(s) ==
  /\ phase[s] = "gone"
  /\ Cardinality({x \in Sockets : phase[x] # "gone"}) < MaxConnections
  /\ phase' = [phase EXCEPT ![s] = "anonymous"]
  /\ conn' = [conn EXCEPT ![s] = "open"]
  /\ UNCHANGED <<relay, serverVars, writer, held, sent, shown>>

Connect(s) ==
  /\ phase[s] = "gone"
  /\ door = "open"
  /\ Cardinality({x \in Sockets : phase[x] # "gone"}) < MaxConnections
  /\ phase' = [phase EXCEPT ![s] = "anonymous"]
  /\ conn' = [conn EXCEPT ![s] = "open"]
  /\ UNCHANGED <<relay, serverVars, writer, held, sent, shown>>

(* A session is online once its host is attached.                          *)
TakeSeat(st, s, peer) ==
  [st EXCEPT !.peers = With(@, s, peer),
             !.rooms[peer.room].online = @ \/ peer.role = "host"]

(* Attach, with a valid token of actor a for session r.                    *)
Attach(s, a, r) ==
  LET st == Sweep(relay)
      role == st.rooms[r].grants[a].role
      peer == [room |-> r, actor |-> a, role |-> role, left |-> st.rooms[r].grants[a].left]
  IN  /\ phase[s] = "anonymous" /\ conn[s] # "closed"
      /\ Admitted(st, r, a)
      /\ Cardinality(DOMAIN st.peers) < MaxConnections
      /\ Cardinality(Members(st, r)) < MaxPeers
      /\ (role = "viewer") = st.rooms[r].online
      /\ relay' = Broadcast(TakeSeat(st, s, peer), {r})
      /\ phase' = [phase EXCEPT ![s] = "attached"]
      /\ UNCHANGED <<serverVars, conn, writer, held, sent, shown>>

(* No authentication frame (in 10 s), a bad one, or a refused token.       *)
Reject(s) ==
  /\ phase[s] = "anonymous"
  /\ relay' \in {relay, Sweep(relay)}
  /\ phase' = [phase EXCEPT ![s] = "gone"]
  /\ conn' = [conn EXCEPT ![s] = "closed"]
  /\ UNCHANGED <<serverVars, writer, held, sent, shown>>

(* The socket is marked as admitted and its writer starts.                 *)
Admit(s) ==
  /\ phase[s] = "attached"
  /\ phase' = [phase EXCEPT ![s] = "serving"]
  /\ writer' = [writer EXCEPT ![s] = "waiting"]
  /\ UNCHANGED <<relay, serverVars, conn, held, sent, shown>>

-----------------------------------------------------------------------------
(* A socket: the frames of an admitted client.                             *)

Reads(s) == phase[s] = "serving" /\ conn[s] = "open"

Reauthenticate(s) ==
  LET st == Sweep(relay)
      p == st.peers[s]
      grant == st.rooms[p.room].grants[p.actor]
  IN  /\ Reads(s) /\ s \in DOMAIN st.peers
      /\ Admitted(st, p.room, p.actor) /\ grant.role = p.role
      /\ relay' = [st EXCEPT !.peers[s].left = grant.left]
      /\ UNCHANGED <<serverVars, socketVars>>

(* A session after the publication of a snapshot of size n.                *)
Advanced(room, n) == [room EXCEPT !.size = n, !.rev = @ + 1, !.idle = IdleTimeout]

(* Publish replaces the session's snapshot within the relay's budget.      *)
Publish(s, n) ==
  LET st == Sweep(relay)
      r == st.peers[s].room
      bytes == st.bytes - st.rooms[r].size + n
  IN  /\ Reads(s) /\ s \in DOMAIN st.peers /\ st.peers[s].role = "host"
      /\ bytes <= MaxStoredBytes
      /\ st.rooms[r].rev < MaxRevision
      /\ relay' = Broadcast([st EXCEPT !.bytes = bytes,
                                       !.rooms[r] = Advanced(@, n)], {r})
      /\ UNCHANGED <<serverVars, socketVars>>

(* Mutant: Activity without sweeping.                                      *)
ActivityUnswept(s) ==
  /\ Reads(s) /\ s \in DOMAIN relay.peers
  /\ LET r == relay.peers[s].room
     IN  relay' = Broadcast([relay EXCEPT !.rooms[r].idle = IdleTimeout], {r})
  /\ UNCHANGED <<serverVars, socketVars>>

Activity(s) ==
  LET st == Sweep(relay)
      r == st.peers[s].room
  IN  /\ Reads(s) /\ s \in DOMAIN st.peers
      /\ relay' = Broadcast([st EXCEPT !.rooms[r].idle = IdleTimeout], {r})
      /\ UNCHANGED <<serverVars, socketVars>>

(* Mutant: a presence event takes the place of a pending one.              *)
PresenceReplaces(s) ==
  LET st == Sweep(relay)
      others == Members(st, st.peers[s].room) \ {s}
  IN  /\ Reads(s) /\ s \in DOMAIN st.peers
      /\ relay' = [st EXCEPT !.slot = [x \in Sockets |->
                     IF x \in others THEN [type |-> "presence", rev |-> 0, snapshot |-> FALSE]
                     ELSE @[x]]]
      /\ UNCHANGED <<serverVars, socketVars>>

(* Presence goes to the others whose channel is empty.                     *)
Presence(s) ==
  LET st == Sweep(relay)
      others == Members(st, st.peers[s].room) \ {s}
  IN  /\ Reads(s) /\ s \in DOMAIN st.peers
      /\ relay' = [st EXCEPT !.slot = [x \in Sockets |->
                     IF x \in others /\ @[x] = None
                     THEN [type |-> "presence", rev |-> 0, snapshot |-> FALSE]
                     ELSE @[x]]]
      /\ UNCHANGED <<serverVars, socketVars>>

(* An invalid frame, or one the relay refuses after its sweep.             *)
Refuse(s) ==
  /\ Reads(s)
  /\ relay' \in {relay, Sweep(relay)}
  /\ phase' = [phase EXCEPT ![s] = "detaching"]
  /\ UNCHANGED <<serverVars, conn, writer, held, sent, shown>>

(* The connection breaks; the next read fails.                             *)
LoseConnection(s) ==
  /\ conn[s] = "open"
  /\ conn' = [conn EXCEPT ![s] = "lost"]
  /\ UNCHANGED <<relay, serverVars, phase, writer, held, sent, shown>>

ReadFails(s) ==
  /\ phase[s] = "serving" /\ conn[s] # "open"
  /\ phase' = [phase EXCEPT ![s] = "detaching"]
  /\ UNCHANGED <<relay, serverVars, conn, writer, held, sent, shown>>

(* The read deadline of a silent client passes after that of its token.    *)
ReadTimesOut(s) ==
  /\ phase[s] = "serving"
  /\ s \in DOMAIN relay.peers => relay.peers[s].left = 0
  /\ phase' = [phase EXCEPT ![s] = "detaching"]
  /\ UNCHANGED <<relay, serverVars, conn, writer, held, sent, shown>>

(* The deferred Detach, close(done) and conn.Close(), and the wait for the *)
(* writer.                                                                 *)
Detach(s) ==
  /\ phase[s] = "detaching"
  /\ relay' = IF s \in DOMAIN relay.peers
              THEN DetachAll(relay, {s}, "host_disconnected") ELSE relay
  /\ phase' = [phase EXCEPT ![s] = "closing"]
  /\ UNCHANGED <<serverVars, conn, writer, held, sent, shown>>

HangUp(s) ==
  /\ phase[s] = "closing"
  /\ phase' = [phase EXCEPT ![s] = "done"]
  /\ conn' = [conn EXCEPT ![s] = IF @ = "open" THEN "closed" ELSE @]
  /\ UNCHANGED <<relay, serverVars, writer, held, sent, shown>>

Finish(s) ==
  /\ phase[s] = "done" /\ writer[s] = "exited"
  /\ phase' = [phase EXCEPT ![s] = "gone"]
  /\ conn' = [conn EXCEPT ![s] = "closed"]
  /\ sent' = [sent EXCEPT ![s] = 0]
  /\ shown' = [shown EXCEPT ![s] = 0]
  /\ relay' = [relay EXCEPT !.slot[s] = None, !.ended[s] = None]
  /\ UNCHANGED <<serverVars, writer, held>>


-----------------------------------------------------------------------------
(* A socket: its writer, a select over done, ended and events.             *)

(* A snapshot the client has is not sent twice.                            *)
TakeEvent(s) ==
  LET e == relay.slot[s]
      state == e.type = "session-state"
  IN  /\ writer[s] = "waiting" /\ e # None
      /\ held' = [held EXCEPT ![s] =
                    IF state /\ e.rev = sent[s] THEN [e EXCEPT !.snapshot = FALSE] ELSE e]
      /\ sent' = [sent EXCEPT ![s] = IF state THEN e.rev ELSE @]
      /\ relay' = [relay EXCEPT !.slot[s] = None]
      /\ writer' = [writer EXCEPT ![s] = "holding"]
      /\ UNCHANGED <<serverVars, phase, conn, shown>>

(* A write fails on a broken connection, and after 3 s on a slow client.   *)
WriteEvent(s) ==
  /\ writer[s] = "holding"
  /\ \/ /\ conn[s] = "open"
        /\ writer' = [writer EXCEPT ![s] = "waiting"]
        /\ shown' = [shown EXCEPT ![s] = IF held[s].snapshot THEN held[s].rev ELSE @]
        /\ UNCHANGED conn
     \/ /\ writer' = [writer EXCEPT ![s] = "exited"]
        /\ conn' = [conn EXCEPT ![s] = IF @ = "open" THEN "lost" ELSE @]
        /\ UNCHANGED shown
  /\ held' = [held EXCEPT ![s] = None]
  /\ UNCHANGED <<relay, serverVars, phase, sent>>

(* Mutant: the writer does not close the connection.                       *)
TellReasonOnly(s) ==
  /\ writer[s] = "waiting" /\ relay.ended[s] # None
  /\ relay' = [relay EXCEPT !.ended[s] = None]
  /\ writer' = [writer EXCEPT ![s] = "exited"]
  /\ UNCHANGED <<serverVars, phase, conn, held, sent, shown>>

(* The reason is taken, written if the connection is open, and the         *)
(* connection closed.                                                      *)
TellReason(s) ==
  /\ writer[s] = "waiting" /\ relay.ended[s] # None
  /\ relay' = [relay EXCEPT !.ended[s] = None]
  /\ writer' = [writer EXCEPT ![s] = "exited"]
  /\ conn' = [conn EXCEPT ![s] = IF @ = "open" THEN "closed" ELSE @]
  /\ UNCHANGED <<serverVars, phase, held, sent, shown>>

(* The reader closed done: the select may prefer it to a pending channel.  *)
WriterDone(s) ==
  /\ writer[s] = "waiting" /\ phase[s] = "done"
  /\ writer' = [writer EXCEPT ![s] = "exited"]
  /\ UNCHANGED <<relay, serverVars, phase, conn, held, sent, shown>>

-----------------------------------------------------------------------------
(* The clock, the sweeper and the shutdown.                                *)

Down(n) == IF n = 0 THEN 0 ELSE n - 1

Aged(x) == [x EXCEPT !.left = Down(@)]
AgedRoom(room) == [room EXCEPT !.idle = Down(@), !.pending = Down(@),
                               !.grants = [a \in DOMAIN @ |-> Aged(@[a])]]

Tick ==
  /\ relay' = [relay EXCEPT !.rooms = [r \in DOMAIN @ |-> AgedRoom(@[r])],
                            !.peers = [s \in DOMAIN @ |-> Aged(@[s])]]
  /\ UNCHANGED <<serverVars, socketVars>>

(* The ticker of New runs until Close stops it.                            *)
SweepTick ==
  /\ door # "shut"
  /\ relay' = Sweep(relay)
  /\ UNCHANGED <<serverVars, socketVars>>

(* Close: no more sockets, and those not yet admitted are remembered.      *)
CloseServer ==
  /\ door = "open"
  /\ door' = "closing"
  /\ doomed' = {s \in Sockets : phase[s] \in {"anonymous", "attached"}}
  /\ UNCHANGED <<relay, socketVars>>

CloseRelay ==
  /\ door = "closing"
  /\ door' = "ended"
  /\ relay' = [End(relay, All(DOMAIN relay.rooms, "relay_stopped")) EXCEPT !.closed = TRUE]
  /\ UNCHANGED <<doomed, socketVars>>

CloseConns ==
  /\ door = "ended"
  /\ door' = "shut"
  /\ doomed' = {}
  /\ conn' = [s \in Sockets |-> IF s \in doomed /\ conn[s] = "open" THEN "closed" ELSE conn[s]]
  /\ UNCHANGED <<relay, phase, writer, held, sent, shown>>

Request == \E a \in Actors, r \in Rooms : Create(a, r) \/ Join(a, r) \/ Renew(a, r)

Frame(s) ==
  \/ Reauthenticate(s)
  \/ \E n \in Sizes : Publish(s, n)
  \/ Activity(s)
  \/ Presence(s)
  \/ Refuse(s)

Leave(s) == ReadFails(s) \/ Detach(s) \/ HangUp(s) \/ Finish(s)
Write(s) == TakeEvent(s) \/ WriteEvent(s) \/ TellReason(s) \/ WriterDone(s)

Socket(s) ==
  \/ Connect(s)
  \/ \E a \in Actors, r \in Rooms : Attach(s, a, r)
  \/ Reject(s)
  \/ Admit(s)
  \/ Frame(s)
  \/ LoseConnection(s)
  \/ ReadTimesOut(s)
  \/ Leave(s)
  \/ Write(s)

Next ==
  \/ Request
  \/ \E a \in Actors, r \in Rooms : Revoke(a, r)
  \/ \E s \in Sockets : Socket(s)
  \/ Tick
  \/ SweepTick
  \/ CloseServer
  \/ CloseRelay
  \/ CloseConns

Spec == Init /\ [][Next]_vars

(* Goroutines run, and a read on a broken or closed connection fails.  No  *)
(* frame, request, tick or shutdown is ever due; nor is a read deadline,   *)
(* which is up to five minutes away: nothing below has to wait for one.    *)
Fairness ==
  /\ WF_vars(SweepTick)
  /\ WF_vars(CloseRelay) /\ WF_vars(CloseConns)
  /\ \A s \in Sockets : /\ WF_vars(conn[s] # "open" /\ Reject(s)) /\ WF_vars(Admit(s))
                        /\ WF_vars(Leave(s)) /\ WF_vars(Write(s))

FairSpec == Spec /\ Fairness

-----------------------------------------------------------------------------
(* The fields of a session and of an attached socket.                      *)
RoomOK(room) ==
  /\ room.host \in Actors /\ room.online \in BOOLEAN
  /\ room.idle \in 0..IdleTimeout /\ room.pending \in 0..HostDeadline
  /\ room.rev \in 0..MaxRevision /\ room.size \in Sizes \cup {0}
  /\ DOMAIN room.grants \subseteq Actors
  /\ \A a \in DOMAIN room.grants : room.grants[a] \in GrantType

PeerOK(p) == p \in [room : DOMAIN relay.rooms, actor : Actors, role : Roles, left : 0..TokenTTL]

(* The type invariant: the monitor's state, the channels and the places of *)
(* the goroutines of relay.go and server.go.                               *)
TypeOK ==
  /\ relay.closed \in BOOLEAN /\ relay.bytes \in Nat
  /\ DOMAIN relay.rooms \subseteq Rooms /\ DOMAIN relay.peers \subseteq Sockets
  /\ \A r \in DOMAIN relay.rooms : RoomOK(relay.rooms[r])
  /\ \A s \in DOMAIN relay.peers : PeerOK(relay.peers[s])
  /\ relay.slot \in [Sockets -> Events \cup {None}]
  /\ relay.ended \in [Sockets -> Reasons \cup {None}]
  /\ door \in {"open", "closing", "ended", "shut"} /\ doomed \subseteq Sockets
  /\ phase \in [Sockets -> {"gone", "anonymous", "attached", "serving", "detaching",
                            "closing", "done"}]
  /\ conn \in [Sockets -> {"open", "lost", "closed"}]
  /\ writer \in [Sockets -> {"waiting", "holding", "exited"}]
  /\ held \in [Sockets -> Events \cup {None}]
  /\ sent \in [Sockets -> 0..MaxRevision] /\ shown \in [Sockets -> 0..MaxRevision]

(* The counter r.bytes, which Publish and end adjust by differences, is    *)
(* always the sum of the retained snapshots, and within the budget: no     *)
(* sequence of publications and endings leaks or frees bytes twice.        *)
BytesAreStored ==
  relay.bytes = Stored(relay, DOMAIN relay.rooms) /\ relay.bytes <= MaxStoredBytes

(* A session is online exactly while one host socket is attached, and has  *)
(* viewers only then: whichever way the host goes (sweep, error,           *)
(* disconnection, revocation), end takes every viewer with it.             *)
HostKeepsSession ==
  \A r \in Rooms :
    LET hosts == {s \in Members(relay, r) : relay.peers[s].role = "host"}
    IN  /\ Cardinality(hosts) = (IF r \in DOMAIN relay.rooms /\ relay.rooms[r].online THEN 1 ELSE 0)
        /\ Members(relay, r) # {} => hosts # {}

(* end and detach send on `ended' under r.mu: the channel of an attached   *)
(* socket is empty, so no goroutine ever blocks with the relay's mutex.    *)
EndNeverBlocks == \A s \in DOMAIN relay.peers : relay.ended[s] = None

(* The client of s is served and has consumed what it was offered.         *)
CaughtUp(s) ==
  phase[s] = "serving" /\ writer[s] = "waiting" /\ conn[s] = "open" /\ relay.slot[s] = None

(* Coalescing loses no snapshot: although a channel holds one event, an    *)
(* event may replace another, and the writer strips a snapshot it believes *)
(* sent, a viewer with nothing pending holds the newest snapshot.          *)
ViewersConverge ==
  \A s \in DOMAIN relay.peers :
    LET room == relay.rooms[relay.peers[s].room]
    IN  relay.peers[s].role = "viewer" /\ CaughtUp(s) => shown[s] = room.rev

(* "cannot resurrect an expired room" (Activity): once the idle deadline   *)
(* has passed, no activity, publication or renewal moves it, although the  *)
(* sweeper has not seen it yet.  A socket whose token has expired is inert *)
(* in the same way: its deadline is not extended, and a host publishes     *)
(* nothing.                                                                *)
ExpiredStaysExpired ==
  [][/\ \A r \in DOMAIN relay.rooms :
          relay.rooms[r].idle = 0 =>
            r \notin DOMAIN relay'.rooms \/ relay'.rooms[r].idle = 0
     /\ \A s \in DOMAIN relay.peers :
          relay.peers[s].left = 0 =>
            \/ s \notin DOMAIN relay'.peers
            \/ /\ relay'.peers[s].left = 0
               /\ relay.peers[s].role = "host" =>
                    LET r == relay.peers[s].room IN relay'.rooms[r].rev = relay.rooms[r].rev]_vars

(* A session whose idle deadline has passed ends, without any request.     *)
IdleSessionEnds ==
  \A r \in Rooms :
    (r \in DOMAIN relay.rooms /\ relay.rooms[r].idle = 0) ~> (r \notin DOMAIN relay.rooms)

(* A socket that the relay has ended leaves the server and frees its slot, *)
(* without waiting for a deadline: its writer stops its reader, and its    *)
(* reader stops its writer.                                                *)
EndedSocketLeaves == \A s \in Sockets : (relay.ended[s] # None) ~> (phase[s] = "gone")

(* Close returns: every socket, admitted or not, and whatever it does      *)
(* meanwhile, is gone, and no session remains.                             *)
CloseTerminates ==
  (door = "closing") ~>
    (relay.rooms = <<>> /\ relay.bytes = 0 /\ \A s \in Sockets : phase[s] = "gone")

(* "a separate reliable termination signal" (model/session.go:68): a       *)
(* reason the relay gave is read by the socket's writer before it stops,   *)
(* unless the connection broke or the client itself left.                  *)
ReliableTermination ==
  \A s \in Sockets :
    writer[s] = "exited" /\ phase[s] = "done" /\ conn[s] # "lost" =>
      relay.ended[s] \in {None, "host_disconnected"}
=============================================================================
