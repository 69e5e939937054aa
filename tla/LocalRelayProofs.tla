-------------------------- MODULE LocalRelayProofs --------------------------
(***************************************************************************)
(* Proofs about LocalRelay.  The monitor's own invariant is a predicate    *)
(* Monitor(st) on its states, because most entries go through several of   *)
(* them under r.mu: they sweep, then act, then broadcast.  What an ending, *)
(* a detachment and a sweep may do is one relation, Shrinks, between two   *)
(* such states.  The goroutines of a socket relate to it in Seat.          *)
(*                                                                         *)
(* The byte counter is a sum over the sessions: see Weighed, and Sums for  *)
(* what sums are.                                                          *)
(***************************************************************************)
EXTENDS LocalRelay, Sums

-----------------------------------------------------------------------------
(* The invariant.                                                          *)

Room == [host : Actors, online : BOOLEAN, idle : 0..IdleTimeout, pending : 0..HostDeadline,
         rev : 0..MaxRevision, size : Sizes \cup {0},
         grants : UNION {[A -> GrantType] : A \in SUBSET Actors}]

(* A presence event carries no snapshot.                                   *)
Offers == {e \in Events : e.type = "presence" => e.snapshot = FALSE}

Shape(st) ==
  /\ DOMAIN st = {"closed", "rooms", "peers", "bytes", "slot", "ended"}
  /\ st.closed \in BOOLEAN
  /\ DOMAIN st.rooms \subseteq Rooms /\ DOMAIN st.peers \subseteq Sockets
  /\ \A r \in DOMAIN st.rooms : st.rooms[r] \in Room
  /\ \A s \in DOMAIN st.peers :
       st.peers[s] \in [room : DOMAIN st.rooms, actor : Actors, role : Roles, left : 0..TokenTTL]
  /\ st.slot \in [Sockets -> Offers \cup {None}]
  /\ st.ended \in [Sockets -> Reasons \cup {None}]

(* A session has a snapshot once something was published.                  *)
Published(st) == \A r \in DOMAIN st.rooms : st.rooms[r].size > 0 <=> st.rooms[r].rev > 0

Hosts(st, r) == {s \in Members(st, r) : st.peers[s].role = "host"}

(* An online session has a host, and no other session has members.         *)
HostsLead(st) ==
  /\ \A r \in DOMAIN st.rooms : st.rooms[r].online => Hosts(st, r) # {}
  /\ \A s \in DOMAIN st.peers : st.rooms[st.peers[s].room].online
  /\ \A s, t \in DOMAIN st.peers :
       st.peers[s].room = st.peers[t].room /\ st.peers[s].role = "host" /\ st.peers[t].role = "host"
         => s = t

IsState(e) == e # None /\ e.type = "session-state"
ViewerOf(st, s) == s \in DOMAIN st.peers /\ st.peers[s].role = "viewer"

(* Only attached sockets are offered events, and none of them has ended; a *)
(* state that waits for a viewer is the newest, but for the sessions of R. *)
ChannelsFit(st, R) ==
  /\ \A s \in DOMAIN st.peers : st.ended[s] = None
  /\ \A s \in Sockets \ DOMAIN st.peers : st.slot[s] = None
  /\ \A s \in Sockets : ViewerOf(st, s) /\ st.peers[s].room \notin R /\ IsState(st.slot[s]) =>
                          st.slot[s] = StateEvent(st, s)

Monitor(st) == Shape(st) /\ Published(st) /\ HostsLead(st) /\ ChannelsFit(st, {})

(* The same monitor, except for the sessions and sockets that have left,   *)
(* and the states that were offered.                                       *)
Shrinks(st, t) ==
  /\ DOMAIN t.rooms \subseteq DOMAIN st.rooms
  /\ \A r \in DOMAIN t.rooms : t.rooms[r] = st.rooms[r]
  /\ DOMAIN t.peers \subseteq DOMAIN st.peers
  /\ \A s \in DOMAIN t.peers : t.peers[s] = st.peers[s]
  /\ \A s \in DOMAIN t.peers : t.slot[s] \in {st.slot[s], StateEvent(t, s)}
  /\ \A s \in Sockets \ DOMAIN st.peers : t.ended[s] = st.ended[s]

(* What a viewer is offered, and what its writer makes of it.              *)
Offered(st, s) == ~ IsState(st.slot[s]) => sent[s] = st.rooms[st.peers[s].room].rev
Writes(s) ==
  /\ writer[s] = "waiting" => shown[s] = sent[s]
  /\ writer[s] = "holding" => IF held[s].snapshot THEN held[s].rev = sent[s]
                                                  ELSE shown[s] = sent[s]

(* The reader and the writer of a socket, beside the monitor.              *)
Seat(st, s, R) ==
  /\ s \in DOMAIN st.peers => phase[s] \in {"attached", "serving", "detaching"}
  /\ phase[s] \in {"gone", "anonymous"} => st.ended[s] = None
  /\ phase[s] \in {"gone", "anonymous", "attached"} =>
       writer[s] = "exited" /\ sent[s] = 0 /\ shown[s] = 0
  /\ writer[s] = "holding" => held[s] \in Events
  /\ ViewerOf(st, s) => Writes(s) /\ (st.rooms[st.peers[s].room].rev = 0 => sent[s] = 0)
  /\ ViewerOf(st, s) /\ st.peers[s].room \notin R => Offered(st, s)

SocketTypes ==
  /\ door \in {"open", "closing", "ended", "shut"} /\ doomed \subseteq Sockets
  /\ phase \in [Sockets -> {"gone", "anonymous", "attached", "serving", "detaching",
                            "closing", "done"}]
  /\ conn \in [Sockets -> {"open", "lost", "closed"}]
  /\ writer \in [Sockets -> {"waiting", "holding", "exited"}]
  /\ held \in [Sockets -> Events \cup {None}]
  /\ sent \in [Sockets -> 0..MaxRevision] /\ shown \in [Sockets -> 0..MaxRevision]

(* All but the news of the sessions of R, which wait for a broadcast.      *)
Served(st, R) == /\ Shape(st) /\ Published(st) /\ HostsLead(st) /\ ChannelsFit(st, R)
                 /\ \A s \in Sockets : Seat(st, s, R)

RelayInv == SocketTypes /\ Served(relay, {})

-----------------------------------------------------------------------------
(* The operators of the monitor.                                           *)

(* A broadcast offers every member the state, and changes nothing else.    *)
LEMMA BroadcastFits ==
  ASSUME NEW st, NEW R, Shape(st), Published(st), HostsLead(st), ChannelsFit(st, R)
  PROVE  LET t == Broadcast(st, R)
         IN  Monitor(t) /\ Shrinks(st, t) /\ t.rooms = st.rooms /\ t.peers = st.peers
<1> DEFINE t == Broadcast(st, R)
<1>1. /\ DOMAIN t = DOMAIN st
      /\ t.closed = st.closed /\ t.rooms = st.rooms /\ t.peers = st.peers /\ t.ended = st.ended
      /\ t.slot = [s \in Sockets |-> IF s \in DOMAIN st.peers /\ st.peers[s].room \in R
                                     THEN StateEvent(st, s) ELSE st.slot[s]]
  BY DEF Broadcast, Shape
<1>2. \A s \in DOMAIN st.peers : StateEvent(st, s) \in Offers /\ StateEvent(t, s) = StateEvent(st, s)
  BY <1>1 DEF Shape, StateEvent, Offers, Events, Room
<1> HIDE DEF t
<1>3. Shape(t)
  BY <1>1, <1>2 DEF Shape
<1>4. Published(t) /\ HostsLead(t)
  BY <1>1 DEF Published, HostsLead, Hosts, Members
<1>5. ChannelsFit(t, {})
  BY <1>1, <1>2 DEF ChannelsFit, ViewerOf, Shape
<1>6. Shrinks(st, t)
  BY <1>1, <1>2 DEF Shrinks, Shape
<1> QED
  BY <1>1, <1>3, <1>4, <1>5, <1>6 DEF Monitor, t

(* Sockets that leave are offered nothing any more, and told why.          *)
LEMMA Released ==
  ASSUME NEW st, NEW why, Shape(st), \A s \in DOMAIN why : why[s] \in Reasons
  PROVE  LET t == Release(st, why)
         IN  /\ DOMAIN t = DOMAIN st /\ t.closed = st.closed /\ t.rooms = st.rooms
             /\ t.bytes = st.bytes
             /\ DOMAIN t.peers = DOMAIN st.peers \ DOMAIN why
             /\ \A s \in DOMAIN t.peers : t.peers[s] = st.peers[s]
             /\ t.slot \in [Sockets -> Offers \cup {None}]
             /\ t.ended \in [Sockets -> Reasons \cup {None}]
             /\ \A s \in Sockets \cap DOMAIN why : t.slot[s] = None
             /\ \A s \in Sockets \ DOMAIN why : t.slot[s] = st.slot[s] /\ t.ended[s] = st.ended[s]
<1> DEFINE t == Release(st, why)
<1>1. /\ DOMAIN t = DOMAIN st
      /\ t.closed = st.closed /\ t.rooms = st.rooms /\ t.bytes = st.bytes
      /\ t.peers = Without(st.peers, DOMAIN why)
      /\ t.slot = [s \in Sockets |-> IF s \in DOMAIN why THEN None ELSE st.slot[s]]
      /\ t.ended = [s \in Sockets |-> IF s \in DOMAIN why THEN why[s] ELSE st.ended[s]]
  BY DEF Release, Shape
<1>2. /\ DOMAIN Without(st.peers, DOMAIN why) = DOMAIN st.peers \ DOMAIN why
      /\ \A s \in DOMAIN st.peers \ DOMAIN why : Without(st.peers, DOMAIN why)[s] = st.peers[s]
  BY DEF Without, Restrict
<1> HIDE DEF t
<1> QED
  BY <1>1, <1>2 DEF Shape, t

(* Viewers may leave.                                                      *)
LEMMA ViewersLeave ==
  ASSUME NEW st, NEW why, Monitor(st), \A s \in DOMAIN why : ViewerOf(st, s) /\ why[s] \in Reasons
  PROVE  LET t == Release(st, why)
         IN  /\ Monitor(t) /\ Shrinks(st, t) /\ t.rooms = st.rooms
             /\ DOMAIN t.peers = DOMAIN st.peers \ DOMAIN why
<1> DEFINE t == Release(st, why)
<1>1. /\ DOMAIN t = DOMAIN st /\ t.closed = st.closed /\ t.rooms = st.rooms
      /\ DOMAIN t.peers = DOMAIN st.peers \ DOMAIN why
      /\ \A s \in DOMAIN t.peers : t.peers[s] = st.peers[s]
      /\ t.slot \in [Sockets -> Offers \cup {None}]
      /\ t.ended \in [Sockets -> Reasons \cup {None}]
      /\ \A s \in Sockets \cap DOMAIN why : t.slot[s] = None
      /\ \A s \in Sockets \ DOMAIN why : t.slot[s] = st.slot[s] /\ t.ended[s] = st.ended[s]
  BY Released DEF Monitor
<1> HIDE DEF t
<1>2. Shape(t) /\ Published(t)
  BY <1>1 DEF Monitor, Shape, Published
<1>3. HostsLead(t)
  <2>1. \A r \in DOMAIN st.rooms : Hosts(st, r) = Hosts(t, r)
    BY <1>1 DEF Hosts, Members, ViewerOf
  <2> QED
    BY <1>1, <2>1 DEF Monitor, HostsLead
<1>4. ChannelsFit(t, {}) /\ Shrinks(st, t)
  BY <1>1 DEF Monitor, ChannelsFit, Shrinks, Shape, ViewerOf, StateEvent
<1> QED
  BY <1>1, <1>2, <1>3, <1>4 DEF Monitor, t

(* Sessions end together with their members.                               *)
LEMMA SessionsEnd ==
  ASSUME NEW st, NEW why, Monitor(st), \A r \in DOMAIN why : r \in DOMAIN st.rooms /\ why[r] \in Reasons
  PROVE  LET t == End(st, why)
         IN  /\ Monitor(t) /\ Shrinks(st, t)
             /\ DOMAIN t.rooms = DOMAIN st.rooms \ DOMAIN why
             /\ DOMAIN t.peers = {s \in DOMAIN st.peers : st.peers[s].room \notin DOMAIN why}
<1> DEFINE out == Ousted(st, why)
           u == Release(st, out)
           t == End(st, why)
<1>1. /\ DOMAIN out = {s \in DOMAIN st.peers : st.peers[s].room \in DOMAIN why}
      /\ \A s \in DOMAIN out : out[s] \in Reasons
  BY DEF Ousted, Members
<1> HIDE DEF out
<1>2. /\ DOMAIN u = DOMAIN st /\ u.closed = st.closed /\ u.rooms = st.rooms
      /\ DOMAIN u.peers = DOMAIN st.peers \ DOMAIN out
      /\ \A s \in DOMAIN u.peers : u.peers[s] = st.peers[s]
      /\ u.slot \in [Sockets -> Offers \cup {None}]
      /\ u.ended \in [Sockets -> Reasons \cup {None}]
      /\ \A s \in Sockets \cap DOMAIN out : u.slot[s] = None
      /\ \A s \in Sockets \ DOMAIN out : u.slot[s] = st.slot[s] /\ u.ended[s] = st.ended[s]
  BY <1>1, Released DEF Monitor
<1>3. t = [u EXCEPT !.rooms = Without(@, DOMAIN why), !.bytes = @ - Stored(st, DOMAIN why)]
  BY DEF End, out
<1> HIDE DEF u, t
<1>4. /\ DOMAIN t = DOMAIN st /\ t.closed = st.closed /\ t.peers = u.peers /\ t.slot = u.slot
      /\ t.ended = u.ended /\ t.rooms = Without(st.rooms, DOMAIN why)
  BY <1>2, <1>3 DEF Monitor, Shape
<1>5. /\ DOMAIN t.rooms = DOMAIN st.rooms \ DOMAIN why
      /\ \A r \in DOMAIN t.rooms : t.rooms[r] = st.rooms[r]
  BY <1>4 DEF Without, Restrict
<1>6. Shape(t)
  BY <1>1, <1>2, <1>4, <1>5 DEF Monitor, Shape
<1>7. Published(t)
  BY <1>5 DEF Monitor, Published
<1>8. HostsLead(t)
  <2>1. \A r \in DOMAIN t.rooms : Hosts(t, r) = Hosts(st, r)
    BY <1>1, <1>2, <1>4, <1>5 DEF Hosts, Members
  <2> QED
    BY <1>1, <1>2, <1>4, <1>5, <2>1, <1>6 DEF Monitor, HostsLead, Shape
<1>9. ChannelsFit(t, {}) /\ Shrinks(st, t)
  BY <1>1, <1>2, <1>4, <1>5, <1>6 DEF Monitor, ChannelsFit, Shrinks, Shape, ViewerOf, StateEvent
<1> QED
  BY <1>1, <1>2, <1>4, <1>5, <1>6, <1>7, <1>8, <1>9 DEF Monitor, t

(* Whatever shrinks step by step shrinks.                                  *)
LEMMA ShrinksOn ==
  ASSUME NEW st, NEW t, NEW u, Shape(st), Shape(t), Shape(u), Shrinks(st, t), Shrinks(t, u)
  PROVE  Shrinks(st, u)
<1>1. \A s \in DOMAIN u.peers : StateEvent(t, s) = StateEvent(u, s)
  BY DEF Shrinks, StateEvent, Shape
<1> QED
  BY <1>1 DEF Shrinks, Shape

(* A detachment is a shrinking, after which none of its sockets is there.  *)
LEMMA Detached ==
  ASSUME NEW st, NEW S, NEW reason \in Reasons, Monitor(st), S \subseteq DOMAIN st.peers
  PROVE  LET t == DetachAll(st, S, reason)
         IN  Monitor(t) /\ Shrinks(st, t) /\ DOMAIN t.peers \cap S = {}
<1> DEFINE led == {st.peers[s].room : s \in {x \in S : st.peers[x].role = "host"}}
           rest == {s \in S : st.peers[s].room \notin led}
           u == End(st, All(led, reason))
           v == Release(u, All(rest, reason))
           R == {st.peers[s].room : s \in rest}
           t == DetachAll(st, S, reason)
<1>1. t = Broadcast(v, R)
  BY DEF DetachAll
<1>2. /\ DOMAIN All(led, reason) = led /\ \A r \in led : All(led, reason)[r] = reason
      /\ DOMAIN All(rest, reason) = rest /\ \A s \in rest : All(rest, reason)[s] = reason
  BY DEF All
<1>3. \A r \in led : r \in DOMAIN st.rooms
  BY DEF Monitor, Shape
<1>4. \A s \in rest : st.peers[s].role = "viewer"
  BY DEF Monitor, Shape, Roles
<1>5. /\ led \cap {st.peers[s].room : s \in rest} = {}
      /\ \A s \in S : s \in rest \/ st.peers[s].room \in led
      /\ rest \subseteq DOMAIN st.peers
  OBVIOUS
<1> HIDE DEF led, rest, R, t
<1>6. /\ Monitor(u) /\ Shrinks(st, u)
      /\ DOMAIN u.peers = {s \in DOMAIN st.peers : st.peers[s].room \notin led}
  BY <1>2, <1>3, SessionsEnd
<1> HIDE DEF u
<1>7. \A s \in rest : ViewerOf(u, s)
  BY <1>4, <1>5, <1>6 DEF ViewerOf, Shrinks
<1>8. Monitor(v) /\ Shrinks(u, v) /\ DOMAIN v.peers = DOMAIN u.peers \ rest
  BY <1>2, <1>6, <1>7, ViewersLeave
<1> HIDE DEF v
<1>9. ChannelsFit(v, R)
  BY <1>8 DEF Monitor, ChannelsFit
<1>10. Monitor(t) /\ Shrinks(v, t) /\ t.peers = v.peers
  BY <1>1, <1>8, <1>9, BroadcastFits DEF Monitor
<1>11. Shrinks(st, t)
  BY <1>6, <1>8, <1>10, ShrinksOn DEF Monitor
<1>12. DOMAIN t.peers \cap S = {}
  BY <1>5, <1>6, <1>8, <1>10
<1> QED
  BY <1>10, <1>11, <1>12 DEF t

(* After a sweep nothing is overdue.                                       *)
LEMMA Swept ==
  ASSUME NEW st, Monitor(st)
  PROVE  LET t == Sweep(st)
         IN  /\ Monitor(t) /\ Shrinks(st, t)
             /\ \A r \in DOMAIN t.rooms : t.rooms[r].idle > 0
             /\ \A s \in DOMAIN t.peers : t.peers[s].left > 0
<1> DEFINE idle == {r \in DOMAIN st.rooms : st.rooms[r].idle = 0}
           absent == {r \in DOMAIN st.rooms : ~ st.rooms[r].online /\ st.rooms[r].pending = 0}
           why == [r \in idle \cup absent |-> IF r \in idle THEN "idle_timeout" ELSE "host_absent"]
           u == End(st, why)
           S == {s \in DOMAIN st.peers : st.peers[s].left = 0 /\ st.peers[s].room \notin DOMAIN why}
           t == Sweep(st)
<1>1. t = DetachAll(u, S, "token_expired")
  BY DEF Sweep
<1>2. \A r \in DOMAIN why : r \in DOMAIN st.rooms /\ why[r] \in Reasons
  BY DEF Reasons
<1>3. \A r \in DOMAIN st.rooms \ DOMAIN why : st.rooms[r].idle > 0
  BY TicksAssumption DEF Monitor, Shape, Room
<1> HIDE DEF why, t
<1>4. /\ Monitor(u) /\ Shrinks(st, u)
      /\ DOMAIN u.rooms = DOMAIN st.rooms \ DOMAIN why
      /\ DOMAIN u.peers = {s \in DOMAIN st.peers : st.peers[s].room \notin DOMAIN why}
  BY <1>2, SessionsEnd
<1> HIDE DEF u
<1>5. S \subseteq DOMAIN u.peers /\ "token_expired" \in Reasons
  BY <1>4 DEF Reasons
<1>6. \A s \in DOMAIN u.peers \ S : u.peers[s].left > 0
  BY <1>4, TicksAssumption DEF Monitor, Shape, Shrinks
<1> HIDE DEF S
<1>7. Monitor(t) /\ Shrinks(u, t) /\ DOMAIN t.peers \cap S = {}
  BY <1>1, <1>4, <1>5, Detached
<1>8. Shrinks(st, t)
  BY <1>4, <1>7, ShrinksOn DEF Monitor
<1>9. \A r \in DOMAIN t.rooms : t.rooms[r].idle > 0
  BY <1>3, <1>4, <1>7 DEF Shrinks
<1>10. \A s \in DOMAIN t.peers : t.peers[s].left > 0
  BY <1>6, <1>7 DEF Shrinks
<1> QED
  BY <1>7, <1>8, <1>9, <1>10 DEF t

-----------------------------------------------------------------------------
(* The sockets, beside the operators.                                      *)

(* A state event is one.                                                   *)
LEMMA StateEvents ==
  ASSUME NEW st, Shape(st), NEW s \in DOMAIN st.peers
  PROVE  StateEvent(st, s) \in Events /\ IsState(StateEvent(st, s))
<1>1. StateEvent(st, s) \in Events
  BY DEF Shape, StateEvent, Events, Room
<1>2. StateEvent(st, s).type = "session-state"
  BY DEF StateEvent
<1> QED
  BY <1>1, <1>2, ChannelsAssumption DEF IsState

(* Whatever shrinks leaves every seat as it should be.                     *)
LEMMA SeatsShrink ==
  ASSUME NEW st, NEW t, Served(st, {}), Monitor(t), Shrinks(st, t) PROVE Served(t, {})
<1> SUFFICES ASSUME NEW s \in Sockets PROVE Seat(t, s, {})
  BY DEF Served, Monitor
<1>1. Seat(st, s, {})
  BY DEF Served
<1>2. s \in DOMAIN t.peers => IsState(StateEvent(t, s))
  BY StateEvents DEF Monitor
<1>3. phase[s] \in {"gone", "anonymous"} => t.ended[s] = None
  BY <1>1 DEF Seat, Shrinks
<1>4. ViewerOf(t, s) => ViewerOf(st, s)
  BY DEF ViewerOf, Shrinks
<1>5. ViewerOf(t, s) => Offered(t, s)
  <2> SUFFICES ASSUME ViewerOf(t, s) PROVE Offered(t, s)
    OBVIOUS
  <2>1. Offered(st, s) /\ st.peers[s] = t.peers[s] /\ s \in DOMAIN t.peers
    BY <1>1, <1>4 DEF Seat, Shrinks, ViewerOf
  <2>2. st.rooms[t.peers[s].room] = t.rooms[t.peers[s].room]
    BY <2>1 DEF Shrinks, Monitor, Shape
  <2> QED
    BY <1>2, <2>1, <2>2 DEF Offered, Shrinks
<1>6. ViewerOf(t, s) => t.rooms[t.peers[s].room] = st.rooms[st.peers[s].room]
  BY DEF Shrinks, Monitor, Shape, ViewerOf
<1> QED
  BY <1>1, <1>3, <1>4, <1>5, <1>6 DEF Seat, Shrinks

(* A broadcast brings the news that its sessions were waiting for.         *)
LEMMA SeatHears ==
  ASSUME NEW st, NEW R, Shape(st), Published(st), HostsLead(st), ChannelsFit(st, R),
         NEW s \in Sockets, Seat(st, s, R)
  PROVE  Seat(Broadcast(st, R), s, {})
<1> DEFINE t == Broadcast(st, R)
<1>1. Monitor(t) /\ t.rooms = st.rooms /\ t.peers = st.peers
  BY BroadcastFits
<1>2. /\ \A x \in DOMAIN st.peers : st.peers[x].room \in R => t.slot[x] = StateEvent(st, x)
      /\ \A x \in DOMAIN st.peers : st.peers[x].room \notin R => t.slot[x] = st.slot[x]
      /\ t.ended = st.ended
  BY DEF Broadcast, Shape
<1> HIDE DEF t
<1>3. ViewerOf(t, s) <=> ViewerOf(st, s)
  BY <1>1 DEF ViewerOf
<1>4. ViewerOf(t, s) => Offered(t, s)
  BY <1>1, <1>2, <1>3, StateEvents DEF Offered, Seat, ViewerOf
<1>5. Seat(t, s, {})
  BY <1>1, <1>2, <1>3, <1>4 DEF Seat
<1> QED
  BY <1>5 DEF t

(* A sweep serves everybody as before.                                     *)
LEMMA SeatsSwept ==
  ASSUME NEW st, Served(st, {}) PROVE Served(Sweep(st), {})
BY Swept, SeatsShrink DEF Served, Monitor

-----------------------------------------------------------------------------
(* The entries.                                                            *)

(* Requests over HTTP.                                                     *)
LEMMA RequestsServe ==
  ASSUME Served(relay, {}), NEW a \in Actors, NEW r \in Rooms,
         Create(a, r) \/ Join(a, r) \/ Renew(a, r) \/ Revoke(a, r)
  PROVE  Served(relay', {})
<1> DEFINE st == Sweep(relay)
<1>1. Served(st, {})
  BY SeatsSwept
<1>2. Monitor(st) /\ Shrinks(relay, st)
  BY Swept DEF Served, Monitor
<1>3. ASSUME NEW u, NEW role \in Roles, u = Issue(st, r, a, role), r \in DOMAIN st.rooms
      PROVE  Served(u, {})
  <2> DEFINE g == With(st.rooms[r].grants, a, Grant(role))
             room == [st.rooms[r] EXCEPT !.grants = g]
  <2>1. st.rooms[r] \in Room
    BY <1>2, <1>3 DEF Monitor, Shape
  <2>2. g \in UNION {[A -> GrantType] : A \in SUBSET Actors}
    <3>1. \E A \in SUBSET Actors : st.rooms[r].grants \in [A -> GrantType]
      BY <2>1 DEF Room
    <3>2. Grant(role) \in GrantType
      BY TicksAssumption DEF Grant, GrantType
    <3>3. g \in [DOMAIN st.rooms[r].grants \cup {a} -> GrantType]
      BY <3>1, <3>2 DEF With
    <3> QED
      BY <3>1, <3>3
  <2>3. /\ room \in Room /\ room.online = st.rooms[r].online
        /\ room.size = st.rooms[r].size /\ room.rev = st.rooms[r].rev
    <3> HIDE DEF g
    <3> QED
      BY <2>1, <2>2 DEF Room
  <2>4. /\ DOMAIN u = DOMAIN st /\ u.peers = st.peers /\ u.slot = st.slot /\ u.ended = st.ended
        /\ u.closed = st.closed /\ u.rooms = [st.rooms EXCEPT ![r] = room]
    BY <1>2, <1>3 DEF Issue, Monitor, Shape
  <2> HIDE DEF room
  <2>5. /\ DOMAIN u.rooms = DOMAIN st.rooms
        /\ \A x \in DOMAIN u.rooms : /\ u.rooms[x] \in Room /\ u.rooms[x].online = st.rooms[x].online
                                     /\ u.rooms[x].size = st.rooms[x].size
                                     /\ u.rooms[x].rev = st.rooms[x].rev
    BY <1>2, <2>3, <2>4 DEF Monitor, Shape
  <2>6. Shape(u) /\ Published(u)
    BY <1>2, <2>4, <2>5 DEF Monitor, Shape, Published
  <2>7. HostsLead(u)
    BY <1>2, <2>4, <2>5 DEF Monitor, Shape, HostsLead, Hosts, Members
  <2>8. \A s \in DOMAIN st.peers : StateEvent(u, s) = StateEvent(st, s)
    BY <1>2, <2>4, <2>5 DEF Monitor, Shape, StateEvent
  <2>9. ChannelsFit(u, {})
    BY <1>2, <2>4, <2>8 DEF Monitor, ChannelsFit, ViewerOf
  <2>10. \A s \in Sockets : Seat(u, s, {})
    BY <1>1, <1>2, <2>4, <2>5 DEF Served, Monitor, Shape, Seat, Offered, ViewerOf
  <2> QED
    BY <2>6, <2>7, <2>9, <2>10 DEF Served
<1>4. CASE Create(a, r)
  <2> DEFINE room == NewRoom(a)
             u == [st EXCEPT !.rooms = With(@, r, room)]
  <2>1. r \notin DOMAIN st.rooms /\ relay' = u
    BY <1>2, <1>4 DEF Create, Shrinks
  <2>2. room \in Room /\ room.size = 0 /\ room.rev = 0 /\ room.online = FALSE
    <3> DEFINE g == With(<<>>, a, Grant("host"))
    <3>1. Grant("host") \in GrantType
      BY TicksAssumption DEF Grant, GrantType, Roles
    <3>2. g \in [{a} -> GrantType]
      BY <3>1 DEF With
    <3>3. g \in UNION {[A -> GrantType] : A \in SUBSET Actors}
      BY <3>2
    <3> HIDE DEF g
    <3>4. room = [host |-> a, online |-> FALSE, idle |-> IdleTimeout, pending |-> HostDeadline,
                  rev |-> 0, size |-> 0, grants |-> g]
      BY DEF NewRoom, g
    <3> QED
      BY <3>3, <3>4, TicksAssumption, ChannelsAssumption DEF Room
  <2> HIDE DEF room
  <2>3. /\ DOMAIN u = DOMAIN st /\ u.peers = st.peers /\ u.slot = st.slot /\ u.ended = st.ended
        /\ u.closed = st.closed /\ DOMAIN u.rooms = DOMAIN st.rooms \cup {r}
        /\ u.rooms[r] = room /\ \A x \in DOMAIN st.rooms : u.rooms[x] = st.rooms[x]
    BY <1>2, <2>1 DEF With, Monitor, Shape
  <2> HIDE DEF u
  <2>4. Shape(u) /\ Published(u)
    BY <1>2, <2>2, <2>3 DEF Monitor, Shape, Published
  <2>5. HostsLead(u)
    BY <1>2, <2>2, <2>3 DEF Monitor, Shape, HostsLead, Hosts, Members
  <2>6. \A s \in DOMAIN st.peers : StateEvent(u, s) = StateEvent(st, s)
    BY <1>2, <2>3 DEF Monitor, Shape, StateEvent
  <2>7. ChannelsFit(u, {})
    BY <1>2, <2>3, <2>6 DEF Monitor, ChannelsFit, ViewerOf
  <2>8. \A s \in Sockets : Seat(u, s, {})
    BY <1>1, <1>2, <2>3 DEF Served, Monitor, Shape, Seat, Offered, ViewerOf
  <2> QED
    BY <2>1, <2>4, <2>5, <2>7, <2>8 DEF Served
<1>5. CASE Join(a, r)
  BY <1>3, <1>5 DEF Join, MayJoin, Roles
<1>6. CASE Renew(a, r)
  <2>1. r \in DOMAIN st.rooms /\ a \in DOMAIN st.rooms[r].grants
    BY <1>6 DEF Renew, MayRenew
  <2>2. st.rooms[r] \in Room
    BY <1>2, <2>1 DEF Monitor, Shape
  <2>3. st.rooms[r].grants[a] \in GrantType
    BY <2>1, <2>2 DEF Room
  <2>4. st.rooms[r].grants[a].role \in Roles
    BY <2>3 DEF GrantType
  <2> QED
    BY <1>3, <1>6, <2>1, <2>4 DEF Renew
<1>7. CASE Revoke(a, r)
  <2> DEFINE why == All({r}, "host_revoked")
  <2>1. \A x \in DOMAIN why : x \in DOMAIN st.rooms /\ why[x] \in Reasons
    BY <1>7 DEF All, Revoke, MayRevoke, Reasons
  <2> HIDE DEF why
  <2>2. Monitor(End(st, why)) /\ Shrinks(st, End(st, why))
    BY <1>2, <2>1, SessionsEnd
  <2> QED
    BY <1>1, <1>7, <2>2, SeatsShrink DEF Revoke, why
<1> QED
  BY <1>4, <1>5, <1>6, <1>7

(* News of a session: its host, its members and who may publish stay.      *)
LEMMA NewsServe ==
  ASSUME NEW st, Served(st, {}), NEW r \in DOMAIN st.rooms, NEW u,
         DOMAIN u = DOMAIN st, u.closed = st.closed, u.peers = st.peers, u.slot = st.slot,
         u.ended = st.ended, DOMAIN u.rooms = DOMAIN st.rooms,
         \A x \in DOMAIN st.rooms \ {r} : u.rooms[x] = st.rooms[x],
         u.rooms[r] \in Room, u.rooms[r].online = st.rooms[r].online,
         u.rooms[r].size > 0 <=> u.rooms[r].rev > 0,
         u.rooms[r].rev = 0 => st.rooms[r].rev = 0
  PROVE  Served(Broadcast(u, {r}), {})
<1>1. Shape(u) /\ Published(u)
  BY DEF Served, Shape, Published
<1>2. HostsLead(u)
  <2>1. \A x \in DOMAIN u.rooms : Hosts(u, x) = Hosts(st, x) /\ u.rooms[x].online = st.rooms[x].online
    BY DEF Hosts, Members
  <2> QED
    BY <2>1 DEF Served, Shape, HostsLead
<1>3. ChannelsFit(u, {r})
  <2>1. \A s \in DOMAIN u.peers : u.peers[s].room # r => StateEvent(u, s) = StateEvent(st, s)
    BY DEF Served, Shape, StateEvent
  <2> QED
    BY <2>1 DEF Served, ChannelsFit, ViewerOf
<1>4. \A s \in Sockets : Seat(u, s, {r})
  BY DEF Served, Shape, Seat, Offered, ViewerOf
<1>5. Monitor(Broadcast(u, {r}))
  BY <1>1, <1>2, <1>3, BroadcastFits
<1>6. \A s \in Sockets : Seat(Broadcast(u, {r}), s, {})
  BY <1>1, <1>2, <1>3, <1>4, SeatHears
<1> QED
  BY <1>5, <1>6 DEF Served, Monitor

(* A session after a publication.                                          *)
LEMMA RoomAdvances ==
  ASSUME NEW room \in Room, NEW n \in Sizes, room.rev < MaxRevision
  PROVE  /\ Advanced(room, n) \in Room /\ Advanced(room, n).online = room.online
         /\ Advanced(room, n).size > 0 /\ Advanced(room, n).rev > 0
<1>1. n \in Nat /\ n > 0 /\ room.rev \in 0..MaxRevision /\ IdleTimeout \in 0..IdleTimeout
  BY SizesAssumption, TicksAssumption DEF Room
<1>2. room.rev + 1 \in 0..MaxRevision /\ room.rev + 1 > 0
  BY <1>1, ChannelsAssumption
<1> DEFINE k == room.rev + 1
           sized == [room EXCEPT !.size = n]
           counted == [sized EXCEPT !.rev = k]
           new == [counted EXCEPT !.idle = IdleTimeout]
<1> HIDE DEF k
<1>3. sized \in Room /\ sized.online = room.online /\ sized.size = n /\ sized.rev = room.rev
  BY <1>1 DEF Room
<1> HIDE DEF sized
<1>4. k \in 0..MaxRevision
  BY <1>2 DEF k
<1>5. /\ counted \in Room /\ counted.online = room.online /\ counted.size = n
      /\ counted.rev = k
  BY <1>3, <1>4 DEF Room
<1> HIDE DEF counted
<1>6. new \in Room /\ new.online = room.online /\ new.size = n /\ new.rev = k
  BY <1>1, <1>5 DEF Room
<1>7. new.size > 0 /\ new.rev > 0
  BY <1>1, <1>2, <1>6 DEF k
<1>8. new = Advanced(room, n)
  BY DEF new, counted, sized, k, Advanced
<1> HIDE DEF new
<1> QED
  BY <1>6, <1>7, <1>8

(* A publication is news for its session.                                  *)
LEMMA PublicationServes ==
  ASSUME NEW st, Served(st, {}), NEW r \in DOMAIN st.rooms, NEW n \in Sizes, NEW bytes,
         st.rooms[r].rev < MaxRevision
  PROVE  LET u == [st EXCEPT !.bytes = bytes,
                             !.rooms[r] = Advanced(@, n)]
         IN  Served(Broadcast(u, {r}), {})
<1> DEFINE room == Advanced(st.rooms[r], n)
           u == [st EXCEPT !.bytes = bytes, !.rooms[r] = room]
<1>1. st.rooms[r] \in Room
  BY DEF Served, Shape
<1>2. room \in Room /\ room.online = st.rooms[r].online /\ room.size > 0 /\ room.rev > 0
  BY <1>1, RoomAdvances
<1> HIDE DEF room
<1>3. /\ DOMAIN u = DOMAIN st /\ u.peers = st.peers /\ u.slot = st.slot /\ u.ended = st.ended
      /\ u.closed = st.closed /\ DOMAIN u.rooms = DOMAIN st.rooms
      /\ \A x \in DOMAIN st.rooms \ {r} : u.rooms[x] = st.rooms[x]
  BY DEF Served, Shape
<1>4. u.rooms[r] = room
  BY <1>1 DEF Served, Shape
<1> HIDE DEF u
<1>5. Served(Broadcast(u, {r}), {})
  BY <1>2, <1>3, <1>4, NewsServe
<1> QED
  BY <1>5, Zenon DEF u, room

(* Frames of an admitted client.                                           *)
LEMMA FramesServe ==
  ASSUME Served(relay, {}), NEW s \in Sockets,
         Reauthenticate(s) \/ (\E n \in Sizes : Publish(s, n)) \/ Activity(s) \/ Presence(s)
  PROVE  Served(relay', {})
<1> DEFINE st == Sweep(relay)
           r == st.peers[s].room
<1>1. Served(st, {})
  BY SeatsSwept
<1>2. s \in DOMAIN st.peers
  <2>1. ASSUME NEW n \in Sizes, Publish(s, n) PROVE s \in DOMAIN st.peers
    BY <2>1, Zenon DEF Publish
  <2>2. CASE Activity(s)
    BY <2>2 DEF Activity
  <2> QED
    BY <2>1, <2>2 DEF Reauthenticate, Presence
<1>3. /\ st.peers[s] \in [room : DOMAIN st.rooms, actor : Actors, role : Roles, left : 0..TokenTTL]
      /\ r \in DOMAIN st.rooms /\ st.rooms[r] \in Room
  BY <1>1, <1>2 DEF Served, Shape
<1>4. ASSUME NEW n \in Sizes, Publish(s, n) PROVE Served(relay', {})
  <2> DEFINE bytes == st.bytes - st.rooms[r].size + n
             u == [st EXCEPT !.bytes = bytes, !.rooms[r] = Advanced(@, n)]
  <2>1. relay' = Broadcast(u, {r}) /\ st.rooms[r].rev < MaxRevision
    BY <1>4, Zenon DEF Publish
  <2>2. Served(Broadcast(u, {r}), {})
    BY <1>1, <1>3, <2>1, PublicationServes, Zenon
  <2> QED
    BY <2>1, <2>2, Zenon
<1>5. CASE Activity(s)
  <2> DEFINE room == [st.rooms[r] EXCEPT !.idle = IdleTimeout]
             u == [st EXCEPT !.rooms[r].idle = IdleTimeout]
  <2>1. relay' = Broadcast(u, {r})
    BY <1>5 DEF Activity
  <2>2. /\ room \in Room /\ room.online = st.rooms[r].online /\ room.size = st.rooms[r].size
        /\ room.rev = st.rooms[r].rev
    BY <1>3, TicksAssumption DEF Room
  <2>3. /\ DOMAIN u = DOMAIN st /\ u.peers = st.peers /\ u.slot = st.slot /\ u.ended = st.ended
        /\ u.closed = st.closed /\ u.rooms = [st.rooms EXCEPT ![r] = room]
    BY <1>1 DEF Served, Shape
  <2>4. st.rooms[r].size > 0 <=> st.rooms[r].rev > 0
    BY <1>1, <1>3 DEF Served, Published
  <2> HIDE DEF u, room, r
  <2> QED
    BY <1>1, <1>3, <2>1, <2>2, <2>3, <2>4, NewsServe
<1>6. CASE Reauthenticate(s)
  <2> DEFINE g == st.rooms[r].grants[st.peers[s].actor]
             peer == [st.peers[s] EXCEPT !.left = g.left]
             u == [st EXCEPT !.peers[s].left = g.left]
  <2>1. relay' = u /\ g.left \in 0..TokenTTL
    <3>1. st.peers[s].actor \in DOMAIN st.rooms[r].grants
      BY <1>6 DEF Reauthenticate, Admitted
    <3>2. g \in GrantType
      BY <1>3, <3>1 DEF Room
    <3> QED
      BY <1>6, <3>2 DEF Reauthenticate, GrantType
  <2> HIDE DEF g
  <2>2. /\ peer \in [room : DOMAIN st.rooms, actor : Actors, role : Roles, left : 0..TokenTTL]
        /\ peer.room = st.peers[s].room /\ peer.role = st.peers[s].role
    BY <1>3, <2>1
  <2>3. /\ DOMAIN u = DOMAIN st /\ u.rooms = st.rooms /\ u.slot = st.slot /\ u.ended = st.ended
        /\ u.closed = st.closed /\ u.peers = [st.peers EXCEPT ![s] = peer]
    BY <1>1 DEF Served, Shape
  <2> HIDE DEF u, peer
  <2>4. /\ DOMAIN u.peers = DOMAIN st.peers
        /\ \A x \in DOMAIN st.peers :
             /\ u.peers[x] \in [room : DOMAIN st.rooms, actor : Actors, role : Roles, left : 0..TokenTTL]
             /\ u.peers[x].room = st.peers[x].room /\ u.peers[x].role = st.peers[x].role
    BY <1>1, <2>2, <2>3 DEF Served, Shape
  <2>5. Shape(u) /\ Published(u)
    BY <1>1, <2>3, <2>4 DEF Served, Shape, Published
  <2>6. HostsLead(u)
    <3>1. \A x \in DOMAIN u.rooms : Hosts(u, x) = Hosts(st, x)
      BY <2>3, <2>4 DEF Hosts, Members
    <3> QED
      BY <1>1, <2>3, <2>4, <3>1 DEF Served, HostsLead
  <2>7. \A x \in DOMAIN st.peers : StateEvent(u, x) = StateEvent(st, x)
    BY <2>3, <2>4 DEF StateEvent
  <2>8. ChannelsFit(u, {})
    BY <1>1, <2>3, <2>4, <2>7 DEF Served, ChannelsFit, ViewerOf
  <2>9. \A x \in Sockets : Seat(u, x, {})
    BY <1>1, <2>3, <2>4 DEF Served, Seat, Offered, ViewerOf
  <2> QED
    BY <2>1, <2>5, <2>6, <2>8, <2>9 DEF Served
<1>7. CASE Presence(s)
  <2> DEFINE others == Members(st, r) \ {s}
             e == [type |-> "presence", rev |-> 0, snapshot |-> FALSE]
             u == [st EXCEPT !.slot = [x \in Sockets |-> IF x \in others /\ @[x] = None
                                                         THEN e ELSE @[x]]]
  <2>1. relay' = u
    BY <1>7 DEF Presence
  <2>2. e \in Offers /\ ~ IsState(e)
    BY ChannelsAssumption DEF Offers, Events, IsState
  <2> HIDE DEF e
  <2>3. others \subseteq DOMAIN st.peers
    BY DEF Members
  <2> HIDE DEF others
  <2>4. /\ DOMAIN u = DOMAIN st /\ u.rooms = st.rooms /\ u.peers = st.peers /\ u.ended = st.ended
        /\ u.closed = st.closed
        /\ u.slot = [x \in Sockets |-> IF x \in others /\ st.slot[x] = None THEN e ELSE st.slot[x]]
    BY <1>1 DEF Served, Shape
  <2> HIDE DEF u
  <2>5. Shape(u) /\ Published(u)
    BY <1>1, <2>2, <2>4 DEF Served, Shape, Published
  <2>6. HostsLead(u)
    BY <1>1, <2>4 DEF Served, HostsLead, Hosts, Members
  <2>7. \A x \in DOMAIN st.peers : StateEvent(u, x) = StateEvent(st, x)
    BY <2>4 DEF StateEvent
  <2>8. \A x \in Sockets : IsState(u.slot[x]) => u.slot[x] = st.slot[x]
    BY <2>2, <2>4
  <2>9. ChannelsFit(u, {})
    BY <1>1, <2>3, <2>4, <2>7, <2>8 DEF Served, Shape, ChannelsFit, ViewerOf
  <2>10. \A x \in Sockets : IsState(st.slot[x]) => u.slot[x] = st.slot[x]
    BY <2>4 DEF IsState
  <2>11. \A x \in Sockets : Seat(u, x, {})
    BY <1>1, <2>4, <2>8, <2>10 DEF Served, Seat, Offered, ViewerOf
  <2> QED
    BY <2>1, <2>5, <2>6, <2>9, <2>11 DEF Served
<1> QED
  BY <1>4, <1>5, <1>6, <1>7

(* A socket that takes a seat leads the session or joins one that is led.  *)
LEMMA SeatTaken ==
  ASSUME NEW st, Served(st, {}), NEW s \in Sockets, s \notin DOMAIN st.peers,
         st.ended[s] = None, NEW r \in DOMAIN st.rooms,
         NEW peer \in [room : DOMAIN st.rooms, actor : Actors, role : Roles, left : 0..TokenTTL],
         peer.room = r, peer.role = "viewer" <=> st.rooms[r].online, NEW v,
         v = TakeSeat(st, s, peer)
  PROVE  /\ Shape(v) /\ Published(v) /\ HostsLead(v) /\ ChannelsFit(v, {r})
         /\ \A x \in Sockets \ {s} : Seat(v, x, {r})
         /\ v.peers[s] = peer /\ s \in DOMAIN v.peers /\ v.ended = st.ended
<1> DEFINE room == [st.rooms[r] EXCEPT !.online = TRUE]
<1>1. st.rooms[r] \in Room
  BY DEF Served, Shape
<1>2. /\ room \in Room /\ room.online = TRUE /\ room.size = st.rooms[r].size
      /\ room.rev = st.rooms[r].rev
  BY <1>1 DEF Room
<1>3. (st.rooms[r].online \/ peer.role = "host") = TRUE
  BY <1>1 DEF Room, Roles
<1>4. v = [st EXCEPT !.peers = With(@, s, peer), !.rooms[r].online = TRUE]
  BY <1>3 DEF TakeSeat
<1>5. /\ DOMAIN v = DOMAIN st /\ v.closed = st.closed /\ v.slot = st.slot /\ v.ended = st.ended
      /\ v.peers = With(st.peers, s, peer) /\ v.rooms = [st.rooms EXCEPT ![r] = room]
  BY <1>4 DEF Served, Shape
<1> HIDE DEF room
<1>6. /\ DOMAIN v.peers = DOMAIN st.peers \cup {s} /\ v.peers[s] = peer
      /\ \A x \in DOMAIN st.peers : v.peers[x] = st.peers[x]
  BY <1>5 DEF With
<1>7. /\ DOMAIN v.rooms = DOMAIN st.rooms
      /\ \A x \in DOMAIN st.rooms : /\ v.rooms[x] \in Room
                                    /\ v.rooms[x].size = st.rooms[x].size
                                    /\ v.rooms[x].rev = st.rooms[x].rev
                                    /\ x # r => v.rooms[x] = st.rooms[x]
      /\ v.rooms[r].online
  BY <1>2, <1>5 DEF Served, Shape
<1>8. Shape(v) /\ Published(v)
  BY <1>5, <1>6, <1>7 DEF Served, Shape, Published
<1>9. HostsLead(v)
  <2>1. \A x \in DOMAIN st.rooms \ {r} : Hosts(v, x) = Hosts(st, x)
    BY <1>6 DEF Hosts, Members
  <2>2. Hosts(v, r) # {}
    <3>1. CASE peer.role = "host"
      BY <1>6, <3>1 DEF Hosts, Members
    <3>2. CASE peer.role # "host"
      <4>1. Hosts(st, r) # {}
        BY <3>2 DEF Served, HostsLead, Roles
      <4> QED
        BY <1>6, <4>1 DEF Hosts, Members
    <3> QED
      BY <3>1, <3>2
  <2>3. \A x \in DOMAIN v.peers : v.rooms[v.peers[x].room].online
    BY <1>6, <1>7 DEF Served, Shape, HostsLead
  <2>4. peer.role = "host" => \A x \in DOMAIN st.peers : st.peers[x].room # r
    BY DEF Served, HostsLead
  <2>5. \A x, y \in DOMAIN v.peers :
          v.peers[x].room = v.peers[y].room /\ v.peers[x].role = "host" /\ v.peers[y].role = "host"
            => x = y
    BY <1>6, <2>4 DEF Served, HostsLead
  <2> QED
    BY <1>7, <2>1, <2>2, <2>3, <2>5 DEF Served, HostsLead
<1>10. ChannelsFit(v, {r})
  <2>1. \A x \in DOMAIN st.peers : st.peers[x].room # r => StateEvent(v, x) = StateEvent(st, x)
    BY <1>6, <1>7 DEF Served, Shape, StateEvent
  <2> QED
    BY <1>5, <1>6, <2>1 DEF Served, ChannelsFit, ViewerOf
<1>11. ASSUME NEW x \in Sockets \ {s} PROVE Seat(v, x, {r})
  BY <1>5, <1>6, <1>7 DEF Served, Shape, Seat, Offered, ViewerOf
<1> QED
  BY <1>5, <1>6, <1>8, <1>9, <1>10, <1>11

(* A socket is attached.                                                   *)
LEMMA AttachServes ==
  ASSUME SocketTypes, Served(relay, {}), NEW s \in Sockets, NEW a \in Actors, NEW r \in Rooms,
         Attach(s, a, r)
  PROVE  Served(relay, {})'
<1> DEFINE st == Sweep(relay)
           role == st.rooms[r].grants[a].role
           peer == [room |-> r, actor |-> a, role |-> role, left |-> st.rooms[r].grants[a].left]
           v == TakeSeat(st, s, peer)
<1>1. /\ phase[s] = "anonymous" /\ phase' = [phase EXCEPT ![s] = "attached"]
      /\ UNCHANGED <<writer, held, sent, shown>>
      /\ Admitted(st, r, a) /\ (role = "viewer") = st.rooms[r].online
      /\ relay' = Broadcast(v, {r})
  BY Zenon DEF Attach
<1>2. Served(st, {}) /\ Shrinks(relay, st)
  BY Swept, SeatsSwept DEF Served, Monitor
<1>3. s \notin DOMAIN st.peers /\ st.ended[s] = None
  BY <1>1, <1>2 DEF Served, Seat
<1>4. r \in DOMAIN st.rooms /\ st.rooms[r].grants[a] \in GrantType
  BY <1>1, <1>2 DEF Served, Shape, Admitted, Room
<1>5. peer \in [room : DOMAIN st.rooms, actor : Actors, role : Roles, left : 0..TokenTTL]
  BY <1>4 DEF GrantType
<1>6. peer.room = r /\ (peer.role = "viewer" <=> st.rooms[r].online)
  BY <1>1
<1>7. v = TakeSeat(st, s, peer)
  OBVIOUS
<1> HIDE DEF st, peer, v
<1>8. /\ Shape(v) /\ Published(v) /\ HostsLead(v) /\ ChannelsFit(v, {r})
      /\ \A x \in Sockets \ {s} : Seat(v, x, {r})
      /\ v.peers[s] = peer /\ s \in DOMAIN v.peers /\ v.ended = st.ended
  BY <1>2, <1>3, <1>4, <1>5, <1>6, <1>7, SeatTaken
<1>9. Monitor(relay') /\ relay'.peers = v.peers
  BY <1>1, <1>8, BroadcastFits
<1>10. \A x \in Sockets \ {s} : Seat(relay', x, {})
  BY <1>1, <1>8, SeatHears
<1>11. \A x \in Sockets \ {s} : Seat(relay, x, {})'
  BY <1>1, <1>10 DEF Seat, Writes, Offered, SocketTypes
<1>12. Seat(relay, s, {})'
  <2>1. writer[s] = "exited" /\ sent[s] = 0 /\ shown[s] = 0
    BY <1>1 DEF Served, Seat
  <2>2. relay'.slot[s] = StateEvent(v, s) /\ IsState(StateEvent(v, s))
    <3>1. relay'.slot[s] = StateEvent(v, s)
      BY <1>1, <1>5, <1>6, <1>8 DEF Broadcast, Shape
    <3> QED
      BY <1>8, <3>1, StateEvents
  <2> QED
    BY <1>1, <2>1, <2>2 DEF Seat, Writes, Offered, SocketTypes
<1> QED
  BY <1>9, <1>11, <1>12 DEF Served, Monitor

(* A reader or a writer moves, while the monitor sweeps or rests.          *)
LEMMA MovesServe ==
  ASSUME SocketTypes, Served(relay, {}), NEW s \in Sockets,
         \/ Connect(s) \/ Reject(s) \/ Admit(s) \/ Refuse(s) \/ LoseConnection(s) \/ ReadFails(s)
         \/ ReadTimesOut(s) \/ HangUp(s) \/ WriteEvent(s) \/ WriterDone(s)
  PROVE  Served(relay, {})'
<1>1. relay' = relay \/ relay' = Sweep(relay)
  BY DEF Connect, Reject, Admit, Refuse, LoseConnection, ReadFails, ReadTimesOut, HangUp,
         WriteEvent, WriterDone
<1>2. Served(relay', {}) /\ Shrinks(relay, relay')
  <2>1. Shrinks(relay, relay)
    BY DEF Shrinks
  <2>2. Served(relay', {}) /\ Shrinks(relay, Sweep(relay))
    BY <1>1, Swept, SeatsSwept DEF Served, Monitor
  <2> QED
    BY <1>1, <2>1, <2>2
<1>3. ASSUME NEW x \in Sockets, phase'[x] = phase[x], writer'[x] = writer[x], held'[x] = held[x],
             sent'[x] = sent[x], shown'[x] = shown[x]
      PROVE  Seat(relay, x, {})'
  BY <1>2, <1>3 DEF Served, Seat, Writes, Offered
<1>4. Seat(relay, s, {}) /\ Seat(relay', s, {})
  BY <1>2 DEF Served
<1>5. ASSUME NEW x \in Sockets \ {s} PROVE Seat(relay, x, {})'
  <2>1. UNCHANGED <<phase[x], writer[x], held[x], sent[x], shown[x]>>
    BY DEF SocketTypes, Connect, Reject, Admit, Refuse, LoseConnection, ReadFails, ReadTimesOut,
           HangUp, WriteEvent, WriterDone
  <2> QED
    BY <1>3, <2>1
<1>6. Seat(relay, s, {})'
  <2>1. CASE Connect(s)
    BY <1>2, <1>4, <2>1 DEF Connect, Seat, Writes, Offered, SocketTypes
  <2>2. CASE Reject(s)
    BY <1>2, <1>4, <2>2 DEF Reject, Seat, Writes, Offered, SocketTypes, Shrinks
  <2>3. CASE Admit(s)
    BY <1>2, <1>4, <2>3 DEF Admit, Seat, Writes, Offered, SocketTypes
  <2>4. CASE Refuse(s)
    BY <1>2, <1>4, <2>4 DEF Refuse, Reads, Seat, Writes, Offered, SocketTypes
  <2>5. CASE LoseConnection(s)
    BY <1>3, <2>5 DEF LoseConnection
  <2>6. CASE ReadFails(s) \/ ReadTimesOut(s)
    BY <1>2, <1>4, <2>6 DEF ReadFails, ReadTimesOut, Seat, Writes, Offered, SocketTypes
  <2>7. CASE HangUp(s)
    BY <1>2, <1>4, <2>7 DEF HangUp, Seat, Writes, Offered, SocketTypes
  <2>8. CASE WriteEvent(s)
    <3>1. relay' = relay /\ UNCHANGED <<phase, sent>> /\ held[s] \in Events
      BY <1>4, <2>8 DEF WriteEvent, Seat
    <3>2. writer'[s] \in {"waiting", "exited"}
      BY <2>8 DEF WriteEvent, SocketTypes
    <3>3. writer'[s] = "waiting" =>
            shown'[s] = IF held[s].snapshot THEN held[s].rev ELSE shown[s]
      BY <2>8 DEF WriteEvent, SocketTypes
    <3>4. writer[s] = "holding"
      BY <2>8 DEF WriteEvent
    <3> QED
      BY <1>4, <3>1, <3>2, <3>3, <3>4 DEF Seat, Writes, Offered, ViewerOf
  <2>9. CASE WriterDone(s)
    BY <1>2, <1>4, <2>9 DEF WriterDone, Seat, Writes, Offered, SocketTypes
  <2> QED
    BY <2>1, <2>2, <2>3, <2>4, <2>5, <2>6, <2>7, <2>8, <2>9
<1> QED
  BY <1>2, <1>5, <1>6 DEF Served

(* A reader leaves, and a writer takes what its channels hold.             *)
LEMMA ChannelsServe ==
  ASSUME SocketTypes, Served(relay, {}), NEW s \in Sockets,
         Detach(s) \/ Finish(s) \/ TakeEvent(s) \/ TellReason(s)
  PROVE  Served(relay, {})'
<1>1. Seat(relay, s, {}) /\ Monitor(relay)
  BY DEF Served, Monitor
<1>2. ASSUME NEW slot, NEW ended, NEW u, DOMAIN u = DOMAIN relay, u.closed = relay.closed,
             u.rooms = relay.rooms, u.peers = relay.peers, u.slot = slot, u.ended = ended,
             slot \in [Sockets -> Offers \cup {None}], ended \in [Sockets -> Reasons \cup {None}],
             ended[s] \in {relay.ended[s], None}, slot[s] \in {relay.slot[s], None},
             \A x \in Sockets \ {s} : slot[x] = relay.slot[x] /\ ended[x] = relay.ended[x]
      PROVE  Monitor(u) /\ \A x \in Sockets \ {s} : Seat(u, x, {})
  <2>1. /\ DOMAIN u = DOMAIN relay /\ u.peers = relay.peers /\ u.rooms = relay.rooms
        /\ u.closed = relay.closed /\ u.slot = slot /\ u.ended = ended
    BY <1>2
  <2>2. Shape(u) /\ Published(u) /\ HostsLead(u)
    BY <1>1, <1>2, <2>1 DEF Monitor, Shape, Published, HostsLead, Hosts, Members
  <2>3. \A x \in DOMAIN relay.peers : StateEvent(u, x) = StateEvent(relay, x)
    BY <2>1 DEF StateEvent
  <2>4. ChannelsFit(u, {})
    BY <1>1, <1>2, <2>1, <2>3 DEF Monitor, ChannelsFit, ViewerOf, IsState, Shape
  <2>5. \A x \in Sockets \ {s} : Seat(u, x, {})
    BY <1>2, <2>1 DEF Served, Seat, ViewerOf, Offered
  <2> QED
    BY <2>1, <2>2, <2>4, <2>5 DEF Monitor
<1>3. CASE Detach(s)
  <2>1. Monitor(relay') /\ Shrinks(relay, relay') /\ s \notin DOMAIN relay'.peers
    <3>1. CASE s \in DOMAIN relay.peers
      <4>1. "host_disconnected" \in Reasons /\ {s} \subseteq DOMAIN relay.peers
        BY <3>1 DEF Reasons
      <4> DEFINE t == DetachAll(relay, {s}, "host_disconnected")
      <4>2. Monitor(t) /\ Shrinks(relay, t) /\ DOMAIN t.peers \cap {s} = {}
        BY <1>1, <4>1, Detached
      <4>3. relay' = t
        BY <1>3, <3>1 DEF Detach
      <4> HIDE DEF t
      <4> QED
        BY <4>2, <4>3
    <3>2. CASE s \notin DOMAIN relay.peers
      BY <1>1, <1>3, <3>2 DEF Detach, Shrinks
    <3> QED
      BY <3>1, <3>2
  <2>2. Served(relay', {})
    BY <2>1, SeatsShrink
  <2>3. /\ phase[s] = "detaching" /\ phase'[s] = "closing"
        /\ \A x \in Sockets \ {s} : UNCHANGED phase[x]
        /\ UNCHANGED <<writer, held, sent, shown>>
    BY <1>3 DEF Detach, SocketTypes
  <2>4. \A x \in Sockets \ {s} : Seat(relay, x, {})'
    BY <2>2, <2>3 DEF Served, Seat, Writes, Offered, ViewerOf
  <2>5. Seat(relay, s, {})'
    <3>1. Seat(relay', s, {})
      BY <2>2 DEF Served
    <3> QED
      BY <2>1, <2>3, <3>1 DEF Seat, ViewerOf
  <2> QED
    BY <2>1, <2>4, <2>5 DEF Served, Monitor
<1>4. CASE Finish(s)
  <2> DEFINE slot == [relay.slot EXCEPT ![s] = None]
             ended == [relay.ended EXCEPT ![s] = None]
  <2>1. /\ DOMAIN relay' = DOMAIN relay /\ relay'.closed = relay.closed
        /\ relay'.rooms = relay.rooms /\ relay'.peers = relay.peers
        /\ relay'.slot = slot /\ relay'.ended = ended
    BY <1>1, <1>4 DEF Finish, Monitor, Shape
  <2>2. /\ slot \in [Sockets -> Offers \cup {None}] /\ ended \in [Sockets -> Reasons \cup {None}]
        /\ ended[s] \in {relay.ended[s], None} /\ slot[s] \in {relay.slot[s], None}
        /\ \A x \in Sockets \ {s} : slot[x] = relay.slot[x] /\ ended[x] = relay.ended[x]
        /\ ended[s] = None
    BY <1>1 DEF Monitor, Shape
  <2> HIDE DEF slot, ended
  <2>3. Monitor(relay') /\ \A x \in Sockets \ {s} : Seat(relay', x, {})
    BY <1>2, <2>1, <2>2
  <2>4. /\ phase[s] = "done" /\ phase'[s] = "gone" /\ writer[s] = "exited"
        /\ sent'[s] = 0 /\ shown'[s] = 0 /\ UNCHANGED writer
        /\ \A x \in Sockets \ {s} : UNCHANGED <<phase[x], held[x], sent[x], shown[x]>>
    BY <1>4 DEF Finish, SocketTypes
  <2>5. \A x \in Sockets \ {s} : Seat(relay, x, {})'
    BY <2>3, <2>4 DEF Seat, Writes, Offered, ViewerOf
  <2>6. s \notin DOMAIN relay'.peers
    BY <1>1, <2>1, <2>4 DEF Seat
  <2>7. Seat(relay, s, {})'
    BY <2>1, <2>2, <2>4, <2>6 DEF Seat, ViewerOf
  <2> QED
    BY <2>3, <2>5, <2>7 DEF Served, Monitor
<1>5. CASE TellReason(s)
  <2> DEFINE ended == [relay.ended EXCEPT ![s] = None]
             slot == relay.slot
  <2>1. /\ DOMAIN relay' = DOMAIN relay /\ relay'.closed = relay.closed
        /\ relay'.rooms = relay.rooms /\ relay'.peers = relay.peers
        /\ relay'.slot = slot /\ relay'.ended = ended
    BY <1>1, <1>5 DEF TellReason, Monitor, Shape
  <2>2. /\ slot \in [Sockets -> Offers \cup {None}] /\ ended \in [Sockets -> Reasons \cup {None}]
        /\ ended[s] \in {relay.ended[s], None} /\ slot[s] \in {relay.slot[s], None}
        /\ \A x \in Sockets \ {s} : slot[x] = relay.slot[x] /\ ended[x] = relay.ended[x]
        /\ ended[s] = None
    BY <1>1 DEF Monitor, Shape
  <2> HIDE DEF slot, ended
  <2>3. Monitor(relay') /\ \A x \in Sockets \ {s} : Seat(relay', x, {})
    BY <1>2, <2>1, <2>2
  <2>4. s \notin DOMAIN relay.peers
    BY <1>1, <1>5 DEF TellReason, Monitor, ChannelsFit
  <2>5. \A x \in Sockets : Seat(relay, x, {})'
    BY <1>1, <1>5, <2>1, <2>2, <2>3, <2>4 DEF TellReason, Seat, Writes, Offered, ViewerOf, SocketTypes
  <2> QED
    BY <2>3, <2>5 DEF Served, Monitor
<1>6. CASE TakeEvent(s)
  <2> DEFINE slot == [relay.slot EXCEPT ![s] = None]
             ended == relay.ended
             e == relay.slot[s]
  <2>1. /\ DOMAIN relay' = DOMAIN relay /\ relay'.closed = relay.closed
        /\ relay'.rooms = relay.rooms /\ relay'.peers = relay.peers
        /\ relay'.slot = slot /\ relay'.ended = ended
    BY <1>1, <1>6 DEF TakeEvent, Monitor, Shape
  <2>2. /\ slot \in [Sockets -> Offers \cup {None}] /\ ended \in [Sockets -> Reasons \cup {None}]
        /\ ended[s] \in {relay.ended[s], None} /\ slot[s] \in {relay.slot[s], None}
        /\ \A x \in Sockets \ {s} : slot[x] = relay.slot[x] /\ ended[x] = relay.ended[x]
        /\ ended[s] = relay.ended[s] /\ slot[s] = None
    BY <1>1 DEF Monitor, Shape
  <2>3. e \in Events /\ (e.type = "presence" => e.snapshot = FALSE)
    BY <1>1, <1>6 DEF TakeEvent, Monitor, Shape, Offers
  <2>4. /\ held'[s] = IF e.type = "session-state" /\ e.rev = sent[s]
                      THEN [e EXCEPT !.snapshot = FALSE] ELSE e
        /\ sent'[s] = IF e.type = "session-state" THEN e.rev ELSE sent[s]
        /\ writer'[s] = "holding" /\ writer[s] = "waiting"
        /\ UNCHANGED <<phase, shown>>
        /\ \A x \in Sockets \ {s} : UNCHANGED <<held[x], sent[x], writer[x]>>
    BY <1>6 DEF TakeEvent, SocketTypes
  <2> HIDE DEF slot, ended
  <2>5. Monitor(relay') /\ \A x \in Sockets \ {s} : Seat(relay', x, {})
    BY <1>2, <2>1, <2>2
  <2>6. \A x \in Sockets \ {s} : Seat(relay, x, {})'
    BY <2>1, <2>4, <2>5 DEF Seat, Writes, Offered, ViewerOf
  <2>7. held'[s] \in Events /\ held'[s].rev = e.rev
    BY <2>3, <2>4 DEF Events
  <2>8. ViewerOf(relay, s)' => Writes(s)' /\ Offered(relay, s)'
    <3> SUFFICES ASSUME ViewerOf(relay, s) PROVE Writes(s)' /\ Offered(relay, s)'
      BY <2>1 DEF ViewerOf
    <3>1. shown[s] = sent[s] /\ Offered(relay, s)
      BY <1>1, <2>4 DEF Seat, Writes
    <3>2. ~ IsState(relay'.slot[s])
      BY <2>1, <2>2, <2>5 DEF IsState
    <3>3. CASE e.type = "session-state"
      <4>1. IsState(e)
        BY <1>6, <3>3 DEF IsState, TakeEvent
      <4>2. e = StateEvent(relay, s)
        BY <1>1, <4>1 DEF Monitor, ChannelsFit
      <4>3. /\ s \in DOMAIN relay.peers /\ relay.peers[s].room \in DOMAIN relay.rooms
            /\ relay.peers[s].role = "viewer"
        BY <1>1 DEF ViewerOf, Monitor, Shape
      <4>4. e.rev = relay.rooms[relay.peers[s].room].rev
        BY <4>2 DEF StateEvent
      <4>5. relay.rooms[relay.peers[s].room].rev > 0 => e.snapshot = TRUE
        <5> SUFFICES ASSUME relay.rooms[relay.peers[s].room].rev > 0 PROVE e.snapshot = TRUE
          OBVIOUS
        <5>1. (relay.peers[s].role = "viewer" /\ relay.rooms[relay.peers[s].room].size > 0) = TRUE
          BY <1>1, <4>3 DEF Monitor, Published
        <5>2. e.snapshot = (relay.peers[s].role = "viewer" /\ relay.rooms[relay.peers[s].room].size > 0)
          BY <4>2 DEF StateEvent
        <5> HIDE DEF e
        <5> QED
          BY <5>1, <5>2
      <4>6. sent'[s] = relay'.rooms[relay'.peers[s].room].rev
        BY <2>1, <2>4, <3>3, <4>4
      <4>7. Offered(relay, s)'
        BY <4>6 DEF Offered
      <4>8. CASE e.rev = sent[s]
        <5>1. held'[s].snapshot = FALSE
          BY <2>3, <2>4, <3>3, <4>8 DEF Events
        <5>2. shown'[s] = sent'[s]
          BY <2>4, <3>1, <3>3, <4>8
        <5> QED
          BY <2>4, <4>7, <5>1, <5>2 DEF Writes
      <4>9. CASE e.rev # sent[s]
        <5>1. held'[s] = e /\ sent'[s] = e.rev
          BY <2>4, <3>3, <4>9
        <5>2. e.snapshot = TRUE
          <6>1. sent[s] \in 0..MaxRevision /\ e.rev \in 0..MaxRevision
            BY <2>3 DEF SocketTypes, Events
          <6>2. e.rev # 0
            BY <1>1, <3>1, <4>4, <4>9 DEF Seat
          <6> QED
            BY <4>4, <4>5, <6>1, <6>2
        <5> QED
          BY <2>4, <4>7, <5>1, <5>2 DEF Writes
      <4> QED
        BY <4>8, <4>9
    <3>4. CASE e.type # "session-state"
      <4>1. sent[s] = relay.rooms[relay.peers[s].room].rev
        BY <3>1, <3>4 DEF Offered, IsState
      <4>2. held'[s] = e /\ sent'[s] = sent[s] /\ e.snapshot = FALSE
        BY <2>3, <2>4, <3>4 DEF Events
      <4> QED
        BY <2>1, <2>4, <2>5, <3>1, <3>2, <4>1, <4>2 DEF Writes, Offered
    <3> QED
      BY <3>3, <3>4
  <2>9. ViewerOf(relay, s)' => sent'[s] = relay'.rooms[relay'.peers[s].room].rev
    BY <2>1, <2>2, <2>8 DEF Offered, IsState
  <2>10. Seat(relay, s, {})'
    BY <1>1, <2>9, <2>2, <2>1, <2>4, <2>5, <2>7, <2>8 DEF Seat
  <2> QED
    BY <2>5, <2>6, <2>10 DEF Served, Monitor
<1> QED
  BY <1>3, <1>4, <1>5, <1>6

-----------------------------------------------------------------------------
(* The clock, the sweeper and the shutdown.                                *)

(* A session that ages stays the session it is.                            *)
LEMMA RoomAges ==
  ASSUME NEW room \in Room
  PROVE  /\ AgedRoom(room) \in Room /\ AgedRoom(room).online = room.online
         /\ AgedRoom(room).size = room.size /\ AgedRoom(room).rev = room.rev
         /\ room.idle = 0 => AgedRoom(room).idle = 0
<1> DEFINE g == [a \in DOMAIN room.grants |-> Aged(room.grants[a])]
           x == [room EXCEPT !.idle = Down(@)]
           y == [x EXCEPT !.pending = Down(@)]
           z == [y EXCEPT !.grants = g]
<1>1. PICK A \in SUBSET Actors : room.grants \in [A -> GrantType]
  BY DEF Room
<1>2. \A a \in A : Aged(room.grants[a]) \in GrantType
  BY <1>1, TicksAssumption DEF Aged, GrantType, Down
<1>3. g \in [A -> GrantType]
  BY <1>1, <1>2
<1>4. g \in UNION {[B -> GrantType] : B \in SUBSET Actors}
  BY <1>3
<1> HIDE DEF g
<1>5. /\ x \in Room /\ x.online = room.online /\ x.size = room.size /\ x.rev = room.rev
      /\ x.pending = room.pending
      /\ room.idle = 0 => x.idle = 0
  BY TicksAssumption DEF Room, Down
<1> HIDE DEF x
<1>6. /\ y \in Room /\ y.online = x.online /\ y.size = x.size /\ y.rev = x.rev
      /\ y.idle = x.idle
  BY <1>5, TicksAssumption DEF Room, Down
<1> HIDE DEF y
<1>7. /\ z \in Room /\ z.online = y.online /\ z.size = y.size /\ z.rev = y.rev
      /\ z.idle = y.idle
  BY <1>4, <1>6 DEF Room
<1>8. AgedRoom(room) = z
  BY DEF AgedRoom, x, y, z, g, Room
<1> HIDE DEF z
<1> QED
  BY <1>5, <1>6, <1>7, <1>8

(* So does an attached socket.                                             *)
LEMMA PeerAges ==
  ASSUME NEW R, NEW p \in [room : R, actor : Actors, role : Roles, left : 0..TokenTTL]
  PROVE  /\ Aged(p) \in [room : R, actor : Actors, role : Roles, left : 0..TokenTTL]
         /\ Aged(p).room = p.room /\ Aged(p).role = p.role
         /\ p.left = 0 => Aged(p).left = 0
BY TicksAssumption DEF Aged, Down

(* Time passes, sessions are swept and the server is closed.               *)
LEMMA HouseServes ==
  ASSUME SocketTypes, Served(relay, {}),
         Tick \/ SweepTick \/ CloseServer \/ CloseRelay \/ CloseConns
  PROVE  Served(relay, {})'
<1>1. UNCHANGED <<phase, writer, held, sent, shown>>
  BY DEF Tick, SweepTick, CloseServer, CloseRelay, CloseConns, socketVars
<1>2. Served(relay', {})
  <2>1. CASE Tick
    <3>1. /\ DOMAIN relay' = DOMAIN relay /\ relay'.closed = relay.closed
          /\ relay'.slot = relay.slot /\ relay'.ended = relay.ended
          /\ relay'.rooms = [r \in DOMAIN relay.rooms |-> AgedRoom(relay.rooms[r])]
          /\ relay'.peers = [s \in DOMAIN relay.peers |-> Aged(relay.peers[s])]
      BY <2>1 DEF Tick, Served, Shape
    <3>2. /\ DOMAIN relay'.rooms = DOMAIN relay.rooms
          /\ \A r \in DOMAIN relay.rooms : /\ relay'.rooms[r] \in Room
                                           /\ relay'.rooms[r].online = relay.rooms[r].online
                                           /\ relay'.rooms[r].size = relay.rooms[r].size
                                           /\ relay'.rooms[r].rev = relay.rooms[r].rev
      BY <3>1, RoomAges DEF Served, Shape
    <3>3. /\ DOMAIN relay'.peers = DOMAIN relay.peers
          /\ \A s \in DOMAIN relay.peers :
               /\ relay'.peers[s] \in [room : DOMAIN relay.rooms, actor : Actors, role : Roles,
                                       left : 0..TokenTTL]
               /\ relay'.peers[s].room = relay.peers[s].room
               /\ relay'.peers[s].role = relay.peers[s].role
      <4>1. DOMAIN relay'.peers = DOMAIN relay.peers
        BY <3>1
      <4>2. ASSUME NEW s \in DOMAIN relay.peers
            PROVE  /\ relay'.peers[s] \in [room : DOMAIN relay.rooms, actor : Actors, role : Roles,
                                            left : 0..TokenTTL]
                   /\ relay'.peers[s].room = relay.peers[s].room
                   /\ relay'.peers[s].role = relay.peers[s].role
        <5> DEFINE p == relay.peers[s]
                   R == DOMAIN relay.rooms
        <5>1. p \in [room : R, actor : Actors, role : Roles, left : 0..TokenTTL]
          BY DEF Served, Shape
        <5>2. relay'.peers[s] = Aged(p)
          BY <3>1
        <5> HIDE DEF p, R
        <5>3. /\ Aged(p) \in [room : R, actor : Actors, role : Roles, left : 0..TokenTTL]
              /\ Aged(p).room = p.room /\ Aged(p).role = p.role
          BY <5>1, PeerAges
        <5> QED
          BY <5>2, <5>3 DEF p, R
      <4> QED
        BY <4>1, <4>2
    <3>4. Shape(relay') /\ Published(relay')
      BY <3>1, <3>2, <3>3 DEF Served, Shape, Published
    <3>5. HostsLead(relay')
      <4>1. \A r \in DOMAIN relay.rooms : Hosts(relay', r) = Hosts(relay, r)
        BY <3>3 DEF Hosts, Members
      <4> QED
        BY <3>2, <3>3, <4>1 DEF Served, Shape, HostsLead
    <3>6. \A s \in DOMAIN relay.peers : StateEvent(relay', s) = StateEvent(relay, s)
      BY <3>2, <3>3 DEF Served, Shape, StateEvent
    <3>7. ChannelsFit(relay', {})
      BY <3>1, <3>3, <3>6 DEF Served, ChannelsFit, ViewerOf
    <3>8. \A s \in Sockets : Seat(relay', s, {})
      BY <3>1, <3>2, <3>3 DEF Served, Shape, Seat, Offered, ViewerOf
    <3> QED
      BY <3>4, <3>5, <3>7, <3>8 DEF Served
  <2>2. CASE SweepTick
    BY <2>2, SeatsSwept DEF SweepTick
  <2>3. CASE CloseServer \/ CloseConns
    BY <2>3 DEF CloseServer, CloseConns
  <2>4. CASE CloseRelay
    <3> DEFINE why == All(DOMAIN relay.rooms, "relay_stopped")
               t == End(relay, why)
    <3>1. \A r \in DOMAIN why : r \in DOMAIN relay.rooms /\ why[r] \in Reasons
      BY DEF All, Reasons
    <3>2. relay' = [t EXCEPT !.closed = TRUE]
      BY <2>4, Zenon DEF CloseRelay
    <3> HIDE DEF why
    <3>3. Monitor(t) /\ Shrinks(relay, t)
      BY <3>1, SessionsEnd DEF Served, Monitor
    <3>4. Served(t, {})
      BY <3>3, SeatsShrink
    <3> HIDE DEF t
    <3>5. DOMAIN t = {"closed", "rooms", "peers", "bytes", "slot", "ended"}
      BY <3>3 DEF Monitor, Shape
    <3>6. /\ DOMAIN relay' = DOMAIN t /\ relay'.closed = TRUE /\ relay'.rooms = t.rooms
          /\ relay'.peers = t.peers /\ relay'.slot = t.slot /\ relay'.ended = t.ended
      BY <3>2, <3>5
    <3>7. Shape(relay') /\ Published(relay') /\ HostsLead(relay')
      <4>1. Shape(relay') /\ Published(relay')
        BY <3>3, <3>6 DEF Monitor, Shape, Published
      <4>2. \A r \in DOMAIN t.rooms : Hosts(relay', r) = Hosts(t, r)
        BY <3>6 DEF Hosts, Members
      <4> QED
        BY <3>3, <3>6, <4>1, <4>2 DEF Monitor, HostsLead
    <3>8. \A s \in DOMAIN t.peers : StateEvent(relay', s) = StateEvent(t, s)
      BY <3>6 DEF StateEvent
    <3>9. ChannelsFit(relay', {})
      BY <3>3, <3>6, <3>8 DEF Monitor, ChannelsFit, ViewerOf
    <3>10. \A s \in Sockets : Seat(relay', s, {})
      BY <3>4, <3>6 DEF Served, Seat, Offered, ViewerOf
    <3> QED
      BY <3>7, <3>9, <3>10 DEF Served
  <2> QED
    BY <2>1, <2>2, <2>3, <2>4
<1> QED
  BY <1>1, <1>2 DEF Served, Seat, Writes, Offered

(* Sockets keep their types.                                               *)
LEMMA SocketTypesStep ==
  ASSUME SocketTypes, Served(relay, {}), [Next]_vars PROVE SocketTypes'
<1> USE DEF SocketTypes, serverVars, socketVars
<1>1. CASE UNCHANGED vars
  BY <1>1 DEF vars
<1>2. ASSUME NEW a \in Actors, NEW r \in Rooms,
             Create(a, r) \/ Join(a, r) \/ Renew(a, r) \/ Revoke(a, r)
      PROVE  SocketTypes'
  BY <1>2 DEF Create, Join, Renew, Revoke
<1>3. ASSUME NEW s \in Sockets, \/ Connect(s) \/ Reject(s) \/ Admit(s)
                                \/ \E a \in Actors, r \in Rooms : Attach(s, a, r)
      PROVE  SocketTypes'
  BY <1>3 DEF Connect, Reject, Admit, Attach
<1>4. ASSUME NEW s \in Sockets, Reauthenticate(s) \/ Activity(s) \/ Presence(s) \/ Refuse(s)
      PROVE  SocketTypes'
  BY <1>4 DEF Reauthenticate, Activity, Presence, Refuse
<1>5. ASSUME NEW s \in Sockets, NEW n \in Sizes, Publish(s, n) PROVE SocketTypes'
  BY <1>5 DEF Publish
<1>6. ASSUME NEW s \in Sockets, LoseConnection(s) \/ ReadTimesOut(s) \/ Leave(s) PROVE SocketTypes'
  <2>1. CASE LoseConnection(s) \/ ReadTimesOut(s) \/ ReadFails(s) \/ HangUp(s)
    BY <2>1 DEF LoseConnection, ReadTimesOut, ReadFails, HangUp
  <2>2. CASE Detach(s)
    BY <2>2 DEF Detach
  <2>3. CASE Finish(s)
    BY <2>3, ChannelsAssumption DEF Finish
  <2> QED
    BY <1>6, <2>1, <2>2, <2>3 DEF Leave
<1>7. ASSUME NEW s \in Sockets, TakeEvent(s) PROVE SocketTypes'
  <2> DEFINE e == relay.slot[s]
  <2>1. e \in Events
    BY <1>7 DEF TakeEvent, Served, Shape, Offers
  <2>2. e.rev \in 0..MaxRevision /\ [e EXCEPT !.snapshot = FALSE] \in Events
    BY <2>1 DEF Events
  <2> HIDE DEF e
  <2>3. held' \in [Sockets -> Events \cup {None}] /\ sent' \in [Sockets -> 0..MaxRevision]
    BY <1>7, <2>1, <2>2 DEF TakeEvent, e
  <2> QED
    BY <1>7, <2>3 DEF TakeEvent
<1>8. ASSUME NEW s \in Sockets, WriteEvent(s) PROVE SocketTypes'
  <2>1. held[s] \in Events
    BY <1>8 DEF WriteEvent, Served, Seat
  <2>2. held[s].rev \in 0..MaxRevision
    BY <2>1 DEF Events
  <2> QED
    BY <1>8, <2>2 DEF WriteEvent
<1>9. ASSUME NEW s \in Sockets, TellReason(s) \/ WriterDone(s) PROVE SocketTypes'
  BY <1>9 DEF TellReason, WriterDone
<1>10. CASE Tick \/ SweepTick \/ CloseServer \/ CloseRelay \/ CloseConns
  BY <1>10 DEF Tick, SweepTick, CloseServer, CloseRelay, CloseConns
<1> QED
  BY <1>1, <1>2, <1>3, <1>4, <1>5, <1>6, <1>7, <1>8, <1>9, <1>10
     DEF Next, Request, Socket, Frame, Leave, Write

-----------------------------------------------------------------------------
(* The theorems.                                                           *)

(* The invariant holds at first, and every step preserves it.              *)
THEOREM RelayInvariance == Spec => []RelayInv
<1>1. Init => RelayInv
  <2> SUFFICES ASSUME Init PROVE RelayInv
    OBVIOUS
  <2>1. /\ DOMAIN relay = {"closed", "rooms", "peers", "bytes", "slot", "ended"}
        /\ relay.closed = FALSE /\ DOMAIN relay.rooms = {} /\ DOMAIN relay.peers = {}
        /\ relay.slot = [s \in Sockets |-> None] /\ relay.ended = [s \in Sockets |-> None]
    BY DEF Init, NewRelay
  <2>2. Shape(relay) /\ Published(relay) /\ HostsLead(relay) /\ ChannelsFit(relay, {})
    BY <2>1 DEF Shape, Published, HostsLead, ChannelsFit, ViewerOf
  <2>3. SocketTypes
    BY ChannelsAssumption DEF Init, SocketTypes
  <2>4. \A s \in Sockets : Seat(relay, s, {})
    BY <2>1 DEF Init, Seat, ViewerOf
  <2> QED
    BY <2>2, <2>3, <2>4 DEF RelayInv, Served
<1>2. RelayInv /\ [Next]_vars => RelayInv'
  <2> SUFFICES ASSUME RelayInv, [Next]_vars PROVE Served(relay, {})'
    BY SocketTypesStep DEF RelayInv
  <2>1. SocketTypes /\ Served(relay, {})
    BY DEF RelayInv
  <2>2. ASSUME UNCHANGED socketVars, Served(relay', {}) PROVE Served(relay, {})'
    BY <2>2 DEF socketVars, Served, Seat, Writes, Offered
  <2>3. CASE UNCHANGED vars
    BY <2>1, <2>2, <2>3 DEF vars, socketVars
  <2>4. ASSUME NEW a \in Actors, NEW r \in Rooms,
               Create(a, r) \/ Join(a, r) \/ Renew(a, r) \/ Revoke(a, r)
        PROVE  Served(relay, {})'
    <3>1. UNCHANGED socketVars
      BY <2>4 DEF Create, Join, Renew, Revoke
    <3> QED
      BY <2>1, <2>2, <2>4, <3>1, RequestsServe
  <2>5. ASSUME NEW s \in Sockets,
               Reauthenticate(s) \/ (\E n \in Sizes : Publish(s, n)) \/ Activity(s) \/ Presence(s)
        PROVE  Served(relay, {})'
    <3>1. UNCHANGED socketVars
      BY <2>5, Zenon DEF Reauthenticate, Publish, Activity, Presence
    <3> QED
      BY <2>1, <2>2, <2>5, <3>1, FramesServe
  <2>6. ASSUME NEW s \in Sockets, NEW a \in Actors, NEW r \in Rooms, Attach(s, a, r)
        PROVE  Served(relay, {})'
    BY <2>1, <2>6, AttachServes
  <2>7. ASSUME NEW s \in Sockets, \/ Connect(s) \/ Reject(s) \/ Admit(s) \/ Refuse(s)
                                  \/ LoseConnection(s) \/ ReadTimesOut(s) \/ Leave(s) \/ Write(s)
        PROVE  Served(relay, {})'
    BY <2>1, <2>7, MovesServe, ChannelsServe DEF Leave, Write
  <2>8. CASE Tick \/ SweepTick \/ CloseServer \/ CloseRelay \/ CloseConns
    BY <2>1, <2>8, HouseServes
  <2> QED
    BY <2>3, <2>4, <2>5, <2>6, <2>7, <2>8 DEF Next, Request, Socket, Frame
<1> QED
  BY <1>1, <1>2, PTL DEF Spec

(* end and detach never block on a full channel with the mutex held.       *)
THEOREM NoSendBlocks == Spec => []EndNeverBlocks
<1>1. RelayInv => EndNeverBlocks
  BY DEF RelayInv, Served, ChannelsFit, EndNeverBlocks
<1> QED
  BY <1>1, RelayInvariance, PTL

(* A session is online, and has members, only with its one host.           *)
THEOREM OneHostLeads == Spec => []HostKeepsSession
<1>1. RelayInv => HostKeepsSession
  <2> SUFFICES ASSUME RelayInv, NEW r \in Rooms
               PROVE  /\ Cardinality(Hosts(relay, r)) =
                           (IF r \in DOMAIN relay.rooms /\ relay.rooms[r].online THEN 1 ELSE 0)
                      /\ Members(relay, r) # {} => Hosts(relay, r) # {}
    BY DEF HostKeepsSession, Hosts
  <2>1. /\ \A s \in DOMAIN relay.peers : relay.peers[s].room \in DOMAIN relay.rooms
        /\ HostsLead(relay)
    BY DEF RelayInv, Served, Shape
  <2>2. CASE r \in DOMAIN relay.rooms /\ relay.rooms[r].online
    <3>1. PICK s : s \in Hosts(relay, r)
      BY <2>1, <2>2 DEF HostsLead
    <3>2. Hosts(relay, r) = {s}
      BY <2>1, <3>1 DEF HostsLead, Hosts, Members
    <3> QED
      BY <2>2, <3>2, FS_Singleton
  <2>3. CASE ~ (r \in DOMAIN relay.rooms /\ relay.rooms[r].online)
    <3>1. Members(relay, r) = {} /\ Hosts(relay, r) = {}
      BY <2>1, <2>3 DEF HostsLead, Hosts, Members
    <3> QED
      BY <2>3, <3>1, FS_EmptySet
  <2> QED
    BY <2>2, <2>3
<1> QED
  BY <1>1, RelayInvariance, PTL

(* A viewer with nothing pending holds the newest snapshot.                *)
THEOREM ViewersCatchUp == Spec => []ViewersConverge
<1>1. RelayInv => ViewersConverge
  <2> SUFFICES ASSUME RelayInv, NEW s \in DOMAIN relay.peers, relay.peers[s].role = "viewer",
                      CaughtUp(s)
               PROVE  shown[s] = relay.rooms[relay.peers[s].room].rev
    BY DEF ViewersConverge
  <2>1. s \in Sockets /\ Seat(relay, s, {}) /\ ViewerOf(relay, s)
    BY DEF RelayInv, Served, Shape, ViewerOf
  <2>2. writer[s] = "waiting" /\ ~ IsState(relay.slot[s])
    BY DEF CaughtUp, IsState
  <2> QED
    BY <2>1, <2>2 DEF Seat, Writes, Offered
<1> QED
  BY <1>1, RelayInvariance, PTL

-----------------------------------------------------------------------------
(* What has expired.                                                       *)

(* No deadline that has passed in st is moved by t, and a host whose token *)
(* has expired publishes nothing.                                          *)
Inert(st, t) ==
  /\ \A r \in DOMAIN st.rooms :
       st.rooms[r].idle = 0 => r \notin DOMAIN t.rooms \/ t.rooms[r].idle = 0
  /\ \A s \in DOMAIN st.peers :
       st.peers[s].left = 0 =>
         \/ s \notin DOMAIN t.peers
         \/ /\ t.peers[s].left = 0
            /\ st.peers[s].role = "host" =>
                 LET r == st.peers[s].room IN t.rooms[r].rev = st.rooms[r].rev

(* Whoever sweeps first finds nothing that has expired.                    *)
LEMMA SweptInert ==
  ASSUME NEW st, Monitor(st), NEW t, NEW R, NEW S,
         DOMAIN t.rooms \subseteq DOMAIN Sweep(st).rooms \cup R, R \cap DOMAIN st.rooms = {},
         DOMAIN t.peers \subseteq DOMAIN Sweep(st).peers \cup S, S \cap DOMAIN st.peers = {}
  PROVE  Inert(st, t)
<1> DEFINE u == Sweep(st)
<1>1. /\ Monitor(u) /\ Shrinks(st, u)
      /\ \A r \in DOMAIN u.rooms : u.rooms[r].idle > 0
      /\ \A s \in DOMAIN u.peers : u.peers[s].left > 0
  BY Swept
<1> HIDE DEF u
<1>2. \A r \in DOMAIN st.rooms : st.rooms[r].idle = 0 => r \notin DOMAIN u.rooms
  BY <1>1 DEF Shrinks
<1>3. \A s \in DOMAIN st.peers : st.peers[s].left = 0 => s \notin DOMAIN u.peers
  BY <1>1 DEF Shrinks
<1> QED
  BY <1>2, <1>3 DEF Inert, u

(* What only leaves, moves nothing.                                        *)
LEMMA ShrinksInert ==
  ASSUME NEW st, NEW t, Monitor(t), Shrinks(st, t)
  PROVE  Inert(st, t)
<1>1. \A s \in DOMAIN t.peers : t.peers[s].room \in DOMAIN t.rooms
  BY DEF Monitor, Shape
<1> QED
  BY <1>1 DEF Inert, Shrinks

(* A broadcast is about no deadline.                                       *)
LEMMA BroadcastKeeps ==
  ASSUME NEW st, NEW R, DOMAIN st = {"closed", "rooms", "peers", "bytes", "slot", "ended"}
  PROVE  Broadcast(st, R).rooms = st.rooms /\ Broadcast(st, R).peers = st.peers
BY DEF Broadcast

(* No step moves what has expired.                                         *)
LEMMA InertStep ==
  ASSUME RelayInv, [Next]_vars PROVE Inert(relay, relay')
<1> DEFINE st == Sweep(relay)
           Fields == {"closed", "rooms", "peers", "bytes", "slot", "ended"}
<1>1. Monitor(relay) /\ \A s \in Sockets : Seat(relay, s, {})
  BY DEF RelayInv, Served, Monitor
<1>2. Monitor(st) /\ Shrinks(relay, st) /\ DOMAIN st = Fields
  <2>1. Monitor(st) /\ Shrinks(relay, st)
    BY <1>1, Swept
  <2> HIDE DEF st
  <2> QED
    BY <2>1 DEF Monitor, Shape
<1>3. ASSUME relay'.rooms = relay.rooms, relay'.peers = relay.peers PROVE Inert(relay, relay')
  BY <1>3 DEF Inert
<1>4. ASSUME NEW R, NEW S, R \cap DOMAIN relay.rooms = {}, S \cap DOMAIN relay.peers = {},
             DOMAIN relay'.rooms \subseteq DOMAIN st.rooms \cup R,
             DOMAIN relay'.peers \subseteq DOMAIN st.peers \cup S
      PROVE  Inert(relay, relay')
  BY <1>1, <1>4, SweptInert
<1>21. ASSUME DOMAIN relay'.rooms \subseteq DOMAIN st.rooms,
              DOMAIN relay'.peers \subseteq DOMAIN st.peers
       PROVE  Inert(relay, relay')
  <2> HIDE DEF st
  <2>1. /\ {} \cap DOMAIN relay.rooms = {} /\ {} \cap DOMAIN relay.peers = {}
        /\ DOMAIN relay'.rooms \subseteq DOMAIN st.rooms \cup {}
        /\ DOMAIN relay'.peers \subseteq DOMAIN st.peers \cup {}
    BY <1>21
  <2> QED
    BY <1>4, <2>1
<1>5. ASSUME relay' = relay \/ relay' = st PROVE Inert(relay, relay')
  BY <1>1, <1>2, <1>3, <1>5, ShrinksInert
<1>6. ASSUME NEW a \in Actors, NEW r \in Rooms, Create(a, r) PROVE Inert(relay, relay')
  <2> DEFINE room == NewRoom(a)
  <2>1. r \notin DOMAIN relay.rooms /\ relay' = [st EXCEPT !.rooms = With(@, r, room)]
    BY <1>6, Zenon DEF Create
  <2> HIDE DEF st, room
  <2>2. DOMAIN relay'.rooms = DOMAIN st.rooms \cup {r} /\ relay'.peers = st.peers
    BY <1>2, <2>1 DEF With
  <2>3. {r} \cap DOMAIN relay.rooms = {} /\ {} \cap DOMAIN relay.peers = {}
    BY <2>1
  <2> QED
    BY <1>4, <2>2, <2>3
<1>7. ASSUME NEW a \in Actors, NEW r \in Rooms, NEW role, relay' = Issue(st, r, a, role)
      PROVE  Inert(relay, relay')
  <2> HIDE DEF st
  <2>1. DOMAIN relay'.rooms = DOMAIN st.rooms /\ relay'.peers = st.peers
    BY <1>2, <1>7 DEF Issue
  <2> QED
    BY <1>21, <2>1
<1>8. ASSUME NEW a \in Actors, NEW r \in Rooms, Join(a, r) \/ Renew(a, r)
      PROVE  Inert(relay, relay')
  BY <1>7, <1>8, Zenon DEF Join, Renew
<1>9. ASSUME NEW a \in Actors, NEW r \in Rooms, Revoke(a, r) PROVE Inert(relay, relay')
  <2> DEFINE why == All({r}, "host_revoked")
  <2>1. r \in DOMAIN st.rooms /\ relay' = End(st, why)
    BY <1>9, Zenon DEF Revoke, MayRevoke
  <2>2. \A x \in DOMAIN why : x \in DOMAIN st.rooms /\ why[x] \in Reasons
    BY <2>1 DEF All, Reasons
  <2> HIDE DEF why, st
  <2>3. Monitor(relay') /\ Shrinks(st, relay')
    BY <1>2, <2>1, <2>2, SessionsEnd
  <2>4. Shrinks(relay, relay')
    BY <1>1, <1>2, <2>3, ShrinksOn DEF Monitor
  <2> QED
    BY <2>3, <2>4, ShrinksInert
<1>10. ASSUME NEW s \in Sockets, NEW a \in Actors, NEW r \in Rooms, Attach(s, a, r)
       PROVE  Inert(relay, relay')
  <2> DEFINE peer == [room |-> r, actor |-> a, role |-> st.rooms[r].grants[a].role,
                      left |-> st.rooms[r].grants[a].left]
             u == TakeSeat(st, s, peer)
  <2>1. relay' = Broadcast(u, {r}) /\ phase[s] = "anonymous"
    BY <1>10, Zenon DEF Attach
  <2>2. s \notin DOMAIN relay.peers
    BY <1>1, <2>1 DEF Seat
  <2> HIDE DEF st, peer
  <2>3. DOMAIN u = Fields /\ DOMAIN u.rooms = DOMAIN st.rooms /\ DOMAIN u.peers = DOMAIN st.peers \cup {s}
    BY <1>2 DEF TakeSeat, With
  <2> HIDE DEF u
  <2>4. relay'.rooms = u.rooms /\ relay'.peers = u.peers
    BY <2>1, <2>3, BroadcastKeeps
  <2>5. {} \cap DOMAIN relay.rooms = {} /\ {s} \cap DOMAIN relay.peers = {}
    BY <2>2
  <2>6. /\ DOMAIN relay'.rooms \subseteq DOMAIN st.rooms \cup {}
        /\ DOMAIN relay'.peers \subseteq DOMAIN st.peers \cup {s}
    BY <2>3, <2>4
  <2> QED
    BY <1>4, <2>5, <2>6
<1>11. ASSUME NEW s \in Sockets, NEW n \in Sizes, Publish(s, n) PROVE Inert(relay, relay')
  <2> DEFINE r == st.peers[s].room
             bytes == st.bytes - st.rooms[r].size + n
             u == [st EXCEPT !.bytes = bytes, !.rooms[r] = Advanced(@, n)]
  <2>1. relay' = Broadcast(u, {r})
    BY <1>11, Zenon DEF Publish
  <2> HIDE DEF st, bytes, r
  <2>2. DOMAIN u = Fields /\ DOMAIN u.rooms = DOMAIN st.rooms /\ u.peers = st.peers
    BY <1>2
  <2> HIDE DEF u
  <2>3. relay'.rooms = u.rooms /\ relay'.peers = u.peers
    BY <2>1, <2>2, BroadcastKeeps
  <2> QED
    BY <1>21, <2>2, <2>3
<1>12. ASSUME NEW s \in Sockets, Activity(s) PROVE Inert(relay, relay')
  <2> DEFINE r == st.peers[s].room
             u == [st EXCEPT !.rooms[r].idle = IdleTimeout]
  <2>1. relay' = Broadcast(u, {r})
    BY <1>12, Zenon DEF Activity
  <2> HIDE DEF st, r
  <2>2. DOMAIN u = Fields /\ DOMAIN u.rooms = DOMAIN st.rooms /\ u.peers = st.peers
    BY <1>2
  <2> HIDE DEF u
  <2>3. relay'.rooms = u.rooms /\ relay'.peers = u.peers
    BY <2>1, <2>2, BroadcastKeeps
  <2> QED
    BY <1>21, <2>2, <2>3
<1>13. ASSUME NEW s \in Sockets, Reauthenticate(s) PROVE Inert(relay, relay')
  <2> DEFINE left == st.rooms[st.peers[s].room].grants[st.peers[s].actor].left
  <2>1. relay' = [st EXCEPT !.peers[s].left = left]
    BY <1>13, Zenon DEF Reauthenticate
  <2> HIDE DEF st, left
  <2>2. relay'.rooms = st.rooms /\ DOMAIN relay'.peers = DOMAIN st.peers
    BY <1>2, <2>1
  <2> QED
    BY <1>21, <2>2
<1>14. ASSUME NEW s \in Sockets, Presence(s) PROVE Inert(relay, relay')
  <2> DEFINE others == Members(st, st.peers[s].room) \ {s}
  <2>1. relay' = [st EXCEPT !.slot = [x \in Sockets |->
                    IF x \in others /\ @[x] = None
                    THEN [type |-> "presence", rev |-> 0, snapshot |-> FALSE] ELSE @[x]]]
    BY <1>14, Zenon DEF Presence
  <2> HIDE DEF st, others
  <2>2. relay'.rooms = st.rooms /\ relay'.peers = st.peers
    BY <1>2, <2>1
  <2> QED
    BY <1>21, <2>2
<1>15. ASSUME NEW s \in Sockets, Detach(s) PROVE Inert(relay, relay')
  <2> DEFINE t == DetachAll(relay, {s}, "host_disconnected")
  <2>1. CASE s \in DOMAIN relay.peers
    <3>1. relay' = t
      BY <1>15, <2>1, Zenon DEF Detach
    <3>2. "host_disconnected" \in Reasons /\ {s} \subseteq DOMAIN relay.peers
      BY <2>1 DEF Reasons
    <3>3. Monitor(t) /\ Shrinks(relay, t)
      BY <1>1, <3>2, Detached
    <3> HIDE DEF t
    <3> QED
      BY <3>1, <3>3, ShrinksInert
  <2>2. CASE s \notin DOMAIN relay.peers
    BY <1>5, <1>15, <2>2 DEF Detach
  <2> QED
    BY <2>1, <2>2
<1>16. ASSUME NEW s \in Sockets, Finish(s) \/ TakeEvent(s) \/ TellReason(s)
       PROVE  Inert(relay, relay')
  <2>1. relay'.rooms = relay.rooms /\ relay'.peers = relay.peers
    BY <1>1, <1>16 DEF Finish, TakeEvent, TellReason, Monitor, Shape
  <2> QED
    BY <1>3, <2>1
<1>17. CASE Tick
  <2>1. /\ relay'.rooms = [r \in DOMAIN relay.rooms |-> AgedRoom(relay.rooms[r])]
        /\ relay'.peers = [s \in DOMAIN relay.peers |-> Aged(relay.peers[s])]
    BY <1>1, <1>17 DEF Tick, Monitor, Shape
  <2>2. \A r \in DOMAIN relay.rooms : /\ relay'.rooms[r].rev = relay.rooms[r].rev
                                      /\ relay.rooms[r].idle = 0 => relay'.rooms[r].idle = 0
    BY <1>1, <2>1, RoomAges DEF Monitor, Shape
  <2>3. ASSUME NEW s \in DOMAIN relay.peers, relay.peers[s].left = 0
        PROVE  relay'.peers[s].left = 0 /\ relay.peers[s].room \in DOMAIN relay.rooms
    <3> DEFINE p == relay.peers[s]
               R == DOMAIN relay.rooms
    <3>1. p \in [room : R, actor : Actors, role : Roles, left : 0..TokenTTL]
      BY <1>1 DEF Monitor, Shape
    <3>2. relay'.peers[s] = Aged(p) /\ p.left = 0
      BY <2>1, <2>3
    <3> HIDE DEF p, R
    <3>3. Aged(p).left = 0
      BY <3>1, <3>2, PeerAges
    <3> QED
      BY <3>1, <3>2, <3>3 DEF p, R
  <2> QED
    BY <2>1, <2>2, <2>3 DEF Inert
<1>18. CASE CloseRelay
  <2> DEFINE why == All(DOMAIN relay.rooms, "relay_stopped")
             t == End(relay, why)
  <2>1. \A r \in DOMAIN why : r \in DOMAIN relay.rooms /\ why[r] \in Reasons
    BY DEF All, Reasons
  <2>2. relay' = [t EXCEPT !.closed = TRUE]
    BY <1>18, Zenon DEF CloseRelay
  <2> HIDE DEF why
  <2>3. Monitor(t) /\ Shrinks(relay, t)
    BY <1>1, <2>1, SessionsEnd
  <2> HIDE DEF t
  <2>4. relay'.rooms = t.rooms /\ relay'.peers = t.peers
    <3>1. DOMAIN t = Fields
      BY <2>3 DEF Monitor, Shape
    <3> QED
      BY <2>2, <3>1
  <2>5. Inert(relay, t)
    BY <2>3, ShrinksInert
  <2> QED
    BY <2>4, <2>5 DEF Inert
<1>19. ASSUME NEW s \in Sockets, \/ Connect(s) \/ Reject(s) \/ Admit(s) \/ Refuse(s)
                                 \/ LoseConnection(s) \/ ReadFails(s) \/ ReadTimesOut(s)
                                 \/ HangUp(s) \/ WriteEvent(s) \/ WriterDone(s)
       PROVE  Inert(relay, relay')
  BY <1>5, <1>19 DEF Connect, Reject, Admit, Refuse, LoseConnection, ReadFails, ReadTimesOut,
                     HangUp, WriteEvent, WriterDone
<1>20. CASE SweepTick \/ CloseServer \/ CloseConns \/ UNCHANGED vars
  BY <1>5, <1>20 DEF SweepTick, CloseServer, CloseConns, vars
<1> QED
  BY <1>6, <1>8, <1>9, <1>10, <1>11, <1>12, <1>13, <1>14, <1>15, <1>16, <1>17, <1>18, <1>19,
     <1>20 DEF Next, Request, Socket, Frame, Leave, Write

(* An expired session or token is not brought back, by anybody.            *)
THEOREM NothingIsResurrected == Spec => ExpiredStaysExpired
<1>1. RelayInv /\ [Next]_vars =>
        [/\ \A r \in DOMAIN relay.rooms :
              relay.rooms[r].idle = 0 =>
                r \notin DOMAIN relay'.rooms \/ relay'.rooms[r].idle = 0
         /\ \A s \in DOMAIN relay.peers :
              relay.peers[s].left = 0 =>
                \/ s \notin DOMAIN relay'.peers
                \/ /\ relay'.peers[s].left = 0
                   /\ relay.peers[s].role = "host" =>
                        LET r == relay.peers[s].room
                        IN  relay'.rooms[r].rev = relay.rooms[r].rev]_vars
  BY InertStep, Zenon DEF Inert
<1> QED
  BY <1>1, RelayInvariance, PTL DEF Spec, ExpiredStaysExpired

-----------------------------------------------------------------------------
(* The byte budget.                                                        *)

(* The counter is the sum of the sizes, within the budget.                 *)
Weighed(st) ==
  /\ IsFiniteSet(DOMAIN st.rooms)
  /\ st.bytes = Stored(st, DOMAIN st.rooms) /\ st.bytes <= MaxStoredBytes

(* A size is a number.                                                     *)
LEMMA SizesAreNat ==
  ASSUME NEW st, Shape(st), NEW r \in DOMAIN st.rooms PROVE st.rooms[r].size \in Nat
<1> DEFINE room == st.rooms[r]
<1>1. room \in Room
  BY DEF Shape
<1> HIDE DEF room
<1>2. room.size \in Sizes \/ room.size = 0
  BY <1>1 DEF Room
<1>3. 0 \in Nat /\ \A n \in Sizes : n \in Nat
  BY SizesAssumption
<1>4. room.size \in Nat
  BY <1>2, <1>3
<1> QED
  BY <1>4 DEF room

(* The bytes of some sessions, as a number.                                *)
LEMMA StoredIsNat ==
  ASSUME NEW st, Shape(st), NEW R, R \subseteq DOMAIN st.rooms, IsFiniteSet(R)
  PROVE  Stored(st, R) \in Nat
<1> DEFINE f == [r \in R |-> st.rooms[r].size]
<1>1. \A r \in R : f[r] \in Nat
  BY SizesAreNat
<1> HIDE DEF f
<1>2. SumFunctionOnSet(f, R) \in Nat
  BY <1>1, SumNat
<1> QED
  BY <1>2 DEF Stored, f

(* They depend on nothing but the sizes.                                   *)
LEMMA StoredSame ==
  ASSUME NEW st, NEW t, NEW R, IsFiniteSet(R), \A r \in R : t.rooms[r].size = st.rooms[r].size
  PROVE  Stored(t, R) = Stored(st, R)
<1> DEFINE f == [r \in R |-> st.rooms[r].size]
           g == [r \in R |-> t.rooms[r].size]
<1>1. \A r \in R : g[r] = f[r]
  OBVIOUS
<1> HIDE DEF f, g
<1>2. SumFunctionOnSet(g, R) = SumFunctionOnSet(f, R)
  BY <1>1, SumEqual
<1> QED
  BY <1>2 DEF Stored, f, g

(* Two groups of sessions.                                                 *)
LEMMA StoredUnion ==
  ASSUME NEW st, Shape(st), NEW R, NEW S, R \subseteq DOMAIN st.rooms, S \subseteq DOMAIN st.rooms,
         IsFiniteSet(R), IsFiniteSet(S), R \cap S = {}
  PROVE  Stored(st, R \cup S) = Stored(st, R) + Stored(st, S)
<1> DEFINE f == [r \in R |-> st.rooms[r].size]
           g == [r \in S |-> st.rooms[r].size]
           h == [r \in R \cup S |-> st.rooms[r].size]
<1>1. \A r \in R \cup S : h[r] \in Int
  <2>1. \A r \in R \cup S : st.rooms[r].size \in Nat
    BY SizesAreNat
  <2> QED
    BY <2>1
<1>2. (\A r \in R : f[r] = h[r]) /\ (\A r \in S : g[r] = h[r])
  OBVIOUS
<1> HIDE DEF f, g, h
<1>3. SumFunctionOnSet(h, R \cup S) = SumFunctionOnSet(h, R) + SumFunctionOnSet(h, S)
  BY <1>1, SumUnion
<1>4. /\ SumFunctionOnSet(f, R) = SumFunctionOnSet(h, R)
      /\ SumFunctionOnSet(g, S) = SumFunctionOnSet(h, S)
  BY <1>2, SumEqual
<1> QED
  BY <1>3, <1>4 DEF Stored, f, g, h

(* One session.                                                            *)
LEMMA StoredOne ==
  ASSUME NEW st, Shape(st), NEW r \in DOMAIN st.rooms
  PROVE  Stored(st, {r}) = st.rooms[r].size
<1> DEFINE f == [x \in {r} |-> st.rooms[x].size]
<1>1. f[r] = st.rooms[r].size /\ f[r] \in Nat
  BY SizesAreNat
<1> HIDE DEF f
<1>2. IsFiniteSet({}) /\ IsFiniteSet({r})
  BY FS_EmptySet, FS_Singleton
<1>3. SumFunctionOnSet(f, {}) = 0
  BY <1>2, SumDefinition
<1>4. {r} = {} \cup {r} /\ \A x \in {} \cup {r} : f[x] \in Int
  BY <1>1
<1>5. SumFunctionOnSet(f, {} \cup {r}) = SumFunctionOnSet(f, {}) + f[r]
  BY <1>2, <1>4, SumAdd
<1> QED
  BY <1>1, <1>3, <1>4, <1>5 DEF Stored, f

(* What leaves the sizes alone leaves the weight.                          *)
LEMMA WeighedSame ==
  ASSUME NEW st, NEW t, Weighed(st), t.bytes = st.bytes, DOMAIN t.rooms = DOMAIN st.rooms,
         \A r \in DOMAIN st.rooms : t.rooms[r].size = st.rooms[r].size
  PROVE  Weighed(t)
BY StoredSame DEF Weighed

(* An ending gives the bytes of its sessions back, once.                   *)
LEMMA WeighedEnd ==
  ASSUME NEW st, NEW why, Monitor(st), Weighed(st),
         \A r \in DOMAIN why : r \in DOMAIN st.rooms /\ why[r] \in Reasons
  PROVE  Weighed(End(st, why))
<1> DEFINE t == End(st, why)
           R == DOMAIN st.rooms
           W == DOMAIN why
           u == Release(st, Ousted(st, why))
<1>1. u.bytes = st.bytes /\ u.rooms = st.rooms /\ "bytes" \in DOMAIN u /\ "rooms" \in DOMAIN u
  BY DEF Release, Monitor, Shape
<1>2. t.bytes = st.bytes - Stored(st, W) /\ t.rooms = Without(st.rooms, W)
  <2> HIDE DEF u
  <2> QED
    BY <1>1, Zenon DEF End, u
<1>3. DOMAIN t.rooms = R \ W /\ \A r \in R \ W : t.rooms[r] = st.rooms[r]
  BY <1>2 DEF Without, Restrict
<1> HIDE DEF t
<1>4. W \subseteq R /\ IsFiniteSet(R) /\ IsFiniteSet(W) /\ IsFiniteSet(R \ W) /\ W \cup (R \ W) = R
  BY FS_Subset DEF Weighed
<1>5. Stored(t, R \ W) = Stored(st, R \ W)
  BY <1>3, <1>4, StoredSame
<1>6. Stored(st, R) = Stored(st, W) + Stored(st, R \ W)
  <2>1. Stored(st, W \cup (R \ W)) = Stored(st, W) + Stored(st, R \ W)
    BY <1>4, StoredUnion DEF Monitor
  <2> QED
    BY <1>4, <2>1
<1>7. Stored(st, W) \in Nat /\ Stored(st, R \ W) \in Nat
  BY <1>4, StoredIsNat DEF Monitor
<1>8. Weighed(t)
  BY <1>2, <1>3, <1>4, <1>5, <1>6, <1>7, SizesAssumption DEF Weighed
<1> QED
  BY <1>8 DEF t

(* So does a detachment,                                                   *)
LEMMA WeighedDetached ==
  ASSUME NEW st, NEW S, NEW reason \in Reasons, Monitor(st), Weighed(st), S \subseteq DOMAIN st.peers
  PROVE  Weighed(DetachAll(st, S, reason))
<1> DEFINE led == {st.peers[s].room : s \in {x \in S : st.peers[x].role = "host"}}
           rest == {s \in S : st.peers[s].room \notin led}
           R == {st.peers[s].room : s \in rest}
           why == All(led, reason)
           u == End(st, why)
           v == Release(u, All(rest, reason))
           t == Broadcast(v, R)
<1>1. DetachAll(st, S, reason) = t
  BY DEF DetachAll
<1>2. \A r \in DOMAIN why : r \in DOMAIN st.rooms /\ why[r] \in Reasons
  BY DEF All, Monitor, Shape
<1> HIDE DEF led, rest, R, why
<1>3. Weighed(u) /\ Monitor(u)
  BY <1>2, WeighedEnd, SessionsEnd
<1> HIDE DEF u
<1>4. v.rooms = u.rooms /\ v.bytes = u.bytes /\ DOMAIN v = DOMAIN u
  BY <1>3 DEF Release, Monitor, Shape
<1> HIDE DEF v
<1>5. t.rooms = u.rooms /\ t.bytes = u.bytes
  BY <1>3, <1>4 DEF Broadcast, Monitor, Shape
<1> QED
  BY <1>1, <1>3, <1>5, WeighedSame

(* and a sweep.                                                            *)
LEMMA WeighedSwept ==
  ASSUME NEW st, Monitor(st), Weighed(st) PROVE Weighed(Sweep(st))
<1> DEFINE idle == {r \in DOMAIN st.rooms : st.rooms[r].idle = 0}
           absent == {r \in DOMAIN st.rooms : ~ st.rooms[r].online /\ st.rooms[r].pending = 0}
           why == [r \in idle \cup absent |-> IF r \in idle THEN "idle_timeout" ELSE "host_absent"]
           u == End(st, why)
           S == {s \in DOMAIN st.peers : st.peers[s].left = 0 /\ st.peers[s].room \notin DOMAIN why}
<1>1. Sweep(st) = DetachAll(u, S, "token_expired")
  BY DEF Sweep
<1>2. \A r \in DOMAIN why : r \in DOMAIN st.rooms /\ why[r] \in Reasons
  BY DEF Reasons
<1> HIDE DEF why
<1>3. /\ Weighed(u) /\ Monitor(u)
      /\ DOMAIN u.peers = {s \in DOMAIN st.peers : st.peers[s].room \notin DOMAIN why}
  BY <1>2, WeighedEnd, SessionsEnd
<1> HIDE DEF u
<1>4. S \subseteq DOMAIN u.peers /\ "token_expired" \in Reasons
  BY <1>3 DEF Reasons
<1> HIDE DEF S
<1> QED
  BY <1>1, <1>3, <1>4, WeighedDetached

(* One session takes a new snapshot, if the budget has room for it.        *)
LEMMA WeighedPublished ==
  ASSUME NEW st, Monitor(st), Weighed(st), NEW r \in DOMAIN st.rooms, NEW n \in Sizes,
         NEW t, DOMAIN t.rooms = DOMAIN st.rooms, Shape(t),
         \A x \in DOMAIN st.rooms \ {r} : t.rooms[x] = st.rooms[x],
         t.rooms[r].size = n, t.bytes = st.bytes - st.rooms[r].size + n,
         t.bytes <= MaxStoredBytes
  PROVE  Weighed(t)
<1> DEFINE R == DOMAIN st.rooms
           T == R \ {r}
<1>1. IsFiniteSet(R) /\ IsFiniteSet(T) /\ IsFiniteSet({r}) /\ {r} \cup T = R /\ {r} \cap T = {}
  <2>1. IsFiniteSet(R) /\ r \in R
    BY DEF Weighed
  <2> HIDE DEF R
  <2>2. IsFiniteSet(T)
    BY <2>1, FS_RemoveElement
  <2>3. IsFiniteSet({r})
    BY FS_Singleton, Zenon
  <2>4. {r} \cup T = R /\ {r} \cap T = {}
    BY <2>1
  <2> QED
    BY <2>1, <2>2, <2>3, <2>4
<1>2. /\ Stored(st, {r}) = st.rooms[r].size /\ Stored(t, {r}) = n
      /\ st.rooms[r].size \in Nat /\ n \in Nat
  BY StoredOne, SizesAreNat, SizesAssumption DEF Monitor
<1>3. Stored(t, T) = Stored(st, T) /\ Stored(st, T) \in Nat
  BY <1>1, StoredSame, StoredIsNat DEF Monitor
<1>4. Stored(st, {r} \cup T) = Stored(st, {r}) + Stored(st, T)
  BY <1>1, StoredUnion DEF Monitor
<1>5. Stored(t, {r} \cup T) = Stored(t, {r}) + Stored(t, T)
  BY <1>1, StoredUnion
<1>6. Stored(t, R) = n + Stored(st, T) /\ Stored(st, R) = st.rooms[r].size + Stored(st, T)
  BY <1>1, <1>2, <1>3, <1>4, <1>5
<1>7. st.bytes = Stored(st, R)
  BY DEF Weighed
<1> QED
  BY <1>1, <1>2, <1>3, <1>6, <1>7 DEF Weighed

(* A session without a snapshot weighs nothing.                            *)
LEMMA WeighedCreated ==
  ASSUME NEW st, Weighed(st), NEW r, r \notin DOMAIN st.rooms,
         NEW t, Shape(t), DOMAIN t.rooms = DOMAIN st.rooms \cup {r},
         \A x \in DOMAIN st.rooms : t.rooms[x] = st.rooms[x],
         t.rooms[r].size = 0, t.bytes = st.bytes
  PROVE  Weighed(t)
<1> DEFINE R == DOMAIN st.rooms
<1>1. IsFiniteSet(R) /\ IsFiniteSet(R \cup {r}) /\ IsFiniteSet({r}) /\ R \cap {r} = {}
  BY FS_AddElement, FS_Singleton DEF Weighed
<1>2. Stored(t, R) = Stored(st, R) /\ Stored(t, R) \in Nat
  BY <1>1, StoredSame, StoredIsNat
<1>3. Stored(t, {r}) = 0
  BY StoredOne
<1>4. Stored(t, R \cup {r}) = Stored(t, R) + Stored(t, {r})
  BY <1>1, StoredUnion
<1> QED
  BY <1>1, <1>2, <1>3, <1>4 DEF Weighed

(* Every step keeps the weight.                                            *)
LEMMA WeighedStep ==
  ASSUME RelayInv, Weighed(relay), Shape(relay'), [Next]_vars PROVE Weighed(relay')
<1> DEFINE st == Sweep(relay)
           Fields == {"closed", "rooms", "peers", "bytes", "slot", "ended"}
<1>1. Monitor(relay)
  BY DEF RelayInv, Served, Monitor
<1>2. Monitor(st) /\ Weighed(st)
  BY <1>1, Swept, WeighedSwept
<1>3. DOMAIN st = Fields
  <2> HIDE DEF st
  <2> QED
    BY <1>2 DEF Monitor, Shape
<1>4. ASSUME relay'.rooms = relay.rooms, relay'.bytes = relay.bytes PROVE Weighed(relay')
  BY <1>4 DEF Weighed, Stored
<1>5. ASSUME relay' = relay \/ relay' = st PROVE Weighed(relay')
  BY <1>2, <1>5
<1>6. ASSUME NEW a \in Actors, NEW r \in Rooms, Create(a, r) PROVE Weighed(relay')
  <2> DEFINE room == NewRoom(a)
  <2>1. r \notin DOMAIN relay.rooms /\ relay' = [st EXCEPT !.rooms = With(@, r, room)]
    BY <1>6, Zenon DEF Create
  <2>2. r \notin DOMAIN st.rooms
    BY <1>1, <2>1, Swept DEF Shrinks
  <2>3. room.size = 0
    BY DEF NewRoom
  <2> HIDE DEF st, room
  <2>4. relay'.rooms = With(st.rooms, r, room) /\ relay'.bytes = st.bytes
    BY <1>3, <2>1
  <2>5. /\ DOMAIN relay'.rooms = DOMAIN st.rooms \cup {r} /\ relay'.rooms[r] = room
        /\ \A x \in DOMAIN st.rooms : relay'.rooms[x] = st.rooms[x]
    BY <2>2, <2>4 DEF With
  <2> QED
    BY <1>2, <2>2, <2>3, <2>4, <2>5, WeighedCreated
<1>7. ASSUME NEW a \in Actors, NEW r \in Rooms, NEW role, relay' = Issue(st, r, a, role)
      PROVE  Weighed(relay')
  <2> HIDE DEF st
  <2> DEFINE g == With(st.rooms[r].grants, a, Grant(role))
  <2>1. relay' = [st EXCEPT !.rooms[r].grants = g]
    BY <1>7 DEF Issue
  <2> HIDE DEF g
  <2>2. \A x \in DOMAIN st.rooms : "size" \in DOMAIN st.rooms[x]
    BY <1>2 DEF Monitor, Shape, Room
  <2>3. /\ relay'.bytes = st.bytes /\ DOMAIN relay'.rooms = DOMAIN st.rooms
        /\ \A x \in DOMAIN st.rooms : relay'.rooms[x].size = st.rooms[x].size
    BY <1>3, <2>1, <2>2
  <2> QED
    BY <1>2, <2>3, WeighedSame
<1>8. ASSUME NEW a \in Actors, NEW r \in Rooms, Join(a, r) \/ Renew(a, r) PROVE Weighed(relay')
  BY <1>7, <1>8, Zenon DEF Join, Renew
<1>9. ASSUME NEW a \in Actors, NEW r \in Rooms, Revoke(a, r) PROVE Weighed(relay')
  <2> DEFINE why == All({r}, "host_revoked")
  <2>1. r \in DOMAIN st.rooms /\ relay' = End(st, why)
    BY <1>9, Zenon DEF Revoke, MayRevoke
  <2>2. \A x \in DOMAIN why : x \in DOMAIN st.rooms /\ why[x] \in Reasons
    BY <2>1 DEF All, Reasons
  <2> HIDE DEF why, st
  <2> QED
    BY <1>2, <2>1, <2>2, WeighedEnd
<1>10. ASSUME NEW s \in Sockets, NEW a \in Actors, NEW r \in Rooms, Attach(s, a, r)
       PROVE  Weighed(relay')
  <2> DEFINE peer == [room |-> r, actor |-> a, role |-> st.rooms[r].grants[a].role,
                      left |-> st.rooms[r].grants[a].left]
             u == TakeSeat(st, s, peer)
  <2>1. relay' = Broadcast(u, {r})
    BY <1>10, Zenon DEF Attach
  <2> HIDE DEF st, peer
  <2>2. \A x \in DOMAIN st.rooms : "size" \in DOMAIN st.rooms[x]
    BY <1>2 DEF Monitor, Shape, Room
  <2>3. /\ DOMAIN u = Fields /\ DOMAIN u.rooms = DOMAIN st.rooms /\ u.bytes = st.bytes
        /\ \A x \in DOMAIN st.rooms : u.rooms[x].size = st.rooms[x].size
    BY <1>3, <2>2 DEF TakeSeat
  <2> HIDE DEF u
  <2>4. relay'.rooms = u.rooms /\ relay'.bytes = u.bytes
    BY <2>1, <2>3 DEF Broadcast
  <2> QED
    BY <1>2, <2>3, <2>4, WeighedSame
<1>11. ASSUME NEW s \in Sockets, NEW n \in Sizes, Publish(s, n) PROVE Weighed(relay')
  <2> DEFINE r == st.peers[s].room
             bytes == st.bytes - st.rooms[r].size + n
             u == [st EXCEPT !.bytes = bytes, !.rooms[r] = Advanced(@, n)]
  <2>1. /\ relay' = Broadcast(u, {r}) /\ bytes <= MaxStoredBytes
        /\ s \in DOMAIN st.peers /\ st.rooms[r].rev < MaxRevision
    BY <1>11, Zenon DEF Publish
  <2> HIDE DEF st
  <2>2. r \in DOMAIN st.rooms /\ st.rooms[r] \in Room
    BY <1>2, <2>1 DEF Monitor, Shape
  <2>3. Advanced(st.rooms[r], n).size = n
    BY <2>2 DEF Advanced, Room
  <2> DEFINE room == Advanced(st.rooms[r], n)
  <2>4. u = [st EXCEPT !.bytes = bytes, !.rooms[r] = room]
    BY <1>3, <2>2
  <2>5. bytes = st.bytes - st.rooms[r].size + n
    OBVIOUS
  <2> HIDE DEF bytes, r, room, u
  <2>6. /\ DOMAIN u = Fields /\ DOMAIN u.rooms = DOMAIN st.rooms /\ u.bytes = bytes
        /\ u.rooms[r] = room
        /\ \A x \in DOMAIN st.rooms \ {r} : u.rooms[x] = st.rooms[x]
    BY <1>3, <2>2, <2>4
  <2>7. relay'.rooms = u.rooms /\ relay'.bytes = u.bytes
    BY <2>1, <2>6 DEF Broadcast
  <2>8. relay'.rooms[r].size = n
    BY <2>3, <2>6, <2>7 DEF room
  <2> QED
    BY <1>2, <2>1, <2>2, <2>5, <2>6, <2>7, <2>8, WeighedPublished
<1>12. ASSUME NEW s \in Sockets, Activity(s) PROVE Weighed(relay')
  <2> DEFINE r == st.peers[s].room
             u == [st EXCEPT !.rooms[r].idle = IdleTimeout]
  <2>1. relay' = Broadcast(u, {r})
    BY <1>12, Zenon DEF Activity
  <2> HIDE DEF st, r
  <2>2. \A x \in DOMAIN st.rooms : "size" \in DOMAIN st.rooms[x]
    BY <1>2 DEF Monitor, Shape, Room
  <2>3. /\ DOMAIN u = Fields /\ DOMAIN u.rooms = DOMAIN st.rooms /\ u.bytes = st.bytes
        /\ \A x \in DOMAIN st.rooms : u.rooms[x].size = st.rooms[x].size
    BY <1>3, <2>2
  <2> HIDE DEF u
  <2>4. relay'.rooms = u.rooms /\ relay'.bytes = u.bytes
    BY <2>1, <2>3 DEF Broadcast
  <2> QED
    BY <1>2, <2>3, <2>4, WeighedSame
<1>13. ASSUME NEW s \in Sockets, Reauthenticate(s) PROVE Weighed(relay')
  <2> DEFINE left == st.rooms[st.peers[s].room].grants[st.peers[s].actor].left
  <2>1. relay' = [st EXCEPT !.peers[s].left = left]
    BY <1>13, Zenon DEF Reauthenticate
  <2> HIDE DEF st, left
  <2>2. relay'.rooms = st.rooms /\ relay'.bytes = st.bytes
    BY <1>3, <2>1
  <2> QED
    BY <1>2, <2>2, WeighedSame
<1>14. ASSUME NEW s \in Sockets, Presence(s) PROVE Weighed(relay')
  <2> DEFINE others == Members(st, st.peers[s].room) \ {s}
  <2>1. relay' = [st EXCEPT !.slot = [x \in Sockets |->
                    IF x \in others /\ @[x] = None
                    THEN [type |-> "presence", rev |-> 0, snapshot |-> FALSE] ELSE @[x]]]
    BY <1>14, Zenon DEF Presence
  <2> HIDE DEF st, others
  <2>2. relay'.rooms = st.rooms /\ relay'.bytes = st.bytes
    BY <1>3, <2>1
  <2> QED
    BY <1>2, <2>2, WeighedSame
<1>15. ASSUME NEW s \in Sockets, Detach(s) PROVE Weighed(relay')
  <2>1. CASE s \in DOMAIN relay.peers
    <3>1. relay' = DetachAll(relay, {s}, "host_disconnected")
      BY <1>15, <2>1, Zenon DEF Detach
    <3>2. "host_disconnected" \in Reasons /\ {s} \subseteq DOMAIN relay.peers
      BY <2>1 DEF Reasons
    <3> QED
      BY <1>1, <3>1, <3>2, WeighedDetached
  <2>2. CASE s \notin DOMAIN relay.peers
    BY <1>5, <1>15, <2>2 DEF Detach
  <2> QED
    BY <2>1, <2>2
<1>16. ASSUME NEW s \in Sockets, Finish(s) \/ TakeEvent(s) \/ TellReason(s)
       PROVE  Weighed(relay')
  <2>1. relay'.rooms = relay.rooms /\ relay'.bytes = relay.bytes
    BY <1>1, <1>16 DEF Finish, TakeEvent, TellReason, Monitor, Shape
  <2> QED
    BY <1>4, <2>1
<1>17. CASE Tick
  <2>1. /\ relay'.rooms = [r \in DOMAIN relay.rooms |-> AgedRoom(relay.rooms[r])]
        /\ relay'.bytes = relay.bytes
    BY <1>1, <1>17 DEF Tick, Monitor, Shape
  <2>2. \A r \in DOMAIN relay.rooms : relay'.rooms[r].size = relay.rooms[r].size
    BY <1>1, <2>1, RoomAges DEF Monitor, Shape
  <2> QED
    BY <2>1, <2>2, WeighedSame
<1>18. CASE CloseRelay
  <2> DEFINE why == All(DOMAIN relay.rooms, "relay_stopped")
             t == End(relay, why)
  <2>1. \A r \in DOMAIN why : r \in DOMAIN relay.rooms /\ why[r] \in Reasons
    BY DEF All, Reasons
  <2>2. relay' = [t EXCEPT !.closed = TRUE]
    BY <1>18, Zenon DEF CloseRelay
  <2> HIDE DEF why
  <2>3. Monitor(t) /\ Weighed(t)
    BY <1>1, <2>1, SessionsEnd, WeighedEnd
  <2> HIDE DEF t
  <2>4. relay'.rooms = t.rooms /\ relay'.bytes = t.bytes
    <3>1. DOMAIN t = Fields
      BY <2>3 DEF Monitor, Shape
    <3> QED
      BY <2>2, <3>1
  <2> QED
    BY <2>3, <2>4, WeighedSame
<1>19. ASSUME NEW s \in Sockets, \/ Connect(s) \/ Reject(s) \/ Admit(s) \/ Refuse(s)
                                 \/ LoseConnection(s) \/ ReadFails(s) \/ ReadTimesOut(s)
                                 \/ HangUp(s) \/ WriteEvent(s) \/ WriterDone(s)
       PROVE  Weighed(relay')
  BY <1>5, <1>19 DEF Connect, Reject, Admit, Refuse, LoseConnection, ReadFails, ReadTimesOut,
                     HangUp, WriteEvent, WriterDone
<1>20. CASE SweepTick \/ CloseServer \/ CloseConns \/ UNCHANGED vars
  BY <1>5, <1>20 DEF SweepTick, CloseServer, CloseConns, vars
<1> QED
  BY <1>6, <1>8, <1>9, <1>10, <1>11, <1>12, <1>13, <1>14, <1>15, <1>16, <1>17, <1>18, <1>19,
     <1>20 DEF Next, Request, Socket, Frame, Leave, Write

(* The counter and the snapshots keep together.                            *)
THEOREM WeightInvariance == Spec => []Weighed(relay)
<1>1. Init => Weighed(relay)
  <2> SUFFICES ASSUME Init PROVE Weighed(relay)
    OBVIOUS
  <2>1. relay.rooms = <<>> /\ relay.bytes = 0
    BY DEF Init, NewRelay
  <2>2. DOMAIN relay.rooms = {}
    BY <2>1
  <2> DEFINE f == [r \in {} |-> relay.rooms[r].size]
  <2> HIDE DEF f
  <2>3. SumFunctionOnSet(f, {}) = 0
    BY FS_EmptySet, SumDefinition
  <2>4. Stored(relay, {}) = 0
    BY <2>3 DEF Stored, f
  <2> QED
    BY <2>1, <2>2, <2>4, FS_EmptySet, SizesAssumption DEF Weighed
<1>2. RelayInv /\ RelayInv' /\ Weighed(relay) /\ [Next]_vars => Weighed(relay)'
  <2> SUFFICES ASSUME RelayInv, RelayInv', Weighed(relay), [Next]_vars PROVE Weighed(relay)'
    OBVIOUS
  <2>1. Shape(relay')
    BY DEF RelayInv, Served, Shape
  <2>2. Weighed(relay')
    BY <2>1, WeighedStep
  <2> QED
    BY <2>2 DEF Weighed, Stored
<1> QED
  BY <1>1, <1>2, RelayInvariance, PTL DEF Spec

(* The byte counter never drifts from the snapshots that are retained, and *)
(* these never exceed the budget.                                          *)
THEOREM BudgetHolds == Spec => []BytesAreStored
<1>1. Weighed(relay) => BytesAreStored
  BY DEF Weighed, BytesAreStored
<1> QED
  BY <1>1, WeightInvariance, PTL

(* The relay, the channels and the sockets keep their types.               *)
THEOREM RelayTypes == Spec => []TypeOK
<1>1. RelayInv /\ Weighed(relay) => TypeOK
  <2> SUFFICES ASSUME RelayInv, Weighed(relay) PROVE TypeOK
    OBVIOUS
  <2>1. Shape(relay) /\ SocketTypes
    BY DEF RelayInv, Served
  <2>2. relay.bytes \in Nat
    BY <2>1, StoredIsNat DEF Weighed
  <2>3. \A room \in Room : RoomOK(room)
    BY DEF Room, RoomOK
  <2>4. \A r \in DOMAIN relay.rooms : RoomOK(relay.rooms[r])
    BY <2>1, <2>3 DEF Shape
  <2>5. \A s \in DOMAIN relay.peers : PeerOK(relay.peers[s])
    BY <2>1 DEF Shape, PeerOK
  <2>6. relay.slot \in [Sockets -> Events \cup {None}]
    BY <2>1 DEF Shape, Offers
  <2> QED
    BY <2>1, <2>2, <2>4, <2>5, <2>6 DEF TypeOK, Shape, SocketTypes
<1> QED
  BY <1>1, RelayInvariance, WeightInvariance, PTL

=============================================================================
