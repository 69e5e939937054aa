--------------------------- MODULE MCCollabServer ---------------------------
(* The collaboration server on small instances.                            *)
EXTENDS CollabServer, TLC

Symmetry == Permutations(Peers) \cup Permutations(Rooms) \cup Permutations(Updates)

(* The safety run follows three stories at once.  Two clients with one     *)
(* change meet one disturbance at a time: permissions that change, a lost  *)
(* authority with foreign commits, or Close; and restarts.                 *)
Changes == row.state \cup UNION {frame[p] \cup known[p] : p \in Peers}
Aside == {p \in Peers : pc[p] = "gone" /\ perm[p] = "edit" /\ acked[p] = {} /\ visible[p] = row.state}
EverybodyEdits == \A p \in Peers : perm[p] = "edit"
OneDisturbance == \/ authority /\ ~ closed
                  \/ EverybodyEdits /\ (authority \/ ~ closed)
OneChange == Aside # {} /\ OneDisturbance /\ Cardinality(Changes) <= 1

(* Two clients with two changes, sent one by one, meet each other and a    *)
(* runtime that took the authority over.                                   *)
Stopped == {p \in Peers : stopped[p]}
Whole == \A r \in Rooms : rooms[r].missed = EmptyRoom.missed
TwoChanges ==
  /\ Aside # {} /\ ~ closed /\ EverybodyEdits
  /\ Whole /\ Cardinality(Stopped) <= 1
  /\ \A p \in Peers : frame[p] # Updates /\ pc[p] \notin {"save", "diff"}

(* Three clients with one change meet each other in one runtime that stays *)
(* up, two of them busy at a time.                                         *)
ThreeClients ==
  /\ authority /\ ~ closed /\ EverybodyEdits
  /\ Whole /\ Cardinality(Stopped) <= 1 /\ Cardinality(Changes) <= 1
  /\ \A p \in Peers : acked[p] = {} /\ pc[p] # "save"
  /\ Cardinality({p \in Peers : pc[p] \notin {"gone", "reading"}}) <= 2

Stories == OneChange \/ TwoChanges \/ ThreeClients

(* The liveness run keeps one runtime; a user loses access for good, and   *)
(* clients send updates, which take every lock there is.                   *)
LiveEnvironment == Close \/ \E p \in Peers : ChangePermission(p, "none")

LiveClient(p) ==
  \/ Connect(p) \/ Authenticate(p) \/ Hello(p) \/ Disconnect(p)
  \/ Request(p, "update", Updates)

LiveNext ==
  LiveEnvironment \/ \E p \in Peers : LiveClient(p) \/ Reader(p) \/ RevokeSession(p)

LiveSpec == Init /\ [][LiveNext]_vars /\ Fairness
=============================================================================
