---------------------------- MODULE MCLocalRelay ----------------------------
(* Instances of LocalRelay for TLC.                                        *)
EXTENDS LocalRelay, TLC

CONSTANTS h,       \* the host: the other actors only join
          Steady   \* the sockets whose connection does not break by itself

Symmetry == Permutations(Sockets)

(* The sessions are those of one host, and the sockets whose connection     *)
(* stays up are viewers.                                                   *)
OneHost == \A r \in DOMAIN relay.rooms : relay.rooms[r].host = h
Seated == \A s \in DOMAIN relay.peers : s \in Steady => relay.peers[s].actor # h
Undisturbed == \A s \in Steady : conn[s] # "lost"

(* The server is not being closed.                                         *)
Running == door = "open"
=============================================================================
