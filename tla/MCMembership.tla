---------------------------- MODULE MCMembership ----------------------------
(* Instances of Membership for TLC.                                        *)
EXTENDS Membership, TLC

Symmetry == Permutations(Emails)

InFlight == {c \in Requests : req[c] # None}

(* Nothing is asked about the owner, who has no address; everyone else     *)
(* has a confirmed one.                                                    *)
Addressed ==
  /\ \A u \in Users : (email[u] = None) <=> u = Owner
  /\ \A c \in InFlight : req[c].op \in {"change", "accept", "unguest"} =>
                            req[c].user # Owner

(* Requests overlap until the last invitation has been created, and while  *)
(* the board and the subscription serve; then they follow each other.      *)
Overlap ==
  \/ Cardinality(InFlight) <= 1
  \/ /\ Len(invitations) < MaxInvitations
     /\ board = "active" /\ lifecycle = "ready" /\ sub.standing = "current"

(* Nothing is asked about a board that is still being created, nor once    *)
(* the retention is over, and boards are deleted before the last           *)
(* invitation.                                                             *)
Serving ==
  /\ board = "initializing" => InFlight = {} /\ invitations = <<>>
  /\ board = "deleting" => Len(invitations) < MaxInvitations
  /\ sub.standing = "lapsed" => InFlight = {}
=============================================================================
