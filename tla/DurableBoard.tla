---------------------------- MODULE DurableBoard ----------------------------
(***************************************************************************)
(* What the collaboration service promises about one board, independently  *)
(* of rooms, sockets, locks and processes.                                 *)
(*                                                                         *)
(* The board is one durable row: a revision and a CRDT document, here the  *)
(* set of changes merged into it.  The row only grows, one revision per    *)
(* commit, and a client is told something - that its changes are saved, or *)
(* what the document holds - only when it is already durable.              *)
(***************************************************************************)
EXTENDS Naturals

CONSTANTS
  Peers,    \* clients
  Updates   \* indivisible CRDT changes

VARIABLES
  row,      \* the durable document
  acked,    \* acked[p]: changes p was ever told are saved
  known     \* known[p]: changes disclosed to p's present session

boardVars == <<row, acked, known>>

Documents == [rev : Nat, state : SUBSET Updates]

(* A board document is created at revision 1.                              *)
EmptyDocument == [rev |-> 1, state |-> {}]

Init ==
  /\ row = EmptyDocument
  /\ acked = [p \in Peers |-> {}]
  /\ known = [p \in Peers |-> {}]

(* A set of changes that is not yet contained becomes the next revision.   *)
Commit(U) ==
  /\ ~ (U \subseteq row.state)
  /\ row' = [rev |-> row.rev + 1, state |-> row.state \cup U]
  /\ UNCHANGED <<acked, known>>

(* Client p learns that changes it submitted are durable.                  *)
Acknowledge(p, U) ==
  /\ U \subseteq row.state
  /\ acked' = [acked EXCEPT ![p] = @ \cup U]
  /\ known' = [known EXCEPT ![p] = @ \cup U]
  /\ UNCHANGED row

(* Client p is sent durable changes.                                       *)
Disclose(p, U) ==
  /\ U \subseteq row.state
  /\ known' = [known EXCEPT ![p] = @ \cup U]
  /\ UNCHANGED <<row, acked>>

(* Sessions end, or begin again with nothing disclosed.                    *)
Forget(P) ==
  /\ known' = [p \in Peers |-> IF p \in P THEN {} ELSE known[p]]
  /\ UNCHANGED <<row, acked>>

Next ==
  \/ \E U \in SUBSET Updates : Commit(U)
  \/ \E p \in Peers, U \in SUBSET Updates : Acknowledge(p, U) \/ Disclose(p, U)
  \/ \E P \in SUBSET Peers : Forget(P)

Spec == Init /\ [][Next]_boardVars
=============================================================================
