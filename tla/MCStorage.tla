----------------------------- MODULE MCStorage -----------------------------
(* Instances of Storage for TLC.                                           *)
EXTENDS Storage, TLC

OneByte == [a \in Assets |-> 1]
Symmetry == Permutations(Jobs) \cup Permutations(Workers)

(* Once a second job has been asked for, one worker runs it and nothing    *)
(* else changes; a job grows old only while no worker runs.                *)
Simple == access # "read"
Known == {j \in Jobs : job[j].status # "none"}
Busy == {w \in Workers : worker[w] # None}
Quiet ==
  Cardinality(Known) > 1 =>
    /\ access = "write" /\ lifecycle = "ready" /\ board # "deleting"
    /\ \A j \in Jobs : ~ job[j].aged
    /\ Cardinality(Busy) <= 1
Aging == (\E j \in Jobs : job[j].aged) => Busy = {}
=============================================================================
