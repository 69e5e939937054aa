----------------------------- MODULE MCBilling -----------------------------
(* Instances of Billing for TLC.  The constraints are bounds: the first    *)
(* group keeps the cases few, the second leaves out steps that change      *)
(* nothing, or that commute with the ones that are kept.                   *)
EXTENDS Billing, TLC

Symmetry == Permutations(Workers) \cup Permutations(Intents)

Asks == {intent[i] : i \in {j \in Intents : Asked(j)}}
Cancelling == \E r \in Asks : r.kind \in {"cancel", "resume"}
Busy == {w \in Workers : worker[w] # None}

(* Polar sees a purchase and what changes it: what follows a subscription  *)
(* that has ended, or replaces one, is bought from the fixture (see        *)
(* CheckoutsOpen), in two ticks.                                           *)
Follows(r) == r.from # None /\ (r.kind \in {"checkout", "plan_upgrade"} \/ Reduces(r.kind, r.seats, r.from))

(* A second worker races the first one in the first tick, which holds a    *)
(* whole purchase and the request that follows it.                         *)
FewCases ==
  /\ lifecycle # "deleted"
  /\ IF provider = "local" THEN now < 2 ELSE \A r \in Asks : ~ Follows(r)
  /\ \A m \in Members : member[m] \in {"none", "editor"}
  /\ \A r \in Asks : r.kind = "checkout" => r.status # "quoted"
  /\ Cardinality(Busy) > 1 => now = 0

(* The owner and the members act before the last tick, and the members     *)
(* while something is left to be decided.                                  *)
Acts == worker' = worker /\ (now = MaxTime \/ Cancelling
                             \/ \A i \in Intents : Asked(i) /\ intent[i].status = "applied")
FewActs ==
  /\ Acts => member' = member
  /\ now = MaxTime => \A i \in Intents :
       Asked(i)' => Asked(i) /\ intent'[i].confirmed = intent[i].confirmed
  /\ \A i \in Intents : Asked(i) /\ intent[i].confirmed /\ intent[i].status # "scheduled"
                          => intent'[i].confirmed
(* Refunds, and cancellations in the portal, before the second request;    *)
(* what fails or stops, at Polar.                                          *)
FewEvents ==
  /\ provider = "local" => \A s \in Intents : upstream'[s] # None =>
       upstream'[s].state \notin {"renewal_failed", "ended"}
  /\ (provider = "local" \/ \A i \in Intents : Asked(i)) /\ worker' = worker =>
       \A s \in Intents : upstream[s] # None =>
         ~ upstream'[s] = Charged(upstream[s]) /\ (upstream'[s].cancel => upstream[s].cancel)

(* A worker gives up once its lease has run out, and reads on only while   *)
(* it holds the lease; it takes up an applied intent when there is news.   *)
News(i) ==
  LET s == SubscriptionOf(i)
  IN  intent[i].status = "applied" /\ s # None /\ upstream[s] # None =>
        contract[s] = None \/ contract[s].version # Latest(upstream[s])
Passes == \A w \in Workers : worker'[w] # worker[w] =>
  IF worker[w] = None THEN News(worker'[w].intent)
  ELSE IF worker'[w] # None THEN Owns(w) \/ worker[w].of = None
  ELSE intent' # intent \/ ~ Owns(w) \/ (worker[w].of = None /\ provider = "polar")
(* A lease that was taken is used next, or runs out, in the last tick only *)
(* when nobody holds it; a webhook tells of what is not known yet.         *)
Holds(i) == \E w \in Workers : worker[w] # None /\ worker[w].intent = i
Leases ==
  /\ (\E w \in Busy : worker[w].of = None) =>
       worker' # worker \/ \E i \in Intents : Asked(i) /\ intent[i].held /\ intent' = Released(i)
  /\ \A i \in Intents : Asked(i) /\ worker' = worker /\ intent[i].held /\ ~ intent'[i].held
       => (now = 0 /\ provider = "polar") \/ ~ Holds(i)
NoIdleSteps ==
  /\ Passes /\ Leases
  /\ \A s \in heard' \ heard : contract[s] = None
  /\ now' # now => sub # None

FewSteps == FewActs /\ FewEvents /\ NoIdleSteps

(* Nothing fails: no pass is given up or outlives its lease, and the owner *)
(* confirms a quote once.                                                  *)
AsksOnce(i) ==
  \/ \E action \in {"quote", "checkout"}, p \in {"cloud", "team"}, n \in 1..MaxSeats :
       Request(i, action, p, n)
  \/ Asked(i) /\ intent[i].status = "quoted" /\ \E demote \in SUBSET Members : Confirm(i, demote)
LiveNext ==
  \/ \E i \in Intents : AsksOnce(i) \/ (~ Holds(i) /\ LeaseEnds(i))
  \/ Provider \/ Maintain \/ Purge \/ Team \/ Tick
  \/ \E w \in Workers : \/ \E i \in Intents : Lease(w, i)
                       \/ Observe(w) \/ ReadMoney(w) \/ Apply(w) \/ (~ Owns(w) /\ Abandon(w))
LiveSpec == Init /\ [][LiveNext]_vars /\ Fairness
=============================================================================
