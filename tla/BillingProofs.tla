---------------------------- MODULE BillingProofs ----------------------------
(***************************************************************************)
(* Proofs about Billing, for any number of requests, workers and members,  *)
(* any provider, any lengths of periods and any limits: an active          *)
(* subscription was paid for, the time it bought is kept, what takes       *)
(* effect is what was reviewed, and a workspace is purged only after its   *)
(* retention.                                                              *)
(***************************************************************************)
EXTENDS Billing, Integers, FiniteSetTheorems, TLAPS

-----------------------------------------------------------------------------
(* The rows.                                                               *)

(* A subscription at the provider; a renewal that failed did so some day.  *)
Upstreams ==
  {u \in [state : {"pending", "active", "trialing", "renewal_failed", "ended"}, plan : Plans,
          seats : Nat, next : Nat, end : Nat, failed : Nat \cup {None}, cancel : BOOLEAN,
          mod : Nat, money : Nat, charged : SUBSET Nat] :
     u.state = "renewal_failed" => u.failed \in Nat}

(* What is stored of a subscription at the provider.                       *)
Contracts == [version : Nat, state : {"pending", "active", "trialing", "renewal_failed", "ended"}]

(* What a worker holds and has read.                                       *)
Holdings == [intent : Intents, of : Intents \cup {None}, read : Upstreams \cup {None},
             money : BOOLEAN]

(* The subscription exists at the provider.                                *)
Known(s) == upstream[s] \in Upstreams

(* A request that is about a subscription has one, which exists.           *)
Good(r) ==
  /\ r \in IntentRows
  /\ r.kind # "checkout" => r.from # None
  /\ r.from # None => Known(r.from.sid)

-----------------------------------------------------------------------------
(* The invariant.                                                          *)

TypesInv ==
  /\ now \in Nat /\ open \in Nat /\ open <= now
  /\ lifecycle \in {"ready", "purging", "deleted"} /\ plan \in Plans
  /\ member \in [Members -> Roles]
  /\ sub \in SubRows \cup {None}
  /\ intent \in [Intents -> IntentRows \cup {None}]
  /\ upstream \in [Intents -> Upstreams \cup {None}]
  /\ worker \in [Workers -> Holdings \cup {None}]
  /\ contract \in [Intents -> Contracts \cup {None}]
  /\ orders \in [Intents -> SUBSET Nat]

(* Everything that is remembered of a subscription is about one that       *)
(* exists at the provider.                                                 *)
KnownInv ==
  /\ sub # None => Known(sub.sid)
  /\ \A i \in Intents : intent[i] # None => Good(intent[i])
  /\ heard \subseteq {s \in Intents : Known(s)}
  /\ \A s \in Intents : contract[s] # None => Known(s)
  /\ \A w \in Workers : worker[w] # None =>
       /\ Good(intent[worker[w].intent])
       /\ worker[w].read # None => worker[w].of \in Intents /\ Known(worker[w].of)

(* What was paid, how long it lasts, and that nobody edits after that.     *)
PaidInv ==
  sub # None =>
    /\ sub.status = "active" => sub.end \in orders[sub.sid]
    /\ sub.status \in {"trialing", "active"} => sub.grace = None
    /\ open < Deadline(sub)

BillingInv == TypesInv /\ KnownInv /\ PaidInv

-----------------------------------------------------------------------------
(* A request keeps what it is about.                                       *)

Succeeds(r, q) == q \in IntentRows /\ q.kind = r.kind /\ q.from = r.from

(* The rows that the actions make of a request.                            *)
LEMMA RequestUpdates ==
  ASSUME NEW r \in IntentRows
  PROVE  /\ Succeeds(r, r)
         /\ \A b \in BOOLEAN :
              /\ Succeeds(r, [r EXCEPT !.confirmed = b]) /\ Succeeds(r, [r EXCEPT !.held = b])
              /\ Succeeds(r, [r EXCEPT !.moved = b]) /\ Succeeds(r, [r EXCEPT !.source = b])
              /\ Succeeds(r, [r EXCEPT !.checkout = b])
         /\ \A t \in Workers \cup {None} : Succeeds(r, [r EXCEPT !.token = t])
         /\ \A x \in Open \cup {"quoted", "applied", "failed"} : Succeeds(r, [r EXCEPT !.status = x])
         /\ \A x \in {"other", "checkout_ready", "awaiting_team_end"} :
              Succeeds(r, [r EXCEPT !.phase = x])
         /\ \A x \in SUBSET Members : Succeeds(r, [r EXCEPT !.changes = x])
         /\ \A x \in [Members -> Roles] : Succeeds(r, [r EXCEPT !.snapshot = x])
<1>1. Succeeds(r, r)
  BY DEF Succeeds
<1>2. \A b \in BOOLEAN : Succeeds(r, [r EXCEPT !.confirmed = b]) /\ Succeeds(r, [r EXCEPT !.held = b])
  BY DEF Succeeds, IntentRows
<1>3. \A b \in BOOLEAN : Succeeds(r, [r EXCEPT !.moved = b]) /\ Succeeds(r, [r EXCEPT !.source = b])
  BY DEF Succeeds, IntentRows
<1>4. \A b \in BOOLEAN : Succeeds(r, [r EXCEPT !.checkout = b])
  BY DEF Succeeds, IntentRows
<1>5. \A t \in Workers \cup {None} : Succeeds(r, [r EXCEPT !.token = t])
  BY DEF Succeeds, IntentRows
<1>6. \A x \in Open \cup {"quoted", "applied", "failed"} : Succeeds(r, [r EXCEPT !.status = x])
  BY DEF Succeeds, IntentRows
<1>7. \A x \in {"other", "checkout_ready", "awaiting_team_end"} : Succeeds(r, [r EXCEPT !.phase = x])
  BY DEF Succeeds, IntentRows
<1>8. \A x \in SUBSET Members : Succeeds(r, [r EXCEPT !.changes = x])
  BY DEF Succeeds, IntentRows
<1>9. \A x \in [Members -> Roles] : Succeeds(r, [r EXCEPT !.snapshot = x])
  BY DEF Succeeds, IntentRows
<1> QED
  BY <1>1, <1>2, <1>3, <1>4, <1>5, <1>6, <1>7, <1>8, <1>9

(* One row after the other.                                                *)
LEMMA SucceedsThrough ==
  ASSUME NEW r, NEW q, NEW t, Succeeds(r, q), Succeeds(q, t)
  PROVE  Succeeds(r, t)
  BY DEF Succeeds

(* A good request stays good.                                              *)
LEMMA StaysGood ==
  ASSUME NEW r, NEW q, Good(r), Succeeds(r, q), \A s \in Intents : Known(s) => Known(s)'
  PROVE  Good(q)'
  BY DEF Good, Succeeds, IntentRows, SubRows

(* Giving a lease back.                                                    *)
LEMMA ReleasedRow ==
  ASSUME TypesInv, NEW i \in Intents, intent[i] \in IntentRows
  PROVE  /\ Released(i) \in [Intents -> IntentRows \cup {None}]
         /\ Succeeds(intent[i], Released(i)[i])
         /\ \A j \in Intents \ {i} : Released(i)[j] = intent[j]
<1> DEFINE r == intent[i]
           q == [r EXCEPT !.token = None]
           t == [q EXCEPT !.held = FALSE]
<1>1. q \in IntentRows /\ Succeeds(r, q)
  <2>1. Succeeds(r, q)
    BY RequestUpdates
  <2> QED
    BY <2>1 DEF Succeeds
<1>2. Succeeds(q, t)
  BY <1>1, RequestUpdates
<1>3. Succeeds(r, t)
  BY <1>1, <1>2, SucceedsThrough
<1>4. Released(i) = [intent EXCEPT ![i] = t]
  BY DEF Released, TypesInv
<1> HIDE DEF t
<1> QED
  BY <1>3, <1>4 DEF TypesInv, Succeeds

(* Everything moves on, or nothing does.                                   *)
LEMMA MovedRows ==
  ASSUME NEW f \in [Intents -> IntentRows \cup {None}], NEW b \in BOOLEAN
  PROVE  /\ Moved(f, b) \in [Intents -> IntentRows \cup {None}]
         /\ \A i \in Intents : Moved(f, b)[i] = f[i] \/ Succeeds(f[i], Moved(f, b)[i])
<1>1. ASSUME NEW r \in IntentRows
      PROVE  Succeeds(r, [r EXCEPT !.moved = TRUE, !.source = @ \/ b])
  <2> DEFINE q == [r EXCEPT !.moved = TRUE]
             c == q.source \/ b
             t == [q EXCEPT !.source = c]
  <2>1. q \in IntentRows /\ Succeeds(r, q) /\ q.source \in BOOLEAN
    <3>1. Succeeds(r, q)
      BY RequestUpdates
    <3> QED
      BY <3>1 DEF Succeeds, IntentRows
  <2>2. c \in BOOLEAN
    BY <2>1
  <2> HIDE DEF c
  <2>3. Succeeds(q, t)
    BY <2>1, <2>2, RequestUpdates
  <2>4. Succeeds(r, t)
    BY <2>1, <2>3, SucceedsThrough
  <2> QED
    BY <2>4 DEF c
<1>2. ASSUME NEW i \in Intents
      PROVE  /\ Moved(f, b)[i] = f[i] \/ Succeeds(f[i], Moved(f, b)[i])
             /\ Moved(f, b)[i] \in IntentRows \cup {None}
  <2>1. CASE f[i] = None
    BY <2>1 DEF Moved
  <2>2. CASE f[i] # None
    <3>1. f[i] \in IntentRows
      BY <2>2
    <3>2. Moved(f, b)[i] = [f[i] EXCEPT !.moved = TRUE, !.source = @ \/ b]
      BY <2>2 DEF Moved
    <3>3. Succeeds(f[i], Moved(f, b)[i])
      BY <1>1, <3>1, <3>2
    <3> QED
      BY <3>3 DEF Succeeds
  <2> QED
    BY <2>1, <2>2
<1> QED
  BY <1>2 DEF Moved

-----------------------------------------------------------------------------
(* The owner.                                                              *)

(* What the end of a subscription is.                                      *)
LEMMA DeadlineIsADay ==
  ASSUME NEW s \in SubRows
  PROVE  Deadline(s) \in Nat
  BY DEF Deadline, SubRows

(* A quoted request is about the subscription there is, if it needs one.   *)
LEMMA RequestIsGood ==
  ASSUME BillingInv, NEW i \in Intents, NEW action \in {"quote", "checkout", "cancel", "resume"},
         NEW p \in Plans, NEW n \in Nat, Request(i, action, p, n)
  PROVE  \E q \in IntentRows : intent' = [intent EXCEPT ![i] = q] /\ Good(q)
<1> DEFINE k == Kind(action, p)
           later == Reduces(k, n, sub)
           ends == IF later THEN Deadline(sub) ELSE now
           until == IF sub # None /\ sub.status = "trialing" /\ Editable THEN sub.end ELSE None
           taken == IF k = "plan_downgrade" THEN Removals ELSE {}
           q == [kind |-> k, plan |-> p, seats |-> n, from |-> sub,
                 status |-> IF action = "quote" THEN "quoted" ELSE "requested",
                 phase |-> "other", confirmed |-> action # "quote",
                 snapshot |-> member, changes |-> taken,
                 effective |-> ends, trial |-> until,
                 created |-> now, moved |-> FALSE, source |-> FALSE,
                 token |-> None, held |-> FALSE, checkout |-> FALSE]
<1>1. TypesInv /\ KnownInv
  BY DEF BillingInv
<1>2. k \in Kinds /\ (k # "checkout" => sub # None)
  BY DEF Kind, Kinds, Request
<1>3. later => sub \in SubRows
  BY <1>1, <1>2 DEF Reduces, TypesInv
<1>4. ends \in Nat
  BY <1>1, <1>3, DeadlineIsADay DEF TypesInv
<1>5. until \in Nat \cup {None}
  BY <1>1 DEF TypesInv, SubRows
<1>6. taken \in SUBSET Members
  BY DEF Removals
<1>7. intent' = [intent EXCEPT ![i] = q]
  BY DEF Request
<1>8. /\ sub \in SubRows \cup {None} /\ member \in [Members -> Roles] /\ now \in Nat
      /\ sub # None => Known(sub.sid)
  BY <1>1 DEF TypesInv, KnownInv
<1> HIDE DEF k, later, ends, until, taken
<1>9. q \in IntentRows
  BY <1>2, <1>4, <1>5, <1>6, <1>8 DEF IntentRows, Open
<1>10. Good(q)
  BY <1>2, <1>8, <1>9 DEF Good
<1> QED
  BY <1>7, <1>9, <1>10

(* Confirming a request, or quoting it again, is still about the same.     *)
LEMMA OwnerStep ==
  ASSUME BillingInv, NEW i \in Intents, OwnerRequest(i)
  PROVE  /\ \E q \in IntentRows : intent' = [intent EXCEPT ![i] = q] /\ Good(q)
         /\ UNCHANGED <<workspace, sub, books, episode, worker, outside>>
<1>1. UNCHANGED <<workspace, sub, books, episode, worker, outside>>
  BY DEF OwnerRequest, Request, Confirm, CheckoutAfterTeam, Refresh
<1>2. ASSUME NEW action \in {"quote", "checkout", "cancel", "resume"},
             NEW p \in {"cloud", "team"}, NEW n \in 1..MaxSeats, Request(i, action, p, n)
      PROVE  \E q \in IntentRows : intent' = [intent EXCEPT ![i] = q] /\ Good(q)
  BY <1>2, RequestIsGood, BillingAssumption DEF Plans
<1>3. ASSUME Asked(i) PROVE intent[i] \in IntentRows /\ Good(intent[i])
  BY <1>3 DEF Asked, BillingInv, TypesInv, KnownInv
<1>4. ASSUME NEW q, Asked(i), Succeeds(intent[i], q)
      PROVE  q \in IntentRows /\ Good(q)
  BY <1>3, <1>4 DEF Succeeds, Good
<1>5. ASSUME NEW demote \in SUBSET Members, Confirm(i, demote)
      PROVE  \E q \in IntentRows : intent' = [intent EXCEPT ![i] = q] /\ Good(q)
  <2> DEFINE r == intent[i]
             decrease == r.kind = "seat_change" /\ r.seats < sub.seats
             taken == IF decrease THEN demote ELSE r.changes
             status == IF Reduces(r.kind, r.seats, r.from) THEN "scheduled" ELSE "requested"
             phase == IF r.kind # "plan_downgrade" THEN "other"
                      ELSE IF TeamEnded THEN "checkout_ready" ELSE "awaiting_team_end"
             a == [r EXCEPT !.confirmed = TRUE]
             b == [a EXCEPT !.held = FALSE]
             c == [b EXCEPT !.changes = taken]
             d == [c EXCEPT !.status = status]
             e == [d EXCEPT !.phase = phase]
  <2>1. Asked(i) /\ r \in IntentRows
    BY <1>3, <1>5 DEF Confirm, Confirmable
  <2>2. taken \in SUBSET Members
    BY <2>1 DEF IntentRows
  <2>3. /\ status \in Open \cup {"quoted", "applied", "failed"}
        /\ phase \in {"other", "checkout_ready", "awaiting_team_end"}
    BY DEF Open
  <2>4. intent' = [intent EXCEPT ![i] = [r EXCEPT !.confirmed = TRUE, !.held = FALSE,
                                           !.changes = taken, !.status = status, !.phase = phase]]
    BY <1>5 DEF Confirm, TypesInv, BillingInv
  <2> HIDE DEF taken, status, phase
  <2>5. intent' = [intent EXCEPT ![i] = e]
    BY <2>4
  <2>6. Succeeds(r, a) /\ a \in IntentRows
    <3>1. Succeeds(r, a)
      BY <2>1, RequestUpdates
    <3> QED
      BY <3>1 DEF Succeeds
  <2> HIDE DEF a
  <2>7. Succeeds(a, b) /\ b \in IntentRows
    <3>1. Succeeds(a, b)
      BY <2>6, RequestUpdates
    <3> QED
      BY <3>1 DEF Succeeds
  <2> HIDE DEF b
  <2>8. Succeeds(b, c) /\ c \in IntentRows
    <3>1. Succeeds(b, c)
      BY <2>2, <2>7, RequestUpdates
    <3> QED
      BY <3>1 DEF Succeeds
  <2> HIDE DEF c
  <2>9. Succeeds(c, d) /\ d \in IntentRows
    <3>1. Succeeds(c, d)
      BY <2>3, <2>8, RequestUpdates
    <3> QED
      BY <3>1 DEF Succeeds
  <2> HIDE DEF d
  <2>10. Succeeds(d, e)
    BY <2>3, <2>9, RequestUpdates
  <2> HIDE DEF e
  <2>11. Succeeds(r, e)
    BY <2>6, <2>7, <2>8, <2>9, <2>10, SucceedsThrough
  <2> QED
    BY <1>4, <2>1, <2>5, <2>11
<1>6. CASE CheckoutAfterTeam(i)
  <2> DEFINE r == intent[i]
             a == [r EXCEPT !.status = "requested"]
             b == [a EXCEPT !.phase = "other"]
             c == [b EXCEPT !.held = FALSE]
  <2>1. Asked(i) /\ r \in IntentRows
    BY <1>3, <1>6 DEF CheckoutAfterTeam, Confirmable
  <2>2. intent' = [intent EXCEPT ![i] = c]
    BY <1>6 DEF CheckoutAfterTeam, TypesInv, BillingInv
  <2>3. Succeeds(r, c)
    BY <2>1 DEF Succeeds, IntentRows, Open
  <2> HIDE DEF c
  <2> QED
    BY <1>1, <1>4, <2>1, <2>2, <2>3
<1>7. CASE Refresh(i)
  <2> DEFINE r == intent[i]
             taken == IF r.kind = "plan_downgrade" THEN Removals ELSE r.changes
             a == [r EXCEPT !.moved = FALSE, !.source = FALSE]
             b == [a EXCEPT !.snapshot = member]
             c == [b EXCEPT !.confirmed = FALSE, !.phase = "other"]
             d == [c EXCEPT !.changes = taken]
  <2>1. Asked(i) /\ r \in IntentRows
    BY <1>3, <1>7 DEF Refresh
  <2>2. taken \in SUBSET Members /\ member \in [Members -> Roles]
    BY <2>1 DEF IntentRows, Removals, BillingInv, TypesInv
  <2>3. intent' = [intent EXCEPT ![i] = [r EXCEPT !.moved = FALSE, !.source = FALSE,
                     !.snapshot = member, !.confirmed = FALSE, !.phase = "other",
                     !.changes = taken]]
    BY <1>7 DEF Refresh, TypesInv, BillingInv
  <2> HIDE DEF taken
  <2>4. intent' = [intent EXCEPT ![i] = d]
    BY <2>3
  <2>5. Succeeds(r, a) /\ a \in IntentRows
    BY <2>1 DEF Succeeds, IntentRows
  <2> HIDE DEF a
  <2>6. Succeeds(a, b) /\ b \in IntentRows
    BY <2>2, <2>5 DEF Succeeds, IntentRows
  <2> HIDE DEF b
  <2>7. Succeeds(b, c) /\ c \in IntentRows
    BY <2>6 DEF Succeeds, IntentRows
  <2> HIDE DEF c
  <2>8. Succeeds(c, d)
    BY <2>2, <2>7 DEF Succeeds, IntentRows
  <2> HIDE DEF d
  <2>9. Succeeds(r, d)
    BY <2>5, <2>6, <2>7, <2>8, SucceedsThrough
  <2> QED
    BY <1>1, <1>4, <2>1, <2>4, <2>9
<1> QED
  BY <1>1, <1>2, <1>5, <1>6, <1>7 DEF OwnerRequest

-----------------------------------------------------------------------------
(* What keeps the rows known.                                              *)

GoodAt(i) == Good(intent[i])

(* The requests of a step: each good one stays so, and a new one is good.  *)
GoodSteps ==
  \A i \in Intents : /\ GoodAt(i) => GoodAt(i)'
                     /\ intent[i] = None /\ intent'[i] # None => GoodAt(i)'

(* A worker's step: it takes a good request, and what it reads exists.     *)
GoodHolding(h) ==
  /\ GoodAt(h.intent)
  /\ h.read # None => h.of \in Intents /\ Known(h.of)

(* A worker's step that finds the subscription it reads there afterwards.  *)
NewHolding(h) ==
  /\ GoodAt(h.intent)
  /\ h.read # None => h.of \in Intents /\ Known(h.of)'

(* The parts of KnownInv.                                                  *)
LEMMA KnownParts ==
  ASSUME KnownInv
  PROVE  /\ sub # None => Known(sub.sid)
         /\ \A i \in Intents : intent[i] # None => GoodAt(i)
         /\ \A s \in heard : s \in Intents /\ Known(s)
         /\ \A s \in Intents : contract[s] # None => Known(s)
         /\ \A w \in Workers : worker[w] # None => GoodHolding(worker[w])
  BY DEF KnownInv, GoodAt, GoodHolding

(* What a step must show to keep KnownInv.                                 *)
LEMMA KnownKept ==
  ASSUME BillingInv, TypesInv', \A s \in Intents : Known(s) => Known(s)',
         GoodSteps,
         (sub # None => Known(sub.sid))',
         \A s \in Intents : s \in heard' => s \in heard \/ Known(s)',
         heard' \subseteq Intents,
         \A s \in Intents : contract'[s] # None => contract[s] # None \/ Known(s)',
         \A w \in Workers : worker'[w] # None =>
           \/ worker'[w] = worker[w]
           \/ \E h \in Holdings : worker'[w] = h /\ (GoodHolding(h) \/ NewHolding(h))
  PROVE  KnownInv'
<1>1. TypesInv /\ KnownInv
  BY DEF BillingInv
<1>2. ASSUME NEW i \in Intents, intent'[i] # None PROVE Good(intent[i])'
  <2>1. GoodAt(i)'
    BY <1>1, <1>2, KnownParts DEF GoodSteps
  <2> QED
    BY <2>1 DEF GoodAt
<1>3. ASSUME NEW w \in Workers, worker'[w] # None
      PROVE  (/\ Good(intent[worker[w].intent])
              /\ worker[w].read # None => worker[w].of \in Intents /\ Known(worker[w].of))'
  <2>1. PICK h \in Holdings : worker'[w] = h /\ (GoodHolding(h) \/ NewHolding(h))
    <3>1. worker[w] # None => worker[w] \in Holdings /\ GoodHolding(worker[w])
      BY <1>1, KnownParts DEF TypesInv
    <3> QED
      BY <1>3, <3>1
  <2>2. PICK i \in Intents : i = h.intent
    BY DEF Holdings
  <2>3. GoodAt(i)'
    BY <2>1, <2>2 DEF GoodHolding, NewHolding, GoodSteps
  <2>4. Good(intent[h.intent])'
    BY <2>2, <2>3 DEF GoodAt
  <2>5. h.read # None => h.of \in Intents /\ Known(h.of)'
    <3>1. CASE NewHolding(h)
      BY <3>1 DEF NewHolding
    <3>2. CASE GoodHolding(h)
      <4>1. h.read # None => h.of \in Intents /\ Known(h.of)
        BY <3>2 DEF GoodHolding
      <4>2. PICK s : s = h.of
        OBVIOUS
      <4> QED
        BY <4>1, <4>2
    <3> QED
      BY <2>1, <3>1, <3>2
  <2> QED
    BY <2>1, <2>4, <2>5
<1>4. \A s \in heard' : s \in Intents /\ Known(s)'
  BY <1>1, KnownParts
<1>5. \A s \in Intents : contract'[s] # None => Known(s)'
  BY <1>1, KnownParts
<1> QED
  BY <1>2, <1>3, <1>4, <1>5 DEF KnownInv

(* There is a request.                                                     *)
Live(i) == intent[i] # None \/ GoodAt(i)

(* Requests that stay, or are succeeded, are good steps.                   *)
LEMMA SucceedingRequests ==
  ASSUME \A s \in Intents : Known(s) => Known(s)',
         \A i \in Intents : \/ intent'[i] = intent[i]
                            \/ Live(i) /\ Succeeds(intent[i], intent'[i])
  PROVE  GoodSteps
<1>1. ASSUME NEW i \in Intents, GoodAt(i) PROVE GoodAt(i)'
  <2>1. Succeeds(intent[i], intent[i])
    BY <1>1 DEF Good, GoodAt, Succeeds
  <2>2. PICK r : r = intent[i]
    OBVIOUS
  <2>3. PICK q : q = intent'[i]
    OBVIOUS
  <2>4. Good(r) /\ Succeeds(r, q)
    BY <1>1, <2>1, <2>2, <2>3 DEF GoodAt
  <2>5. Good(q)'
    BY <2>4, StaysGood
  <2> QED
    BY <2>3, <2>5 DEF GoodAt
<1> QED
  BY <1>1 DEF GoodSteps, Live

-----------------------------------------------------------------------------
(* The provider.                                                           *)

(* A change or a charge leaves a subscription one.                         *)
LEMMA UpstreamUpdates ==
  ASSUME NEW u \in Upstreams
  PROVE  /\ Changed(u) \in Upstreams /\ Charged(u) \in Upstreams
         /\ \A b \in BOOLEAN : [Changed(u) EXCEPT !.cancel = b] \in Upstreams
<1>1. Latest(u) + 1 \in Nat
  BY DEF Latest, Upstreams
<1>2. ASSUME NEW n \in Nat
      PROVE  [u EXCEPT !.mod = n] \in Upstreams /\ [u EXCEPT !.money = n] \in Upstreams
  BY DEF Upstreams
<1>3. Changed(u) \in Upstreams /\ Charged(u) \in Upstreams
  BY <1>1, <1>2 DEF Changed, Charged
<1>4. ASSUME NEW v \in Upstreams, NEW b \in BOOLEAN PROVE [v EXCEPT !.cancel = b] \in Upstreams
  BY DEF Upstreams
<1> QED
  BY <1>3, <1>4

(* A request that has just been made of the provider.                      *)
LEMMA PendingIsUpstream ==
  ASSUME NEW i \in Intents, intent[i] \in IntentRows
  PROVE  Pending(i) \in Upstreams
  BY DEF Pending, IntentRows, Upstreams

(* One subscription at the provider changes, and nothing else.             *)
LEMMA SupplyStep ==
  ASSUME BillingInv, NEW s \in Intents, NEW u \in Upstreams, Supplies(s, u)
  PROVE  BillingInv'
<1>1. TypesInv /\ KnownInv /\ PaidInv
  BY DEF BillingInv
<1>2. /\ upstream' = [upstream EXCEPT ![s] = u]
      /\ UNCHANGED <<lifecycle, plan, member, sub, intent, contract, orders, worker, now, open, heard>>
  BY DEF Supplies, workspace, books, time
<1>3. TypesInv'
  BY <1>1, <1>2 DEF TypesInv
<1>4. \A t \in Intents : Known(t) => Known(t)'
  BY <1>1, <1>2 DEF TypesInv, Known
<1>5. GoodSteps
  BY <1>2, <1>4, SucceedingRequests
<1>6. (sub # None => Known(sub.sid))'
  <2>1. sub # None => sub.sid \in Intents /\ Known(sub.sid)
    BY <1>1 DEF TypesInv, KnownInv, SubRows
  <2>2. PICK t : t = sub.sid
    OBVIOUS
  <2> QED
    BY <1>2, <1>4, <2>1, <2>2
<1>7. heard' \subseteq Intents
  BY <1>1, <1>2, KnownParts
<1>8. KnownInv'
  BY <1>2, <1>3, <1>4, <1>5, <1>6, <1>7, KnownKept
<1>9. PaidInv'
  BY <1>1, <1>2 DEF PaidInv, Deadline
<1> QED
  BY <1>3, <1>8, <1>9 DEF BillingInv

(* What happens to subscriptions at the provider.                          *)
LEMMA ProviderKeeps ==
  ASSUME BillingInv, ProviderStep
  PROVE  BillingInv'
<1>1. TypesInv /\ KnownInv /\ now \in Nat
  BY DEF BillingInv, TypesInv
<1>2. PICK s \in Intents : \/ Pays(s) \/ Renews(s) \/ Charges(s) \/ RenewalFails(s) \/ Stops(s)
                           \/ Flips(s) \/ Refunds(s)
  BY DEF ProviderStep
<1> DEFINE u == upstream[s]
           v == Changed(u)
<1>3. ASSUME Alive(s) PROVE u \in Upstreams /\ v \in Upstreams
  <2>1. u \in Upstreams
    BY <1>1, <1>3 DEF Alive, TypesInv
  <2> QED
    BY <2>1, UpstreamUpdates
<1>4. Period \in Nat /\ Trial \in Nat
  BY BillingAssumption
<1>5. CASE Pays(s)
  <2> DEFINE p == Pending(s)
             c == Changed(p)
  <2>1. Asked(s) /\ intent[s] \in IntentRows
    BY <1>1, <1>5 DEF Pays, Payable, Asked, TypesInv
  <2>2. c \in Upstreams
    BY <2>1, PendingIsUpstream, UpstreamUpdates
  <2>3. Ends(s) \subseteq Nat
    BY <1>1, <1>4, <2>1 DEF Ends, IntentRows, SubRows
  <2> HIDE DEF c
  <2>4. ASSUME NEW e \in Nat
        PROVE  [c EXCEPT !.state = "active", !.end = e, !.money = 1, !.charged = {e}] \in Upstreams
    BY <2>2 DEF Upstreams
  <2>5. ASSUME NEW e \in Nat PROVE [c EXCEPT !.state = "trialing", !.end = e] \in Upstreams
    BY <2>2 DEF Upstreams
  <2>6. now + Trial \in Nat
    BY <1>1, <1>4
  <2>7. PICK q \in Upstreams : Supplies(s, q)
    BY <1>5, <2>3, <2>4, <2>5, <2>6 DEF Pays, c
  <2> QED
    BY <2>7, SupplyStep
<1>6. CASE Renews(s)
  <2> DEFINE q == [v EXCEPT !.state = "active", !.end = now + Period, !.seats = u.next,
                            !.failed = None]
  <2>1. Alive(s) /\ Supplies(s, q)
    BY <1>6 DEF Renews
  <2>2. v \in Upstreams /\ u.next \in Nat /\ now + Period \in Nat
    BY <1>1, <1>3, <1>4, <2>1 DEF Upstreams
  <2> HIDE DEF v
  <2>3. q \in Upstreams
    BY <2>2 DEF Upstreams
  <2> QED
    BY <2>1, <2>3, SupplyStep
<1>7. CASE Charges(s)
  <2> DEFINE c == Charged(u)
             q == [c EXCEPT !.charged = @ \cup {u.end}]
  <2>1. Alive(s) /\ Supplies(s, q)
    BY <1>7 DEF Charges
  <2>2. c \in Upstreams /\ u.end \in Nat
    BY <1>3, <2>1, UpstreamUpdates DEF Upstreams
  <2> HIDE DEF c
  <2>3. q \in Upstreams
    BY <2>2 DEF Upstreams
  <2> QED
    BY <2>1, <2>3, SupplyStep
<1>8. CASE RenewalFails(s)
  <2> DEFINE q == [v EXCEPT !.state = "renewal_failed", !.failed = now]
  <2>1. Alive(s) /\ Supplies(s, q)
    BY <1>8 DEF RenewalFails, Running
  <2>2. v \in Upstreams
    BY <1>3, <2>1
  <2> HIDE DEF v
  <2>3. q \in Upstreams
    BY <1>1, <2>2 DEF Upstreams
  <2> QED
    BY <2>1, <2>3, SupplyStep
<1>9. CASE Stops(s)
  <2> DEFINE q == [v EXCEPT !.state = "ended"]
  <2>1. Alive(s) /\ Supplies(s, q)
    BY <1>9 DEF Stops
  <2>2. v \in Upstreams
    BY <1>3, <2>1
  <2> HIDE DEF v
  <2>3. q \in Upstreams
    BY <2>2 DEF Upstreams
  <2> QED
    BY <2>1, <2>3, SupplyStep
<1>10. CASE Flips(s)
  <2> DEFINE q == [v EXCEPT !.cancel = ~ @]
  <2>1. Alive(s) /\ Supplies(s, q)
    BY <1>10 DEF Flips, Running
  <2>2. v \in Upstreams
    BY <1>3, <2>1
  <2> HIDE DEF v
  <2>3. q \in Upstreams
    BY <2>2 DEF Upstreams
  <2> QED
    BY <2>1, <2>3, SupplyStep
<1>11. CASE Refunds(s)
  <2>1. Alive(s) /\ Supplies(s, Charged(u))
    BY <1>11 DEF Refunds
  <2>2. Charged(u) \in Upstreams
    BY <1>3, <2>1, UpstreamUpdates
  <2> QED
    BY <2>1, <2>2, SupplyStep
<1> QED
  BY <1>2, <1>5, <1>6, <1>7, <1>8, <1>9, <1>10, <1>11

(* A webhook tells of what exists.                                         *)
LEMMA WebhookKeeps ==
  ASSUME BillingInv, NEW s \in Intents, Webhook(s)
  PROVE  BillingInv'
<1>1. TypesInv /\ KnownInv /\ PaidInv
  BY DEF BillingInv
<1>2. /\ heard' = heard \cup {s}
      /\ UNCHANGED <<lifecycle, plan, member, sub, intent, contract, orders, worker, now, open, upstream>>
  BY DEF Webhook, workspace, books, time
<1>3. Known(s)
  BY <1>1 DEF Webhook, Known, TypesInv
<1>4. TypesInv'
  BY <1>1, <1>2 DEF TypesInv
<1>5. \A t : Known(t)' = Known(t)
  BY <1>2 DEF Known
<1>6. GoodSteps
  BY <1>2, <1>5, SucceedingRequests
<1>7. (sub # None => Known(sub.sid))'
  BY <1>1, <1>2 DEF KnownInv, Known
<1>8. heard' \subseteq Intents
  BY <1>1, <1>2, KnownParts
<1>9. KnownInv'
  BY <1>2, <1>3, <1>4, <1>5, <1>6, <1>7, <1>8, KnownKept
<1>10. PaidInv'
  BY <1>1, <1>2 DEF PaidInv, Deadline
<1> QED
  BY <1>4, <1>9, <1>10 DEF BillingInv

-----------------------------------------------------------------------------
(* The worker reads.                                                       *)

(* Requests and workers change, and at the provider what they ask for.     *)
LEMMA ReadingStep ==
  ASSUME BillingInv,
         UNCHANGED <<lifecycle, plan, member, sub, contract, orders, now, open, heard>>,
         intent' \in [Intents -> IntentRows \cup {None}],
         upstream' \in [Intents -> Upstreams \cup {None}],
         worker' \in [Workers -> Holdings \cup {None}],
         \A s \in Intents : Known(s) => Known(s)',
         GoodSteps,
         \A w \in Workers : worker'[w] # None =>
           \/ worker'[w] = worker[w]
           \/ \E h \in Holdings : worker'[w] = h /\ (GoodHolding(h) \/ NewHolding(h))
  PROVE  BillingInv'
<1>1. TypesInv /\ KnownInv /\ PaidInv
  BY DEF BillingInv
<1>2. TypesInv'
  BY <1>1 DEF TypesInv
<1>3. (sub # None => Known(sub.sid))'
  <2>1. sub # None => sub.sid \in Intents /\ Known(sub.sid)
    BY <1>1 DEF TypesInv, KnownInv, SubRows
  <2>2. PICK t : t = sub.sid
    OBVIOUS
  <2> QED
    BY <2>1, <2>2
<1>4. heard' \subseteq Intents
  BY <1>1, KnownParts
<1>5. KnownInv'
  BY <1>2, <1>3, <1>4, KnownKept
<1>6. PaidInv'
  BY <1>1 DEF PaidInv, Deadline
<1> QED
  BY <1>2, <1>5, <1>6 DEF BillingInv

(* The owner's requests are such a step.                                   *)
LEMMA OwnerKeeps ==
  ASSUME BillingInv, NEW i \in Intents, OwnerRequest(i)
  PROVE  BillingInv'
<1>1. PICK q \in IntentRows : intent' = [intent EXCEPT ![i] = q] /\ Good(q)
  BY OwnerStep
<1>2. UNCHANGED <<lifecycle, plan, member, sub, contract, orders, worker, now, open, upstream, heard>>
  BY OwnerStep DEF workspace, books, time, outside
<1>3. TypesInv
  BY DEF BillingInv
<1>4. \A s : Known(s)' = Known(s)
  BY <1>2 DEF Known
<1>5. Good(q)'
  BY <1>1, <1>4 DEF Good
<1>6. GoodSteps
  <2>1. ASSUME NEW j \in Intents PROVE (GoodAt(j) \/ intent'[j] # intent[j]) => GoodAt(j)'
    <3>1. CASE j = i
      BY <1>1, <1>3, <1>5, <3>1 DEF GoodAt, TypesInv
    <3>2. CASE j # i
      <4>1. intent'[j] = intent[j]
        BY <1>1, <1>3, <3>2 DEF TypesInv
      <4> QED
        BY <1>4, <4>1 DEF GoodAt, Good
    <3> QED
      BY <3>1, <3>2
  <2> QED
    BY <2>1 DEF GoodSteps
<1>7. /\ intent' \in [Intents -> IntentRows \cup {None}]
      /\ upstream' \in [Intents -> Upstreams \cup {None}]
      /\ worker' \in [Workers -> Holdings \cup {None}]
  BY <1>1, <1>2, <1>3 DEF TypesInv
<1> QED
  BY <1>2, <1>4, <1>6, <1>7, ReadingStep

(* A lease, its end, and a pass given up.                                  *)
LEMMA LeaseKeeps ==
  ASSUME BillingInv,
         \/ \E w \in Workers, i \in Intents : Lease(w, i)
         \/ \E i \in Intents : LeaseEnds(i)
         \/ \E w \in Workers : Abandon(w)
  PROVE  BillingInv'
<1>1. TypesInv /\ KnownInv
  BY DEF BillingInv
<1>2. UNCHANGED <<lifecycle, plan, member, sub, contract, orders, now, open, upstream, heard>>
  BY DEF Lease, LeaseEnds, Abandon, workspace, books, time, outside
<1>3. \A s : Known(s)' = Known(s)
  BY <1>2 DEF Known
<1>4. upstream' \in [Intents -> Upstreams \cup {None}]
  BY <1>1, <1>2 DEF TypesInv
<1>5. CASE \E w \in Workers, i \in Intents : Lease(w, i)
  <2>1. PICK w \in Workers, i \in Intents : Lease(w, i)
    BY <1>5
  <2> DEFINE h == [intent |-> i, of |-> None, read |-> None, money |-> FALSE]
             q == [intent[i] EXCEPT !.token = w, !.held = TRUE]
  <2>2. intent[i] # None /\ intent[i] \in IntentRows /\ GoodAt(i)
    BY <1>1, <2>1, KnownParts DEF Lease, Leasable, Asked, TypesInv
  <2>3. Succeeds(intent[i], q) /\ q \in IntentRows
    BY <2>2 DEF Succeeds, IntentRows
  <2>4. intent' = [intent EXCEPT ![i] = q]
    BY <1>1, <2>1 DEF Lease, TypesInv
  <2>5. h \in Holdings /\ h.intent = i /\ h.read = None
    BY DEF Holdings
  <2>6. worker' = [worker EXCEPT ![w] = h]
    BY <2>1 DEF Lease
  <2> HIDE DEF h, q
  <2>7. GoodHolding(h)
    BY <2>2, <2>5 DEF GoodHolding
  <2>8. \A j \in Intents : intent'[j] = intent[j] \/ (Live(j) /\ Succeeds(intent[j], intent'[j]))
    BY <1>1, <2>2, <2>3, <2>4 DEF TypesInv, Live
  <2>9. GoodSteps
    BY <1>3, <2>8, SucceedingRequests
  <2>10. /\ intent' \in [Intents -> IntentRows \cup {None}]
         /\ worker' \in [Workers -> Holdings \cup {None}]
         /\ \A x \in Workers : worker'[x] # None =>
              worker'[x] = worker[x] \/ \E y \in Holdings : worker'[x] = y /\ GoodHolding(y)
    BY <1>1, <2>3, <2>4, <2>5, <2>6, <2>7 DEF TypesInv
  <2> QED
    BY <1>2, <1>3, <1>4, <2>9, <2>10, ReadingStep
<1>6. CASE \E i \in Intents : LeaseEnds(i)
  <2>1. PICK i \in Intents : LeaseEnds(i)
    BY <1>6
  <2>2. intent[i] # None /\ intent[i] \in IntentRows /\ worker' = worker
    BY <1>1, <2>1 DEF LeaseEnds, Asked, TypesInv
  <2>3. intent' = Released(i)
    BY <2>1 DEF LeaseEnds, Released
  <2>4. \A j \in Intents : intent'[j] = intent[j] \/ (Live(j) /\ Succeeds(intent[j], intent'[j]))
    BY <1>1, <2>2, <2>3, ReleasedRow DEF Live
  <2>5. GoodSteps
    BY <1>3, <2>4, SucceedingRequests
  <2>6. /\ intent' \in [Intents -> IntentRows \cup {None}]
        /\ worker' \in [Workers -> Holdings \cup {None}]
    BY <1>1, <2>2, <2>3, ReleasedRow DEF TypesInv
  <2> QED
    BY <1>2, <1>3, <1>4, <2>2, <2>5, <2>6, ReadingStep
<1>7. CASE \E w \in Workers : Abandon(w)
  <2>1. PICK w \in Workers : Abandon(w)
    BY <1>7
  <2>2. intent' = intent /\ worker' = [worker EXCEPT ![w] = None]
    BY <2>1 DEF Abandon, Gone
  <2>3. GoodSteps
    BY <1>3, <2>2, SucceedingRequests
  <2>4. /\ intent' \in [Intents -> IntentRows \cup {None}]
        /\ worker' \in [Workers -> Holdings \cup {None}]
        /\ \A x \in Workers : worker'[x] # None => worker'[x] = worker[x]
    BY <1>1, <2>2 DEF TypesInv
  <2> QED
    BY <1>2, <1>3, <1>4, <2>3, <2>4, ReadingStep
<1> QED
  BY <1>5, <1>6, <1>7

(* A worker puts down what it has read of the subscription it is about.    *)
LEMMA ObservingStep ==
  ASSUME BillingInv, NEW w \in Workers, worker[w] # None,
         UNCHANGED <<lifecycle, plan, member, sub, intent, contract, orders, now, open, heard>>,
         upstream' \in [Intents -> Upstreams \cup {None}],
         \A s \in Intents : Known(s) => Known(s)',
         NEW h \in Holdings \cup {None},
         worker' = [worker EXCEPT ![w] = h],
         h # None => h.intent = worker[w].intent,
         h # None /\ h.read # None => h.of \in Intents /\ Known(h.of)'
  PROVE  BillingInv'
<1>1. TypesInv /\ KnownInv
  BY DEF BillingInv
<1>2. GoodSteps
  BY SucceedingRequests
<1>3. GoodAt(worker[w].intent)
  BY <1>1, KnownParts DEF GoodHolding
<1>4. h # None => h \in Holdings /\ NewHolding(h)
  BY <1>3 DEF NewHolding
<1>5. /\ intent' \in [Intents -> IntentRows \cup {None}]
      /\ worker' \in [Workers -> Holdings \cup {None}]
  BY <1>1 DEF TypesInv
<1>6. \A x \in Workers : worker'[x] # None =>
        worker'[x] = worker[x] \/ \E y \in Holdings : worker'[x] = y /\ (GoodHolding(y) \/ NewHolding(y))
  BY <1>1, <1>4 DEF TypesInv
<1> QED
  BY <1>2, <1>5, <1>6, ReadingStep

(* What a worker holds, field by field.                                    *)
LEMMA HoldingFields ==
  ASSUME NEW x \in Holdings, NEW v, NEW b
  PROVE  /\ [x EXCEPT !.money = b] = [intent |-> x.intent, of |-> x.of, read |-> x.read, money |-> b]
         /\ [x EXCEPT !.read = v] = [intent |-> x.intent, of |-> x.of, read |-> v, money |-> x.money]
  BY DEF Holdings

(* What a worker holds once it has read.                                   *)
LEMMA HoldingRows ==
  ASSUME NEW x \in Holdings, NEW s, NEW v
  PROVE  [x EXCEPT !.of = s, !.read = v] =
           [intent |-> x.intent, of |-> s, read |-> v, money |-> x.money]
<1>1. PICK a : a = [x EXCEPT !.of = s]
  OBVIOUS
<1>2. a = [intent |-> x.intent, of |-> s, read |-> x.read, money |-> x.money]
  BY <1>1 DEF Holdings
<1>3. [a EXCEPT !.read = v] = [intent |-> x.intent, of |-> s, read |-> v, money |-> x.money]
  BY <1>2
<1> QED
  BY <1>1, <1>3

(* The fixture answers about the operation it opens for the request.       *)
LEMMA ObserveLocalKeeps ==
  ASSUME BillingInv, NEW w \in Workers, ObserveLocal(w)
  PROVE  BillingInv'
<1>1. TypesInv /\ KnownInv
  BY DEF BillingInv
<1>2. worker[w] # None /\ worker[w] \in Holdings /\ GoodHolding(worker[w])
  BY <1>1, KnownParts DEF ObserveLocal, Started, TypesInv
<1> DEFINE i == worker[w].intent
           r == intent[i]
           made == IF upstream[i] # None THEN upstream ELSE [upstream EXCEPT ![i] = Pending(i)]
           cancels == upstream[i] = None /\ Cancels(r) /\ contract[r.from.sid] # None
           told == IF cancels
                   THEN [made EXCEPT ![r.from.sid] = [Changed(@) EXCEPT !.cancel = r.kind # "resume"]]
                   ELSE made
<1>3. i \in Intents /\ Good(r) /\ r \in IntentRows
  BY <1>2 DEF GoodHolding, GoodAt, Good, Holdings
<1>4. /\ upstream' = told
      /\ worker' = [worker EXCEPT ![w].of = i, ![w].read = told[i], ![w].money = TRUE]
      /\ UNCHANGED <<lifecycle, plan, member, sub, intent, contract, orders, now, open, heard>>
  BY DEF ObserveLocal, workspace, books, time
<1>5. made \in [Intents -> Upstreams \cup {None}] /\ made[i] \in Upstreams
  BY <1>1, <1>3, PendingIsUpstream DEF TypesInv
<1>6. \A s \in Intents : Known(s) => made[s] \in Upstreams
  BY <1>1, <1>5 DEF TypesInv, Known
<1>7. cancels => r.from.sid \in Intents /\ Known(r.from.sid)
  <2>1. Cancels(r) => r.kind # "checkout"
    BY DEF Cancels
  <2> QED
    BY <1>3, <2>1 DEF Good, IntentRows, SubRows
<1> HIDE DEF made
<1>8. /\ told \in [Intents -> Upstreams \cup {None}] /\ told[i] \in Upstreams
      /\ \A s \in Intents : Known(s) => told[s] \in Upstreams
  <2>1. CASE cancels
    <3>1. PICK t \in Intents : t = r.from.sid /\ made[t] \in Upstreams
      BY <1>6, <1>7, <2>1
    <3>2. PICK v \in Upstreams : v = [Changed(made[t]) EXCEPT !.cancel = r.kind # "resume"]
      BY <3>1, UpstreamUpdates
    <3>3. told = [made EXCEPT ![t] = v]
      BY <2>1, <3>1, <3>2
    <3> QED
      BY <1>3, <1>5, <1>6, <3>3
  <2>2. CASE ~ cancels
    BY <1>5, <1>6, <2>2
  <2> QED
    BY <2>1, <2>2
<1> HIDE DEF told, cancels
<1>9. PICK q : q = told
  OBVIOUS
<1>10. PICK j \in Intents : j = i
  BY <1>3
<1>11. PICK h : h = [intent |-> j, of |-> j, read |-> q[j], money |-> TRUE]
  OBVIOUS
<1>12. h \in Holdings /\ worker' = [worker EXCEPT ![w] = h]
  <2>1. h \in Holdings
    BY <1>8, <1>9, <1>10, <1>11 DEF Holdings
  <2>2. PICK x \in Holdings : x = worker[w]
    BY <1>2
  <2>3. worker' = [worker EXCEPT ![w] = [x EXCEPT !.of = j, !.read = q[j], !.money = TRUE]]
    BY <1>1, <1>4, <1>9, <1>10, <2>2 DEF TypesInv
  <2>4. [x EXCEPT !.of = j, !.read = q[j], !.money = TRUE] = h
    <3>1. PICK v : v = q[j]
      OBVIOUS
    <3>2. PICK a : a = [x EXCEPT !.of = j, !.read = v]
      OBVIOUS
    <3>3. a = [intent |-> x.intent, of |-> j, read |-> v, money |-> x.money]
      BY <3>2, HoldingRows
    <3>4. a \in Holdings
      BY <1>8, <1>9, <1>10, <3>1, <3>3 DEF Holdings
    <3>5. [a EXCEPT !.money = TRUE] = [intent |-> x.intent, of |-> j, read |-> v, money |-> TRUE]
      <4>1. a.intent = x.intent /\ a.of = j /\ a.read = v
        BY <3>3
      <4> QED
        BY <3>4, <4>1, HoldingFields
    <3> QED
      BY <1>10, <1>11, <2>2, <3>1, <3>2, <3>5
  <2> QED
    BY <2>1, <2>3, <2>4
<1>13. \A s \in Intents : Known(s) => Known(s)'
  BY <1>4, <1>8 DEF Known
<1>14. h.of = j /\ Known(j)'
  BY <1>4, <1>8, <1>10, <1>11 DEF Known
<1>15. h.intent = worker[w].intent
  BY <1>10, <1>11
<1> QED
  BY <1>2, <1>4, <1>8, <1>12, <1>13, <1>14, <1>15, ObservingStep

(* What the provider makes of a request leaves a subscription one.         *)
LEMMA PatchedIsUpstream ==
  ASSUME NEW r \in IntentRows, upstream[r.from.sid] \in Upstreams, r.from \in SubRows
  PROVE  Patched(r) \in Upstreams
<1>1. PICK u \in Upstreams : u = upstream[r.from.sid]
  OBVIOUS
<1>2. r.seats \in Nat
  BY DEF IntentRows
<1>3. ASSUME NEW b \in BOOLEAN PROVE [u EXCEPT !.cancel = b] \in Upstreams
  BY DEF Upstreams
<1>4. ASSUME NEW n \in Nat PROVE [u EXCEPT !.next = n] \in Upstreams
  BY DEF Upstreams
<1>5. ASSUME NEW n \in Nat PROVE [u EXCEPT !.seats = n, !.next = n] \in Upstreams
  <2>1. [u EXCEPT !.seats = n] \in Upstreams
    BY DEF Upstreams
  <2>2. PICK v \in Upstreams : v = [u EXCEPT !.seats = n]
    BY <2>1
  <2>3. [v EXCEPT !.next = n] \in Upstreams
    BY DEF Upstreams
  <2> QED
    BY <2>2, <2>3
<1>6. Mutated(r, u) \in Upstreams
  BY <1>2, <1>3, <1>4, <1>5 DEF Mutated
<1>7. PICK m \in Upstreams : m = Mutated(r, u)
  BY <1>6
<1>8. Patched(r) = IF m = u THEN u ELSE Changed(m)
  BY <1>1, <1>7 DEF Patched
<1> QED
  BY <1>8, UpstreamUpdates

(* A worker's reading of a subscription, or nothing if it does not match.  *)
LEMMA ObservesKeeps ==
  ASSUME BillingInv, NEW w \in Workers, Started(w),
         UNCHANGED <<lifecycle, plan, member, sub, intent, contract, orders, now, open, heard>>,
         NEW s \in Intents, NEW u \in Upstreams \cup {None},
         u # None => u = upstream'[s],
         Reads(w, s, u) \/ Gone(w),
         upstream' \in [Intents -> Upstreams \cup {None}],
         \A t \in Intents : Known(t) => Known(t)'
  PROVE  BillingInv'
<1>1. TypesInv
  BY DEF BillingInv
<1>2. PICK x \in Holdings : x = worker[w] /\ x # None
  BY <1>1 DEF Started, TypesInv
<1>3. CASE Reads(w, s, u)
  <2> DEFINE y == [intent |-> x.intent, of |-> s, read |-> u, money |-> x.money]
  <2>1. y \in Holdings /\ y.intent = x.intent /\ y.read = u /\ y.of = s
    BY DEF Holdings
  <2>2. worker' = [worker EXCEPT ![w] = [x EXCEPT !.of = s, !.read = u]]
    BY <1>1, <1>2, <1>3 DEF Reads, TypesInv
  <2>3. worker' = [worker EXCEPT ![w] = y]
    <3>1. [x EXCEPT !.of = s, !.read = u] = y
      BY Zenon, HoldingRows
    <3> HIDE DEF y
    <3> QED
      BY <2>2, <3>1
  <2>4. u # None => Known(s)'
    BY DEF Known
  <2> HIDE DEF y
  <2>5. PICK h : h = y
    OBVIOUS
  <2>6. h.read # None => h.of \in Intents /\ Known(h.of)'
    BY <2>1, <2>4, <2>5
  <2> QED
    BY <1>2, <2>1, <2>3, <2>5, <2>6, ObservingStep
<1>4. CASE Gone(w)
  <2>1. worker' = [worker EXCEPT ![w] = None]
    BY <1>4 DEF Gone
  <2>2. PICK h : h = None
    OBVIOUS
  <2> QED
    BY <1>2, <2>1, <2>2, ObservingStep
<1> QED
  BY <1>3, <1>4

(* The provider is asked: a change, a look, or a checkout.                 *)
LEMMA ObservePolarKeeps ==
  ASSUME BillingInv, NEW w \in Workers, ObservePolar(w)
  PROVE  BillingInv'
<1>1. TypesInv /\ KnownInv
  BY DEF BillingInv
<1>2. /\ Started(w)
      /\ UNCHANGED <<lifecycle, plan, member, sub, intent, contract, orders, now, open, heard>>
  BY DEF ObservePolar, workspace, books, time
<1>3. PICK i \in Intents, r \in IntentRows : i = worker[w].intent /\ r = intent[i] /\ Good(r)
  BY <1>1, <1>2, KnownParts DEF Started, GoodHolding, GoodAt, Good, Holdings, TypesInv
<1>4. CASE Mutate(w)
  <2>1. r.from \in SubRows /\ Known(r.from.sid)
    BY <1>3, <1>4 DEF Mutate, Mutates, Good, IntentRows
  <2>2. PICK s \in Intents : s = r.from.sid
    BY <2>1 DEF SubRows
  <2>3. Patched(r) \in Upstreams
    BY <2>1, PatchedIsUpstream DEF Known
  <2>4. PICK u \in Upstreams : u = Patched(r)
    BY <2>3
  <2>5. /\ upstream' = [upstream EXCEPT ![s] = u]
        /\ Observes(w, s, u)
    BY <1>3, <1>4, <2>2, <2>4 DEF Mutate
  <2>6. Reads(w, s, u) \/ Gone(w)
    BY <2>5 DEF Observes
  <2>7. /\ upstream' \in [Intents -> Upstreams \cup {None}] /\ u = upstream'[s]
        /\ \A t \in Intents : Known(t) => Known(t)'
    BY <1>1, <2>5 DEF TypesInv, Known
  <2> QED
    BY <1>2, <2>6, <2>7, ObservesKeeps
<1>5. CASE Retrieve(w)
  <2> DEFINE replaces == /\ r.kind = "plan_upgrade" /\ SubscriptionOf(i) # None
                         /\ r.from.sid # SubscriptionOf(i)
                         /\ upstream[SubscriptionOf(i)].state = "active"
                         /\ ~ upstream[r.from.sid].cancel
  <2>1. /\ SubscriptionOf(i) # None
        /\ upstream' = IF replaces
                       THEN [upstream EXCEPT ![r.from.sid] = [Changed(@) EXCEPT !.cancel = TRUE]]
                       ELSE upstream
        /\ Observes(w, SubscriptionOf(i), upstream[SubscriptionOf(i)])
    BY <1>3, <1>5 DEF Retrieve
  <2>2. SubscriptionOf(i) \in Intents /\ Known(SubscriptionOf(i))
    BY <1>1, <1>3, <2>1, KnownParts DEF SubscriptionOf, Good, IntentRows, SubRows
  <2>3. PICK s \in Intents : s = SubscriptionOf(i) /\ upstream[s] \in Upstreams
    BY <2>2 DEF Known
  <2>4. Reads(w, s, upstream[s]) \/ Gone(w)
    BY <2>1, <2>3 DEF Observes
  <2>5. replaces => r.from.sid \in Intents /\ Known(r.from.sid) /\ r.from.sid # s
    BY <1>3, <2>3 DEF Good, IntentRows, SubRows
  <2> HIDE DEF replaces
  <2>6. /\ upstream' \in [Intents -> Upstreams \cup {None}] /\ upstream'[s] = upstream[s]
        /\ \A t \in Intents : Known(t) => Known(t)'
    <3>1. CASE replaces
      <4>1. PICK o \in Intents : o = r.from.sid /\ upstream[o] \in Upstreams /\ o # s
        BY <2>5, <3>1 DEF Known
      <4>2. PICK v \in Upstreams : v = [Changed(upstream[o]) EXCEPT !.cancel = TRUE]
        BY <4>1, UpstreamUpdates
      <4>3. upstream' = [upstream EXCEPT ![o] = v]
        BY <2>1, <3>1, <4>1, <4>2
      <4> QED
        BY <1>1, <4>1, <4>3 DEF TypesInv, Known
    <3>2. CASE ~ replaces
      BY <1>1, <2>1, <3>2 DEF TypesInv, Known
    <3> QED
      BY <3>1, <3>2
  <2>7. PICK u \in Upstreams : u = upstream[s]
    BY <2>3
  <2> QED
    BY <1>2, <2>4, <2>6, <2>7, ObservesKeeps
<1>6. CASE OpenCheckout(w)
  <2>1. Reads(w, i, None) /\ upstream' = upstream
    BY <1>3, <1>6 DEF OpenCheckout
  <2>2. /\ upstream' \in [Intents -> Upstreams \cup {None}]
        /\ \A t \in Intents : Known(t) => Known(t)'
    BY <1>1, <2>1 DEF TypesInv, Known
  <2> QED
    BY <1>2, <2>1, <2>2, ObservesKeeps
<1> QED
  BY <1>4, <1>5, <1>6 DEF ObservePolar

(* The orders and refunds are those of the subscription that was read.     *)
LEMMA ReadMoneyKeeps ==
  ASSUME BillingInv, NEW w \in Workers, ReadMoney(w)
  PROVE  BillingInv'
<1>1. TypesInv /\ KnownInv
  BY DEF BillingInv
<1>2. /\ worker[w] # None /\ worker[w].read # None
      /\ UNCHANGED <<lifecycle, plan, member, sub, intent, contract, orders, now, open, upstream, heard>>
  BY DEF ReadMoney, workspace, books, time, outside
<1>3. PICK x \in Holdings : x = worker[w] /\ GoodHolding(x)
  BY <1>1, <1>2, KnownParts DEF TypesInv
<1>4. PICK v \in Upstreams : v = x.read
  BY <1>2, <1>3 DEF Holdings
<1>5. PICK s \in Intents : s = x.of /\ Known(s)
  BY <1>2, <1>3 DEF GoodHolding
<1>6. PICK m \in Nat, c \in SUBSET Nat : m = upstream[s].money /\ c = upstream[s].charged
  BY <1>5 DEF Known, Upstreams
<1>7. PICK a \in Upstreams : a = [v EXCEPT !.money = m]
  BY DEF Upstreams
<1>8. PICK b \in Upstreams : b = [a EXCEPT !.charged = c]
  BY DEF Upstreams
<1> DEFINE y == [intent |-> x.intent, of |-> s, read |-> b, money |-> TRUE]
<1>9. worker' = [worker EXCEPT ![w] = [x EXCEPT !.money = TRUE, !.read.money = m, !.read.charged = c]]
  BY <1>1, <1>3, <1>5, <1>6 DEF ReadMoney, TypesInv
<1>10. [x EXCEPT !.money = TRUE, !.read.money = m, !.read.charged = c] = y
  <2>1. PICK p : p = [x EXCEPT !.money = TRUE]
    OBVIOUS
  <2>2. p = [intent |-> x.intent, of |-> s, read |-> v, money |-> TRUE]
    BY <1>4, <1>5, <2>1 DEF Holdings
  <2>3. PICK q : q = [p EXCEPT !.read.money = m]
    OBVIOUS
  <2>4. q = [intent |-> x.intent, of |-> s, read |-> a, money |-> TRUE]
    BY <1>7, <2>2, <2>3
  <2>5. [q EXCEPT !.read.charged = c] = y
    <3>1. q.read = a /\ q \in Holdings
      BY <1>3, <2>4 DEF Holdings
    <3>2. [q EXCEPT !.read.charged = c] = [q EXCEPT !.read = b]
      BY <1>8, <3>1
    <3>3. [q EXCEPT !.read = b] = y
      <4>1. q.intent = x.intent /\ q.of = s /\ q.money = TRUE
        BY <2>4
      <4>2. [q EXCEPT !.read = b] = [intent |-> q.intent, of |-> q.of, read |-> b, money |-> q.money]
        BY Zenon, <3>1, HoldingFields
      <4> QED
        BY <4>1, <4>2
    <3> QED
      BY <3>2, <3>3
  <2> QED
    BY <2>1, <2>3, <2>5
<1>11. y \in Holdings /\ y.intent = x.intent /\ y.of = s
  BY <1>3 DEF Holdings
<1>12. \A t \in Intents : Known(t) => Known(t)'
  BY <1>2 DEF Known
<1> HIDE DEF y
<1>13. PICK h : h = y
  OBVIOUS
<1>14. h.of \in Intents /\ Known(h.of)'
  <2>1. h.of = s /\ Known(s)'
    BY <1>5, <1>11, <1>12, <1>13
  <2> QED
    BY <2>1
<1>15. worker' = [worker EXCEPT ![w] = h] /\ h \in Holdings /\ h.intent = worker[w].intent
  BY <1>3, <1>9, <1>10, <1>11, <1>13
<1>16. upstream' \in [Intents -> Upstreams \cup {None}]
  BY <1>1, <1>2 DEF TypesInv
<1> QED
  BY <1>2, <1>12, <1>14, <1>15, <1>16, ObservingStep

-----------------------------------------------------------------------------
(* The books: steps that leave the provider alone.                         *)

(* Every request stays, or is succeeded.                                   *)
Follow(f) ==
  /\ f \in [Intents -> IntentRows \cup {None}]
  /\ \A i \in Intents : f[i] = intent[i] \/ (Live(i) /\ Succeeds(intent[i], f[i]))

(* A lease is given back.                                                  *)
LEMMA ReleasedFollows ==
  ASSUME TypesInv, NEW i \in Intents, GoodAt(i)
  PROVE  Follow(Released(i)) /\ Released(i)[i] \in IntentRows
<1>1. intent[i] \in IntentRows /\ Live(i)
  BY DEF GoodAt, Good, Live
<1>2. Released(i)[i] \in IntentRows
  BY <1>1, ReleasedRow DEF Succeeds
<1> QED
  BY <1>1, <1>2, ReleasedRow DEF Follow

(* One request is replaced by what succeeds it.                            *)
LEMMA ReplacedFollows ==
  ASSUME NEW f, Follow(f), NEW i \in Intents, GoodAt(i), f[i] \in IntentRows,
         NEW q, Succeeds(f[i], q)
  PROVE  Follow([f EXCEPT ![i] = q])
<1>1. q \in IntentRows
  BY DEF Succeeds
<1>2. Succeeds(intent[i], q)
  BY DEF Succeeds, Follow
<1> QED
  BY <1>1, <1>2 DEF Follow, Live

(* The revisions move under every request.                                 *)
LEMMA MovedFollows ==
  ASSUME NEW f, Follow(f), NEW b \in BOOLEAN
  PROVE  Follow(Moved(f, b))
<1>1. f \in [Intents -> IntentRows \cup {None}]
  BY DEF Follow
<1>2. PICK g : g = Moved(f, b)
  OBVIOUS
<1>3. g \in [Intents -> IntentRows \cup {None}] /\ \A i \in Intents : g[i] = f[i] \/ Succeeds(f[i], g[i])
  BY <1>1, <1>2, MovedRows
<1>4. \A i \in Intents : f[i] = None => g[i] = None
  BY <1>2 DEF Moved
<1>5. ASSUME NEW i \in Intents
      PROVE  g[i] = intent[i] \/ (Live(i) /\ Succeeds(intent[i], g[i]))
  BY <1>3, <1>4, SucceedsThrough DEF Follow, Live
<1> QED
  BY <1>2, <1>3, <1>5 DEF Follow

(* Workers let go, requests follow, and what becomes of the workspace and  *)
(* its subscription is well-formed, known and paid.                        *)
LEMMA BooksStep ==
  ASSUME BillingInv, UNCHANGED <<upstream, heard>>,
         now' \in Nat, open' \in Nat, open' <= now',
         lifecycle' \in {"ready", "purging", "deleted"}, plan' \in Plans,
         member' \in [Members -> Roles],
         sub' \in SubRows \cup {None}, (sub # None => Known(sub.sid))',
         NEW f, intent' = f, Follow(f),
         worker' \in [Workers -> Holdings \cup {None}],
         \A w \in Workers : worker'[w] # None => worker'[w] = worker[w],
         contract' \in [Intents -> Contracts \cup {None}],
         \A s \in Intents : contract'[s] # None => contract[s] # None \/ Known(s),
         orders' \in [Intents -> SUBSET Nat],
         PaidInv'
  PROVE  BillingInv'
<1>1. TypesInv /\ KnownInv
  BY DEF BillingInv
<1>2. TypesInv'
  BY <1>1 DEF TypesInv, Follow
<1>3. \A s \in Intents : Known(s)' = Known(s)
  BY DEF Known
<1>4. GoodSteps
  <2>1. \A i \in Intents : \/ intent'[i] = intent[i]
                           \/ Live(i) /\ Succeeds(intent[i], intent'[i])
    BY DEF Follow
  <2> QED
    BY <1>3, <2>1, SucceedingRequests
<1>5. heard' \subseteq Intents
  BY <1>1, KnownParts
<1>6. KnownInv'
  BY <1>2, <1>3, <1>4, <1>5, KnownKept
<1> QED
  BY <1>2, <1>6 DEF BillingInv

(* As long as the subscription stays, what was paid for it stays paid.     *)
LEMMA PaidStays ==
  ASSUME BillingInv, sub' = sub, open' = open, \A s \in Intents : orders[s] \subseteq orders'[s]
  PROVE  PaidInv'
<1>1. PaidInv /\ (sub # None => sub.sid \in Intents)
  BY DEF BillingInv, TypesInv, SubRows
<1>2. sub # None => (sub.status = "active" => sub.end \in orders'[sub.sid])
  BY <1>1 DEF PaidInv
<1>3. Deadline(sub)' = Deadline(sub)
  BY DEF Deadline
<1> QED
  BY <1>1, <1>2, <1>3 DEF PaidInv

(* And so does whose subscription it is.                                   *)
LEMMA SubscriptionStays ==
  ASSUME BillingInv, upstream' = upstream, sub' # None => sub # None /\ sub'.sid = sub.sid
  PROVE  (sub # None => Known(sub.sid))'
  BY DEF BillingInv, KnownInv, Known

-----------------------------------------------------------------------------
(* The worker applies.                                                     *)

(* The answer a worker has is about a request and a subscription.          *)
LEMMA AnswerParts ==
  ASSUME BillingInv, NEW w \in Workers, Answered(w)
  PROVE  \E i \in Intents, s \in Intents, u \in Upstreams :
           /\ i = worker[w].intent /\ s = worker[w].of /\ u = worker[w].read
           /\ Known(s) /\ GoodAt(i)
<1>1. TypesInv /\ KnownInv /\ worker[w] # None /\ worker[w].read # None
  BY DEF BillingInv, Answered, Owns
<1>2. PICK h \in Holdings : h = worker[w] /\ GoodHolding(h)
  BY <1>1, KnownParts DEF TypesInv
<1>3. h.intent \in Intents /\ h.read \in Upstreams /\ h.of \in Intents /\ Known(h.of)
  BY <1>1, <1>2 DEF GoodHolding, Holdings
<1>4. GoodAt(h.intent)
  BY <1>2 DEF GoodHolding
<1> QED
  BY <1>2, <1>3, <1>4

(* What the answer says, and what was paid, is stored.                     *)
LEMMA StoresParts ==
  ASSUME BillingInv, NEW w \in Workers, Answered(w), Stores(w) \/ UNCHANGED books
  PROVE  /\ contract' \in [Intents -> Contracts \cup {None}]
         /\ \A s \in Intents : contract'[s] # None => contract[s] # None \/ Known(s)
         /\ orders' \in [Intents -> SUBSET Nat]
         /\ \A s \in Intents : orders[s] \subseteq orders'[s]
         /\ Stores(w) => orders[worker[w].of] \cup worker[w].read.charged
                           \subseteq orders'[worker[w].of]
<1>1. TypesInv
  BY DEF BillingInv
<1>2. PICK i \in Intents, s \in Intents, u \in Upstreams :
         s = worker[w].of /\ u = worker[w].read /\ Known(s)
  BY AnswerParts
<1>3. CASE Stores(w)
  <2>1. Latest(u) \in Nat /\ u.charged \in SUBSET Nat
    BY DEF Latest, Upstreams
  <2>2. PICK c \in Contracts : c = [version |-> Latest(u), state |-> u.state]
    BY <2>1 DEF Contracts, Upstreams
  <2>3. /\ contract' = [contract EXCEPT ![s] = c]
        /\ orders' = [orders EXCEPT ![s] = orders[s] \cup u.charged]
    BY <1>2, <1>3, <2>2 DEF Stores
  <2> QED
    BY <1>1, <1>2, <2>1, <2>3 DEF TypesInv
<1>4. CASE UNCHANGED books /\ ~ Stores(w)
  BY <1>1, <1>4 DEF TypesInv, books
<1> QED
  BY <1>3, <1>4

(* An answer is judged: the pass is over.                                  *)
LEMMA AnsweredStep ==
  ASSUME BillingInv, NEW w \in Workers, Answered(w), Gone(w), UNCHANGED <<lifecycle, outside>>,
         Stores(w) \/ UNCHANGED books,
         plan' \in Plans, member' \in [Members -> Roles],
         sub' \in SubRows \cup {None}, (sub # None => Known(sub.sid))',
         NEW f, intent' = f, Follow(f),
         PaidInv'
  PROVE  BillingInv'
<1>1. TypesInv
  BY DEF BillingInv
<1>2. UNCHANGED <<lifecycle, upstream, heard, now, open>>
  BY DEF outside, time
<1>3. /\ now' \in Nat /\ open' \in Nat /\ open' <= now'
      /\ lifecycle' \in {"ready", "purging", "deleted"}
  BY <1>1, <1>2 DEF TypesInv
<1>4. /\ worker' \in [Workers -> Holdings \cup {None}]
      /\ \A x \in Workers : worker'[x] # None => worker'[x] = worker[x]
  BY <1>1 DEF TypesInv, Gone
<1> QED
  BY <1>2, <1>3, <1>4, StoresParts, BooksStep

(* An answer that changes nothing of the subscription.                     *)
LEMMA IdleAnswer ==
  ASSUME BillingInv, NEW w \in Workers, Answered(w), Gone(w), UNCHANGED <<lifecycle, outside>>,
         Stores(w) \/ UNCHANGED books,
         UNCHANGED <<plan, member, sub>>,
         NEW f, intent' = f, Follow(f)
  PROVE  BillingInv'
<1>1. TypesInv
  BY DEF BillingInv
<1>2. plan' \in Plans /\ member' \in [Members -> Roles] /\ sub' \in SubRows \cup {None}
  BY <1>1 DEF TypesInv
<1>3. UNCHANGED <<open, upstream>>
  BY DEF outside, time
<1>4. PaidInv'
  BY <1>3, StoresParts, PaidStays
<1>5. (sub # None => Known(sub.sid))'
  BY <1>3, SubscriptionStays
<1> QED
  BY <1>2, <1>4, <1>5, AnsweredStep

(* A request that is given back, and gets a status and a phase.            *)
LEMMA StatusFollows ==
  ASSUME TypesInv, NEW i \in Intents, GoodAt(i),
         NEW x \in Open \cup {"quoted", "applied", "failed"},
         NEW y \in {"other", "checkout_ready", "awaiting_team_end"}
  PROVE  Follow([Released(i) EXCEPT ![i].status = x, ![i].phase = y])
<1>1. PICK f : f = Released(i)
  OBVIOUS
<1>2. Follow(f) /\ f[i] \in IntentRows /\ i \in DOMAIN f
  BY <1>1, ReleasedFollows DEF Follow
<1>3. PICK r \in IntentRows : r = f[i]
  BY <1>2
<1>4. PICK a : a = [r EXCEPT !.status = x]
  OBVIOUS
<1>5. Succeeds(r, a)
  BY <1>4, RequestUpdates
<1>6. a \in IntentRows
  BY <1>5 DEF Succeeds
<1>7. PICK b : b = [a EXCEPT !.phase = y]
  OBVIOUS
<1>8. Succeeds(a, b)
  BY <1>6, <1>7, RequestUpdates
<1>9. Succeeds(r, b)
  BY <1>5, <1>8, SucceedsThrough
<1>10. [f EXCEPT ![i].status = x, ![i].phase = y] = [f EXCEPT ![i] = b]
  <2>1. [f EXCEPT ![i].status = x] = [f EXCEPT ![i] = a]
    BY <1>3, <1>4
  <2>2. PICK g : g = [f EXCEPT ![i] = a]
    OBVIOUS
  <2>3. g[i] = a
    BY <1>2, <2>2
  <2>4. [g EXCEPT ![i].phase = y] = [g EXCEPT ![i] = b]
    BY <1>7, <2>3
  <2>5. [g EXCEPT ![i] = b] = [f EXCEPT ![i] = b]
    BY <2>2
  <2> QED
    BY <2>1, <2>2, <2>4, <2>5
<1>11. Follow([f EXCEPT ![i] = b])
  BY <1>2, <1>3, <1>9, ReplacedFollows
<1> QED
  BY <1>1, <1>10, <1>11

(* An answer that is older than what is known, or has no effect.           *)
LEMMA WithoutEffectKeeps ==
  ASSUME BillingInv, NEW w \in Workers, ApplyOlder(w) \/ ApplyWithoutEffect(w)
  PROVE  BillingInv'
<1>1. /\ Answered(w) /\ Gone(w) /\ UNCHANGED <<lifecycle, outside>> /\ UNCHANGED <<plan, member, sub>>
      /\ TypesInv
  BY DEF ApplyOlder, ApplyWithoutEffect, Judged, BillingInv
<1>2. PICK i \in Intents, s \in Intents, u \in Upstreams :
         i = worker[w].intent /\ s = worker[w].of /\ u = worker[w].read /\ GoodAt(i)
  BY <1>1, AnswerParts
<1>3. Follow(Released(i)) /\ Released(i)[i] \in IntentRows
  BY <1>1, <1>2, ReleasedFollows
<1>4. CASE ApplyOlder(w)
  <2>1. intent' = Released(i) /\ UNCHANGED books
    BY <1>2, <1>4 DEF ApplyOlder, books
  <2>2. PICK f : f = Released(i)
    OBVIOUS
  <2> QED
    BY <1>1, <1>3, <2>1, <2>2, IdleAnswer
<1>5. CASE ApplyWithoutEffect(w)
  <2>1. PICK f : f = Released(i)
    OBVIOUS
  <2>2. PICK r \in IntentRows : r = f[i]
    BY <1>3, <2>1
  <2>3. PICK v : v = Verdict(i, s, u)
    OBVIOUS
  <2>4. PICK q : q = Noted(r, v)
    OBVIOUS
  <2>5. Stores(w) /\ intent' = [f EXCEPT ![i] = q]
    BY <1>2, <1>5, <2>1, <2>2, <2>3, <2>4 DEF ApplyWithoutEffect
  <2>6. Succeeds(r, q)
    <3>1. q \in {r, [r EXCEPT !.status = "awaiting_provider", !.phase = "other"],
                 [r EXCEPT !.status = "failed", !.phase = "other"], [r EXCEPT !.phase = "other"]}
      BY <2>4 DEF Noted
    <3>2. ASSUME NEW x \in {"awaiting_provider", "failed"}
          PROVE  Succeeds(r, [r EXCEPT !.status = x, !.phase = "other"])
      <4>1. PICK a : a = [r EXCEPT !.status = x]
        OBVIOUS
      <4>2. Succeeds(r, a) /\ a \in IntentRows
        <5>1. Succeeds(r, a)
          BY <4>1, RequestUpdates DEF Open
        <5> QED
          BY <5>1 DEF Succeeds
      <4>3. Succeeds(a, [a EXCEPT !.phase = "other"])
        BY <4>2, RequestUpdates
      <4> QED
        BY <4>1, <4>2, <4>3, SucceedsThrough
    <3>3. Succeeds(r, r) /\ Succeeds(r, [r EXCEPT !.phase = "other"])
      BY RequestUpdates
    <3> QED
      BY <3>1, <3>2, <3>3
  <2>7. Follow([f EXCEPT ![i] = q])
    BY <1>2, <1>3, <2>1, <2>2, <2>6, ReplacedFollows
  <2>8. PICK g : g = [f EXCEPT ![i] = q]
    OBVIOUS
  <2> QED
    BY <1>1, <2>5, <2>7, <2>8, IdleAnswer
<1> QED
  BY <1>4, <1>5

(* A checkout is opened for the customer.                                  *)
LEMMA RecordCheckoutKeeps ==
  ASSUME BillingInv, NEW w \in Workers, RecordCheckout(w)
  PROVE  BillingInv'
<1>1. TypesInv /\ KnownInv /\ worker[w] # None
  BY DEF BillingInv, RecordCheckout, Owns
<1>2. PICK i \in Intents : i = worker[w].intent /\ GoodAt(i)
  BY <1>1, KnownParts DEF GoodHolding, TypesInv, Holdings
<1>3. PICK f : f = Released(i)
  OBVIOUS
<1>4. Follow(f) /\ f[i] \in IntentRows /\ i \in DOMAIN f
  BY <1>1, <1>2, <1>3, ReleasedFollows DEF Follow
<1>5. PICK r \in IntentRows : r = f[i]
  BY <1>4
<1>6. PICK a : a = [r EXCEPT !.checkout = TRUE]
  OBVIOUS
<1>7. Succeeds(r, a)
  BY <1>6, RequestUpdates
<1>8. a \in IntentRows
  BY <1>7 DEF Succeeds
<1>9. PICK b : b = [a EXCEPT !.status = "awaiting_provider"]
  OBVIOUS
<1>10. Succeeds(a, b)
  BY <1>8, <1>9, RequestUpdates DEF Open
<1>11. b \in IntentRows
  BY <1>10 DEF Succeeds
<1>12. PICK c : c = [b EXCEPT !.phase = "other"]
  OBVIOUS
<1>13. Succeeds(b, c)
  BY <1>11, <1>12, RequestUpdates
<1>14. Succeeds(r, c)
  BY <1>7, <1>10, <1>13, SucceedsThrough
<1>15. intent' = [f EXCEPT ![i] = c]
  <2>1. intent' = [f EXCEPT ![i].checkout = TRUE, ![i].status = "awaiting_provider",
                            ![i].phase = "other"]
    BY <1>2, <1>3 DEF RecordCheckout
  <2>2. [f EXCEPT ![i].checkout = TRUE] = [f EXCEPT ![i] = a]
    BY <1>5, <1>6
  <2>3. PICK g : g = [f EXCEPT ![i] = a]
    OBVIOUS
  <2>4. g[i] = a /\ i \in DOMAIN g
    BY <1>4, <2>3
  <2>5. [g EXCEPT ![i].status = "awaiting_provider"] = [g EXCEPT ![i] = b]
    BY <1>9, <2>4
  <2>6. PICK k : k = [g EXCEPT ![i] = b]
    OBVIOUS
  <2>7. k[i] = b
    BY <2>4, <2>6
  <2>8. [k EXCEPT ![i].phase = "other"] = [k EXCEPT ![i] = c]
    BY <1>12, <2>7
  <2>9. [k EXCEPT ![i] = c] = [f EXCEPT ![i] = c]
    BY <2>3, <2>6
  <2> QED
    BY <2>1, <2>2, <2>3, <2>5, <2>6, <2>8, <2>9
<1>16. PICK g : g = [f EXCEPT ![i] = c] /\ Follow(g)
  BY <1>2, <1>4, <1>5, <1>14, ReplacedFollows
<1>17. UNCHANGED <<lifecycle, plan, member, sub, contract, orders, upstream, heard, now, open>>
  BY DEF RecordCheckout, workspace, books, outside, time
<1>18. /\ now' \in Nat /\ open' \in Nat /\ open' <= now' /\ plan' \in Plans
       /\ lifecycle' \in {"ready", "purging", "deleted"} /\ member' \in [Members -> Roles]
       /\ sub' \in SubRows \cup {None}
       /\ contract' \in [Intents -> Contracts \cup {None}]
       /\ orders' \in [Intents -> SUBSET Nat]
  BY <1>1, <1>17 DEF TypesInv
<1>19. /\ worker' \in [Workers -> Holdings \cup {None}]
       /\ \A x \in Workers : worker'[x] # None => worker'[x] = worker[x]
  BY <1>1 DEF TypesInv, RecordCheckout, Gone
<1>20. PaidInv' /\ (sub # None => Known(sub.sid))'
  BY <1>17, PaidStays, SubscriptionStays
<1> QED
  BY <1>15, <1>16, <1>17, <1>18, <1>19, <1>20, BooksStep

-----------------------------------------------------------------------------
(* What the verdicts mean.                                                 *)

(* Only what runs, and was paid for unless it is a trial, takes effect.    *)
LEMMA EffectiveMeans ==
  ASSUME NEW i \in Intents, NEW s \in Intents, NEW u, Verdict(i, s, u) = "effective"
  PROVE  /\ u.state \in {"trialing", "active"} /\ u.end > now
         /\ u.state = "active" => u.end \in orders[s] \cup u.charged
  BY DEF Verdict, PaidFor, TrialEligible

(* Grace is for a renewal that failed, and not before the period's end.    *)
LEMMA GraceMeans ==
  ASSUME NEW i \in Intents, NEW s \in Intents, NEW u, Verdict(i, s, u) = "grace"
  PROVE  /\ sub # None /\ sub.sid = s /\ sub.paid
         /\ u.state = "renewal_failed" /\ ~ (FailedAt(u) < sub.end)
<1>1. u.state \notin {"trialing", "active"}
  BY DEF Verdict
<1>2. u.state = "renewal_failed" /\ Ours(s) /\ sub.paid /\ ~ (FailedAt(u) < sub.end)
  BY <1>1 DEF Verdict
<1> QED
  BY <1>2 DEF Ours

(* The other verdicts that touch the subscription find it there.           *)
LEMMA OthersMean ==
  ASSUME NEW i \in Intents, NEW s \in Intents, NEW u,
         Verdict(i, s, u) \in {"cancellation", "team_ends", "over"}
  PROVE  sub # None
<1>1. Ours(intent[i].from.sid) \/ Ours(s)
  BY DEF Verdict
<1> QED
  BY <1>1 DEF Ours

-----------------------------------------------------------------------------
(* The verdicts take effect.                                               *)

(* A change of the cancellation changes nothing of what was paid.          *)
LEMMA CancellationKeeps ==
  ASSUME BillingInv, NEW w \in Workers, ApplyCancellation(w)
  PROVE  BillingInv'
<1>1. /\ Answered(w) /\ Gone(w) /\ UNCHANGED <<lifecycle, outside>> /\ UNCHANGED <<plan, member>>
      /\ Stores(w) /\ TypesInv /\ PaidInv
  BY DEF ApplyCancellation, Judged, BillingInv
<1>2. PICK i \in Intents, s \in Intents, u \in Upstreams :
         i = worker[w].intent /\ s = worker[w].of /\ u = worker[w].read /\ GoodAt(i)
  BY <1>1, AnswerParts
<1>3. sub # None
  BY <1>2, OthersMean DEF ApplyCancellation, Judged
<1>4. PICK o \in SubRows : o = sub
  BY <1>1, <1>3 DEF TypesInv
<1>5. PICK b \in BOOLEAN : sub' = [o EXCEPT !.cancel = b]
  BY <1>4 DEF ApplyCancellation
<1>6. /\ sub' \in SubRows /\ sub'.sid = o.sid /\ sub'.status = o.status /\ sub'.end = o.end
      /\ sub'.grace = o.grace
  BY <1>5 DEF SubRows
<1>7. \E f : intent' = f /\ Follow(f)
  <2>1. PICK g : /\ Follow(g)
                 /\ intent' = Moved(g, TRUE)
    <3>1. Follow(Released(i))
      BY <1>1, <1>2, ReleasedFollows
    <3>2. Follow([Released(i) EXCEPT ![i].status = "applied", ![i].phase = "other"])
      BY <1>1, <1>2, StatusFollows
    <3> QED
      BY <1>2, <3>1, <3>2 DEF ApplyCancellation
  <2>2. Follow(Moved(g, TRUE))
    BY <2>1, MovedFollows
  <2> QED
    BY <2>1, <2>2
<1>8. plan' \in Plans /\ member' \in [Members -> Roles] /\ UNCHANGED <<open, upstream>>
  BY <1>1 DEF TypesInv, outside, time
<1>9. PaidInv'
  <2>1. orders[o.sid] \subseteq orders'[o.sid] /\ o.sid \in Intents
    BY <1>1, StoresParts DEF SubRows
  <2>2. PICK q \in SubRows : q = sub'
    BY <1>6
  <2>3. /\ q.status = "active" => q.end \in orders'[q.sid]
        /\ q.status \in {"trialing", "active"} => q.grace = None
        /\ open < Deadline(q)
    BY <1>1, <1>3, <1>4, <1>6, <2>1, <2>2 DEF PaidInv, Deadline
  <2> QED
    BY <1>8, <2>2, <2>3 DEF PaidInv, Deadline
<1>10. (sub # None => Known(sub.sid))'
  BY <1>3, <1>4, <1>6, <1>8, SubscriptionStays
<1> QED
  BY <1>1, <1>6, <1>7, <1>8, <1>9, <1>10, AnsweredStep

(* The end of a subscription ends what was paid, if its time has come.     *)
LEMMA OverKeeps ==
  ASSUME BillingInv, NEW w \in Workers, ApplyOver(w)
  PROVE  BillingInv'
<1>1. /\ Answered(w) /\ Gone(w) /\ UNCHANGED <<lifecycle, outside>> /\ UNCHANGED <<plan, member>>
      /\ Stores(w) /\ TypesInv /\ PaidInv
  BY DEF ApplyOver, Judged, BillingInv
<1>2. PICK i \in Intents, s \in Intents, u \in Upstreams :
         i = worker[w].intent /\ s = worker[w].of /\ u = worker[w].read /\ GoodAt(i)
  BY <1>1, AnswerParts
<1>3. Follow(Released(i))
  BY <1>1, <1>2, ReleasedFollows
<1>4. CASE ~ Lapses
  <2>1. intent' = Released(i) /\ sub' = sub
    BY <1>2, <1>4 DEF ApplyOver
  <2>2. PICK f : f = Released(i)
    OBVIOUS
  <2> QED
    BY <1>1, <1>3, <2>1, <2>2, IdleAnswer
<1>5. CASE Lapses
  <2>1. sub # None
    BY <1>2, OthersMean DEF ApplyOver, Judged
  <2>2. PICK o \in SubRows : o = sub
    BY <1>1, <2>1 DEF TypesInv
  <2>3. sub' = [o EXCEPT !.status = "ended"]
    BY <1>5, <2>2 DEF ApplyOver
  <2>4. PICK q \in SubRows : /\ q = sub' /\ q.sid = o.sid /\ q.status = "ended" /\ q.end = o.end
                             /\ q.grace = o.grace
    BY <2>3 DEF SubRows
  <2>5. PICK f : intent' = f /\ Follow(f)
    BY <1>2, <1>3, <1>5, MovedFollows DEF ApplyOver
  <2>6. plan' \in Plans /\ member' \in [Members -> Roles] /\ UNCHANGED <<open, upstream>>
    BY <1>1 DEF TypesInv, outside, time
  <2>7. open < Deadline(q)
    BY <1>1, <2>1, <2>2, <2>4 DEF PaidInv, Deadline
  <2>8. PaidInv'
    BY <2>4, <2>6, <2>7 DEF PaidInv, Deadline
  <2>9. (sub # None => Known(sub.sid))'
    BY <2>1, <2>2, <2>4, <2>6, SubscriptionStays
  <2> QED
    BY <1>1, <2>4, <2>5, <2>6, <2>8, <2>9, AnsweredStep
<1> QED
  BY <1>4, <1>5

(* Grace lasts longer than what was paid.                                  *)
LEMMA GraceKeeps ==
  ASSUME BillingInv, NEW w \in Workers, ApplyGrace(w)
  PROVE  BillingInv'
<1>1. /\ Answered(w) /\ Gone(w) /\ UNCHANGED <<lifecycle, outside>> /\ UNCHANGED <<plan, member>>
      /\ Stores(w) /\ TypesInv /\ PaidInv
  BY DEF ApplyGrace, Judged, BillingInv
<1>2. PICK i \in Intents, s \in Intents, u \in Upstreams :
         i = worker[w].intent /\ s = worker[w].of /\ u = worker[w].read /\ GoodAt(i)
  BY <1>1, AnswerParts
<1>3. Follow(Released(i))
  BY <1>1, <1>2, ReleasedFollows
<1>4. Verdict(i, s, u) = "grace"
  BY <1>2 DEF ApplyGrace, Judged
<1>5. sub # None /\ u.failed \in Nat /\ ~ (FailedAt(u) < sub.end)
  BY <1>4, GraceMeans DEF Upstreams
<1>6. PICK o \in SubRows : o = sub
  BY <1>1, <1>5 DEF TypesInv
<1> DEFINE ends == FailedAt(u) + Grace
           new == sub.grace = None \/ sub.status # "grace_period"
<1>7. CASE ~ new
  <2>1. intent' = Released(i) /\ sub' = sub
    BY <1>2, <1>7 DEF ApplyGrace
  <2>2. PICK f : f = Released(i)
    OBVIOUS
  <2> QED
    BY <1>1, <1>3, <2>1, <2>2, IdleAnswer
<1>8. CASE new
  <2>1. ends \in Nat /\ open < ends
    <3>1. /\ Grace \in Nat /\ o.end \in Nat /\ open \in Nat /\ o.grace \in Nat \cup {None}
          /\ Grace > 0
      BY <1>1, BillingAssumption DEF SubRows, TypesInv
    <3>2. open < Deadline(o)
      BY <1>1, <1>5, <1>6 DEF PaidInv
    <3>3. CASE o.grace # None
      <4>1. ends = (o.grace - Grace) + Grace
        BY <1>6, <3>3 DEF FailedAt
      <4>2. ends = o.grace
        BY <3>1, <3>3, <4>1
      <4> QED
        BY <3>1, <3>2, <3>3, <4>2 DEF Deadline
    <3>4. CASE o.grace = None
      <4>1. FailedAt(u) = u.failed /\ open < o.end
        BY <1>6, <3>2, <3>4 DEF FailedAt, Deadline
      <4>2. u.failed >= o.end
        BY <1>5, <1>6, <3>1, <4>1
      <4> QED
        BY <1>5, <3>1, <4>1, <4>2
    <3> QED
      BY <3>3, <3>4
  <2>2. PICK e \in Nat : e = ends
    BY <2>1
  <2>3. sub' = [o EXCEPT !.status = "grace_period", !.grace = e]
    BY <1>2, <1>6, <1>8, <2>2 DEF ApplyGrace
  <2>4. PICK p : p = [o EXCEPT !.status = "grace_period"]
    OBVIOUS
  <2>5. PICK q : q = [p EXCEPT !.grace = e]
    OBVIOUS
  <2>6. /\ sub' = q /\ q \in SubRows
        /\ q.status = "grace_period" /\ q.sid = o.sid /\ q.grace = e
    <3>1. p \in SubRows /\ p.status = "grace_period" /\ p.sid = o.sid
      BY <2>4 DEF SubRows
    <3>2. q \in SubRows /\ q.status = "grace_period" /\ q.sid = o.sid /\ q.grace = e
      BY <2>5, <3>1 DEF SubRows
    <3> QED
      BY <2>3, <2>4, <2>5, <3>2
  <2>7. PICK f : intent' = f /\ Follow(f)
    BY <1>2, <1>3, <1>8, MovedFollows DEF ApplyGrace
  <2>8. plan' \in Plans /\ member' \in [Members -> Roles] /\ UNCHANGED <<open, upstream>>
    BY <1>1 DEF TypesInv, outside, time
  <2>9. open < Deadline(q)
    BY <2>1, <2>2, <2>6, BillingAssumption DEF Deadline
  <2>10. PaidInv'
    BY <2>6, <2>8, <2>9 DEF PaidInv, Deadline
  <2>11. (sub # None => Known(sub.sid))'
    BY <1>5, <1>6, <2>6, <2>8, SubscriptionStays
  <2> QED
    BY <1>1, <2>6, <2>7, <2>8, <2>10, <2>11, AnsweredStep
<1> QED
  BY <1>7, <1>8

(* What takes effect was paid for, and has not ended.                      *)
LEMMA EffectiveKeeps ==
  ASSUME BillingInv, NEW w \in Workers, ApplyEffective(w)
  PROVE  BillingInv'
<1>1. /\ Answered(w) /\ Gone(w) /\ UNCHANGED <<lifecycle, outside>> /\ Stores(w) /\ TypesInv
  BY DEF ApplyEffective, Judged, BillingInv
<1>2. PICK i \in Intents, s \in Intents, u \in Upstreams :
         /\ i = worker[w].intent /\ s = worker[w].of /\ u = worker[w].read
         /\ Known(s) /\ GoodAt(i)
  BY <1>1, AnswerParts
<1>3. PICK r \in IntentRows : r = intent[i]
  BY <1>2 DEF GoodAt, Good
<1>4. Verdict(i, s, u) = "effective"
  BY <1>2 DEF ApplyEffective, Judged
<1>5. /\ u.state \in {"trialing", "active"} /\ u.end > now
      /\ u.state = "active" => u.end \in orders[s] \cup u.charged
  BY <1>4, EffectiveMeans
<1>6. PICK q : q = Subscription(r, s, u)
  OBVIOUS
<1>7. /\ q \in SubRows /\ q.sid = s /\ q.status = u.state /\ q.end = u.end /\ q.grace = None
  BY <1>5, <1>6 DEF Subscription, SubRows, Upstreams, IntentRows
<1>8. sub' = q /\ plan' = r.plan
  BY <1>2, <1>3, <1>6 DEF ApplyEffective
<1>9. member' \in [Members -> Roles]
  <2>1. member' = Reviewed(r)
    BY <1>2, <1>3 DEF ApplyEffective
  <2>2. \A m \in Members : member[m] \in Roles
    BY <1>1 DEF TypesInv
  <2> QED
    BY <2>1, <2>2 DEF Reviewed, Roles
<1>10. PICK f : intent' = f /\ Follow(f)
  <2>1. PICK g : g = [Released(i) EXCEPT ![i].status = "applied", ![i].phase = "other"]
    OBVIOUS
  <2>2. Follow(g)
    BY <1>1, <1>2, <2>1, StatusFollows
  <2>3. intent' = Moved(g, TRUE)
    BY <1>2, <2>1 DEF ApplyEffective
  <2> QED
    BY <2>2, <2>3, MovedFollows
<1>11. plan' \in Plans /\ UNCHANGED <<open, upstream>>
  BY <1>1, <1>8 DEF IntentRows, outside, time
<1>12. PaidInv'
  <2>1. orders[s] \cup u.charged \subseteq orders'[s]
    BY <1>1, <1>2, StoresParts
  <2>2. open < Deadline(q)
    <3>1. Deadline(q) = u.end
      BY <1>7 DEF Deadline
    <3>2. open <= now /\ now \in Nat /\ open \in Nat /\ u.end \in Nat
      BY <1>1 DEF TypesInv, Upstreams
    <3> QED
      BY <1>5, <3>1, <3>2
  <2>3. q.status = "active" => q.end \in orders'[q.sid]
    BY <1>5, <1>7, <2>1
  <2> QED
    BY <1>7, <1>8, <1>11, <2>2, <2>3 DEF PaidInv, Deadline
<1>13. (sub # None => Known(sub.sid))'
  <2>1. sub'.sid = s /\ Known(s)'
    BY <1>2, <1>7, <1>8, <1>11 DEF Known
  <2> QED
    BY <2>1
<1> QED
  BY <1>1, <1>7, <1>8, <1>9, <1>10, <1>11, <1>12, <1>13, AnsweredStep

-----------------------------------------------------------------------------
(* Retention, the members and the clock.                                   *)

(* Whoever can edit is not past the end of what was paid.                  *)
LEMMA EditorsAreInTime ==
  ASSUME BillingInv, Editable
  PROVE  now < Deadline(sub)
<1>1. TypesInv /\ PaidInv /\ sub # None /\ Standing(sub)
  BY DEF BillingInv, Editable
<1>2. PICK s \in SubRows : s = sub
  BY <1>1 DEF TypesInv
<1>3. s.grace = None => s.status # "grace_period" /\ s.end > now
  BY <1>1, <1>2 DEF Standing
<1>4. s.grace # None => s.status = "grace_period" /\ s.grace > now
  BY <1>1, <1>2 DEF Standing, PaidInv
<1>5. now \in Nat /\ s.end \in Nat /\ s.grace \in Nat \cup {None}
  BY <1>1 DEF TypesInv, SubRows
<1> QED
  BY <1>2, <1>3, <1>4, <1>5 DEF Deadline

(* A step that neither bills nor answers: no request is lost.              *)
LEMMA QuietStep ==
  ASSUME BillingInv, UNCHANGED <<contract, orders, worker, upstream, heard>>,
         now' \in Nat, open' \in Nat, open' <= now',
         lifecycle' \in {"ready", "purging", "deleted"}, plan' \in Plans,
         member' \in [Members -> Roles],
         sub' \in SubRows \cup {None}, sub' # None => sub # None /\ sub'.sid = sub.sid,
         NEW f, intent' = f, Follow(f), PaidInv'
  PROVE  BillingInv'
<1>1. TypesInv
  BY DEF BillingInv
<1>2. (sub # None => Known(sub.sid))'
  BY SubscriptionStays
<1>3. /\ worker' \in [Workers -> Holdings \cup {None}]
      /\ contract' \in [Intents -> Contracts \cup {None}]
      /\ orders' \in [Intents -> SUBSET Nat]
  BY <1>1 DEF TypesInv
<1> QED
  BY <1>2, <1>3, BooksStep

(* Requests that all stay follow themselves.                               *)
LEMMA RequestsFollow ==
  ASSUME TypesInv
  PROVE  Follow(intent)
  BY DEF TypesInv, Follow

(* What is retained or purged was paid until its date.                     *)
LEMMA MaintainKeeps ==
  ASSUME BillingInv, Maintain
  PROVE  BillingInv'
<1>1. TypesInv /\ PaidInv /\ sub # None
  BY DEF BillingInv, Maintain
<1>2. PICK o \in SubRows : o = sub
  BY <1>1 DEF TypesInv
<1>3. sub' = [o EXCEPT !.status = "ended"]
  BY <1>2 DEF Maintain
<1>4. PICK q : q = sub'
  OBVIOUS
<1>5. /\ q \in SubRows /\ q.sid = o.sid /\ q.status = "ended" /\ q.end = o.end
      /\ q.grace = o.grace
  BY <1>3, <1>4 DEF SubRows
<1>6. PICK b \in BOOLEAN : b = (sub' # sub)
  OBVIOUS
<1>7. PICK f : intent' = f /\ Follow(f)
  <2>1. intent' = intent \/ intent' = Moved(intent, b)
    BY <1>6 DEF Maintain
  <2>2. PICK g : g = intent
    OBVIOUS
  <2>3. Follow(g) /\ Follow(Moved(g, b))
    BY <1>1, <2>2, RequestsFollow, MovedFollows
  <2> QED
    BY <2>1, <2>2, <2>3
<1>8. /\ UNCHANGED <<plan, member, contract, orders, worker, now, open, upstream, heard>>
      /\ lifecycle' \in {"purging", lifecycle}
  BY DEF Maintain, books, outside, time
<1>9. /\ now' \in Nat /\ open' \in Nat /\ open' <= now' /\ plan' \in Plans
      /\ lifecycle' \in {"ready", "purging", "deleted"} /\ member' \in [Members -> Roles]
  BY <1>1, <1>8 DEF TypesInv
<1>10. open < Deadline(q)
  BY <1>1, <1>2, <1>5 DEF PaidInv, Deadline
<1>11. PaidInv'
  BY <1>4, <1>5, <1>8, <1>10 DEF PaidInv, Deadline
<1> QED
  BY <1>1, <1>2, <1>4, <1>5, <1>7, <1>8, <1>9, <1>11, QuietStep

(* The purge, and what the members do.                                     *)
LEMMA TeamKeeps ==
  ASSUME BillingInv, Purge \/ Team
  PROVE  BillingInv'
<1>1. TypesInv
  BY DEF BillingInv
<1>2. /\ UNCHANGED <<plan, sub, contract, orders, worker, now, open, upstream, heard>>
      /\ intent' = Moved(intent, FALSE)
  BY DEF Purge, Team, MemberChanges, books, outside, time
<1>3. member' \in [Members -> Roles] /\ lifecycle' \in {"ready", "purging", "deleted"}
  <2>1. CASE Purge
    BY <1>1, <2>1 DEF Purge, TypesInv
  <2>2. CASE Team
    <3>1. PICK m \in Members, r \in Roles : MemberChanges(m, r)
      BY <2>2 DEF Team, Roles
    <3> QED
      BY <1>1, <3>1 DEF MemberChanges, TypesInv
  <2> QED
    BY <2>1, <2>2
<1>4. PICK f : intent' = f /\ Follow(f)
  <2>1. PICK g : g = intent /\ Follow(g)
    BY <1>1, RequestsFollow
  <2> QED
    BY <1>2, <2>1, MovedFollows
<1>5. /\ now' \in Nat /\ open' \in Nat /\ open' <= now' /\ plan' \in Plans
      /\ sub' \in SubRows \cup {None}
  BY <1>1, <1>2 DEF TypesInv
<1>6. PaidInv'
  BY <1>2, PaidStays
<1> QED
  BY <1>2, <1>3, <1>4, <1>5, <1>6, QuietStep

(* The clock: what could be edited in the tick that passes was paid for.   *)
LEMMA TickKeeps ==
  ASSUME BillingInv, Tick
  PROVE  BillingInv'
<1>1. TypesInv /\ PaidInv
  BY DEF BillingInv
<1>2. /\ UNCHANGED <<lifecycle, plan, member, sub, intent, contract, orders, worker, upstream, heard>>
      /\ now' = now + 1 /\ open' = IF Editable THEN now ELSE open
  BY DEF Tick, workspace, books
<1>3. now' \in Nat /\ open' \in Nat /\ open' <= now'
  BY <1>1, <1>2 DEF TypesInv
<1>4. sub # None => open' < Deadline(sub)
  BY <1>1, <1>2, EditorsAreInTime DEF PaidInv
<1>5. PaidInv'
  BY <1>1, <1>2, <1>4 DEF PaidInv, Deadline
<1>6. /\ lifecycle' \in {"ready", "purging", "deleted"} /\ plan' \in Plans
      /\ member' \in [Members -> Roles] /\ sub' \in SubRows \cup {None}
  BY <1>1, <1>2 DEF TypesInv
<1>7. PICK f : intent' = f /\ Follow(f)
  BY <1>1, <1>2, RequestsFollow
<1> QED
  BY <1>2, <1>3, <1>5, <1>6, <1>7, QuietStep

-----------------------------------------------------------------------------
(* The theorems.                                                           *)

(* Nothing has happened yet.                                               *)
LEMMA BillingInit ==
  ASSUME Init
  PROVE  BillingInv
<1>1. TypesInv
  BY DEF Init, TypesInv, Plans, Roles
<1>2. KnownInv
  BY DEF Init, KnownInv
<1>3. PaidInv
  BY DEF Init, PaidInv
<1> QED
  BY <1>1, <1>2, <1>3 DEF BillingInv

(* Every step keeps the invariant.                                         *)
LEMMA BillingStep ==
  ASSUME BillingInv, [Next]_vars
  PROVE  BillingInv'
<1>1. CASE Owner
  BY <1>1, OwnerKeeps DEF Owner
<1>2. CASE Provider
  BY <1>2, ProviderKeeps, WebhookKeeps DEF Provider
<1>3. CASE WorkerStep
  <2>1. CASE \E i \in Intents : LeaseEnds(i)
    BY <2>1, LeaseKeeps
  <2>2. CASE \E w \in Workers : RunOne(w)
    <3>1. PICK w \in Workers : RunOne(w)
      BY <2>2
    <3>2. CASE (\E i \in Intents : Lease(w, i)) \/ Abandon(w)
      BY <3>2, LeaseKeeps
    <3>3. CASE Observe(w) \/ ReadMoney(w)
      BY <3>3, ObserveLocalKeeps, ObservePolarKeeps, ReadMoneyKeeps DEF Observe
    <3>4. CASE Apply(w)
      BY <3>4, RecordCheckoutKeeps, WithoutEffectKeeps, CancellationKeeps, GraceKeeps, OverKeeps,
         EffectiveKeeps DEF Apply
    <3> QED
      BY <3>1, <3>2, <3>3, <3>4 DEF RunOne
  <2> QED
    BY <1>3, <2>1, <2>2 DEF WorkerStep
<1>4. CASE Maintain
  BY <1>4, MaintainKeeps
<1>5. CASE Purge \/ Team
  BY <1>5, TeamKeeps
<1>6. CASE Tick
  BY <1>6, TickKeeps
<1>7. CASE UNCHANGED vars
  <2>1. UNCHANGED <<lifecycle, plan, member, sub, intent, contract, orders, worker, upstream, heard, now, open>>
    BY <1>7 DEF vars, workspace, books, outside, time
  <2>2. TypesInv
    BY DEF BillingInv
  <2>3. /\ now' \in Nat /\ open' \in Nat /\ open' <= now'
        /\ lifecycle' \in {"ready", "purging", "deleted"} /\ plan' \in Plans
        /\ member' \in [Members -> Roles] /\ sub' \in SubRows \cup {None}
    BY <2>1, <2>2 DEF TypesInv
  <2>4. PICK f : intent' = f /\ Follow(f)
    BY <2>1, <2>2, RequestsFollow
  <2>5. PaidInv'
    BY <2>1, PaidStays
  <2> QED
    BY <2>1, <2>3, <2>4, <2>5, QuietStep
<1> QED
  BY <1>1, <1>2, <1>3, <1>4, <1>5, <1>6, <1>7 DEF Next

(* Requests, subscriptions and what is stored of them stay well-formed and *)
(* known to the provider, and nobody edits what was not paid for.          *)
THEOREM BillingInvariance == Spec => []BillingInv
<1>1. Init => BillingInv
  BY BillingInit
<1>2. BillingInv /\ [Next]_vars => BillingInv'
  BY BillingStep
<1> QED
  BY <1>1, <1>2, PTL DEF Spec

(* An active subscription ends at the end of a period an order covers,     *)
(* whatever the provider answers and in which order (payment evidence in   *)
(* apply_polar_billing).                                                   *)
THEOREM AccessIsAlwaysPaid == Spec => []AccessIsPaid
<1>1. BillingInv => AccessIsPaid
  BY DEF BillingInv, PaidInv, AccessIsPaid
<1> QED
  BY <1>1, BillingInvariance, PTL

(* Neither the owner nor the provider nor a worker ends a workspace.       *)
LEMMA WorkspaceStays ==
  ASSUME BillingInv, Owner \/ Provider \/ WorkerStep
  PROVE  lifecycle' = lifecycle
<1>1. CASE Owner
  BY <1>1, OwnerStep DEF Owner, workspace
<1>2. CASE Provider
  <2>1. ASSUME NEW s \in Intents, NEW u, Supplies(s, u) PROVE lifecycle' = lifecycle
    BY <2>1 DEF Supplies, workspace
  <2>2. ASSUME NEW s \in Intents, Webhook(s) PROVE lifecycle' = lifecycle
    BY <2>2 DEF Webhook, workspace
  <2>3. ASSUME NEW s \in Intents, Pays(s) \/ Renews(s) \/ Charges(s) PROVE lifecycle' = lifecycle
    BY <2>1, <2>3 DEF Pays, Renews, Charges
  <2>4. ASSUME NEW s \in Intents, RenewalFails(s) \/ Stops(s) \/ Flips(s) \/ Refunds(s)
        PROVE  lifecycle' = lifecycle
    BY <2>1, <2>4 DEF RenewalFails, Stops, Flips, Refunds
  <2> QED
    BY <1>2, <2>2, <2>3, <2>4 DEF Provider, ProviderStep
<1>3. CASE WorkerStep
  <2>1. ASSUME NEW w \in Workers, Observe(w) PROVE lifecycle' = lifecycle
    BY <2>1 DEF Observe, ObserveLocal, ObservePolar, workspace
  <2>2. ASSUME NEW w \in Workers, Apply(w) PROVE lifecycle' = lifecycle
    BY <2>2 DEF Apply, RecordCheckout, ApplyOlder, ApplyWithoutEffect, ApplyCancellation,
       ApplyGrace, ApplyOver, ApplyEffective, Judged, workspace
  <2>3. ASSUME NEW w \in Workers, (\E i \in Intents : Lease(w, i)) \/ ReadMoney(w) \/ Abandon(w)
        PROVE  lifecycle' = lifecycle
    BY <2>3 DEF Lease, ReadMoney, Abandon, workspace
  <2>4. (\E i \in Intents : LeaseEnds(i)) => lifecycle' = lifecycle
    BY DEF LeaseEnds, workspace
  <2> QED
    BY <1>3, <2>1, <2>2, <2>3, <2>4 DEF WorkerStep, RunOne
<1> QED
  BY <1>1, <1>2, <1>3

(* A workspace is purged only when nobody could edit it for as long as it  *)
(* is retained, whatever came late (billing_maintenance).                  *)
THEOREM PurgesWait == Spec => PurgeAfterRetention
<1>1. ASSUME BillingInv, [Next]_vars, lifecycle = "ready", lifecycle' = "purging"
      PROVE  now > open + Retention
  <2>1. Maintain
    <3>1. ~ (Owner \/ Provider \/ WorkerStep)
      BY <1>1, WorkspaceStays
    <3>2. ~ (Purge \/ Team \/ Tick \/ UNCHANGED vars)
      BY <1>1 DEF Purge, Team, MemberChanges, Tick, vars, workspace
    <3> QED
      BY <1>1, <3>1, <3>2 DEF Next
  <2>2. sub # None /\ Deadline(sub) + Retention <= now
    BY <1>1, <2>1 DEF Maintain, PurgeDue
  <2>3. /\ open < Deadline(sub) /\ sub \in SubRows
        /\ open \in Nat /\ now \in Nat /\ Retention \in Nat
    BY <1>1, <2>2, BillingAssumption DEF BillingInv, PaidInv, TypesInv
  <2>4. Deadline(sub) \in Nat
    BY <2>3, DeadlineIsADay
  <2> QED
    BY <2>2, <2>3, <2>4
<1>2. BillingInv /\ [Next]_vars =>
        [lifecycle = "ready" /\ lifecycle' = "purging" => now > open + Retention]_vars
  BY <1>1
<1> QED
  BY <1>2, BillingInvariance, PTL DEF Spec, PurgeAfterRetention

-----------------------------------------------------------------------------
(* What was reviewed.                                                      *)

(* Who takes a seat besides the owner.                                     *)
Seated(f) == {m \in Members : f[m] \in {"editor", "invited"}}

(* A request that was not overtaken is about the members there are, and a  *)
(* plan that is bought has a seat for each of them.                        *)
Reviews(r) ==
  /\ r.moved \/ r.snapshot = member
  /\ r.kind \in {"checkout", "plan_upgrade"} => 1 + Cardinality(Seated(r.snapshot)) <= r.seats
  /\ r.seats >= 1
ReviewInv == \A i \in Intents : Asked(i) => Reviews(intent[i])

(* What a step leaves of a request: what it is about, what was reviewed,   *)
(* and that only a cancellation takes effect.                              *)
Calm(r, q) ==
  /\ q.kind = r.kind /\ q.seats = r.seats /\ q.snapshot = r.snapshot
  /\ r.moved => q.moved
  /\ q.status = "applied" => r.status = "applied" \/ r.kind \in {"cancel", "resume"}
Calmly(f) == \A i \in Intents : f[i] = intent[i] \/ (Asked(i) /\ Calm(intent[i], f[i]))

(* A calm step keeps the reviews, as long as the members stay.             *)
LEMMA CalmKeeps ==
  ASSUME ReviewInv, Calmly(intent'), member' = member
  PROVE  ReviewInv'
  BY DEF ReviewInv, Calmly, Calm, Reviews, Asked

(* So does one after which every request was overtaken.                    *)
LEMMA MovedKeeps ==
  ASSUME TypesInv, ReviewInv, NEW f \in [Intents -> IntentRows \cup {None}], Calmly(f),
         NEW b \in BOOLEAN, intent' = Moved(f, b)
  PROVE  ReviewInv' /\ Calmly(intent')
<1>1. ASSUME NEW i \in Intents
      PROVE  \/ f[i] = None /\ intent'[i] = None
             \/ f[i] # None /\ Calm(f[i], intent'[i]) /\ intent'[i].moved
  BY DEF Calm, IntentRows, Moved
<1>2. Calmly(intent')
  BY <1>1 DEF Calmly, Calm, Asked
<1>3. ASSUME NEW i \in Intents, Asked(i)' PROVE Reviews(intent[i])'
  <2>1. intent'[i].moved /\ Calm(f[i], intent'[i])
    BY <1>1, <1>3 DEF Asked
  <2>2. Asked(i)
    BY <1>1, <1>3 DEF Asked, Calmly
  <2> QED
    BY <2>1, <2>2 DEF ReviewInv, Reviews, Calmly, Calm
<1> QED
  BY <1>2, <1>3 DEF ReviewInv

(* Whatever is sold has a seat for everyone who takes one.                 *)
LEMMA AllocatedAreSeated == Allocated = 1 + Cardinality(Seated(member))
<1>1. Editors \cup {m \in Members : member[m] = "invited"} = Seated(member)
  BY DEF Editors, Seated
<1> QED
  BY <1>1 DEF Allocated

(* The owner asks, confirms, or has a request quoted again.                *)
LEMMA OwnerReviews ==
  ASSUME BillingInv, ReviewInv, NEW i \in Intents, OwnerRequest(i)
  PROVE  /\ ReviewInv'
         /\ \A j \in Intents : Asked(j) /\ intent[j].status # "applied"
                               => intent'[j].status # "applied"
<1>1. TypesInv /\ member' = member
  BY OwnerStep DEF BillingInv, workspace
<1>2. ASSUME NEW action \in {"quote", "checkout", "cancel", "resume"},
             NEW p \in {"cloud", "team"}, NEW n \in 1..MaxSeats, Request(i, action, p, n)
      PROVE  /\ ~ Asked(i) /\ \A j \in Intents \ {i} : intent'[j] = intent[j]
             /\ Reviews(intent[i])'
  <2> DEFINE k == Kind(action, p)
             q == intent'[i]
  <2>1. /\ ~ Asked(i) /\ \A j \in Intents \ {i} : intent'[j] = intent[j]
        /\ q.kind = k /\ q.seats = n /\ q.snapshot = member /\ Permitted(k, p, n, FALSE)
    BY <1>1, <1>2 DEF Request, TypesInv
  <2>2. n >= 1 /\ n \in Nat
    BY BillingAssumption
  <2>3. k \in {"checkout", "plan_upgrade"} => n >= 1 + Cardinality(Seated(member))
    BY <2>1, AllocatedAreSeated DEF Permitted
  <2>4. Cardinality(Seated(member)) \in Nat
    <3>1. Seated(member) \subseteq Members
      BY DEF Seated
    <3> QED
      BY <3>1, FS_Subset, FS_CardinalityType, BillingAssumption
  <2> HIDE DEF k
  <2> QED
    BY <1>1, <2>1, <2>2, <2>3, <2>4 DEF Reviews, Seated
<1>3. ASSUME Refresh(i)
      PROVE  /\ \A j \in Intents \ {i} : intent'[j] = intent[j]
             /\ Asked(i) /\ intent'[i].status = intent[i].status /\ Reviews(intent[i])'
  <2>1. /\ Asked(i) /\ \A j \in Intents \ {i} : intent'[j] = intent[j]
        /\ intent'[i].kind = intent[i].kind /\ intent'[i].seats = intent[i].seats
        /\ intent'[i].snapshot = member /\ intent'[i].status = intent[i].status
    BY <1>1, <1>3 DEF Refresh, TypesInv, IntentRows, Asked
  <2>2. intent[i].kind \in {"checkout", "plan_upgrade"} => intent[i].seats >= Allocated
    BY <1>3 DEF Refresh, Permitted
  <2>3. Cardinality(Seated(member)) \in Nat
    <3>1. Seated(member) \subseteq Members
      BY DEF Seated
    <3> QED
      BY <3>1, FS_Subset, FS_CardinalityType, BillingAssumption
  <2>4. intent[i].seats >= 1 /\ intent[i].seats \in Nat
    BY <1>1, <2>1 DEF ReviewInv, Reviews, TypesInv, IntentRows, Asked
  <2> QED
    BY <1>1, <2>1, <2>2, <2>3, <2>4, AllocatedAreSeated DEF Reviews, Seated
<1>4. ASSUME (\E demote \in SUBSET Members : Confirm(i, demote)) \/ CheckoutAfterTeam(i)
      PROVE  Calmly(intent') /\ Asked(i) /\ intent'[i].status # "applied"
             /\ \A j \in Intents \ {i} : intent'[j] = intent[j]
  <2>1. CASE \E demote \in SUBSET Members : Confirm(i, demote)
    BY <1>1, <2>1 DEF Confirm, Confirmable, Calmly, Calm, TypesInv, IntentRows, Asked
  <2>2. CASE CheckoutAfterTeam(i)
    BY <1>1, <2>2 DEF CheckoutAfterTeam, Confirmable, Calmly, Calm, TypesInv, IntentRows, Asked
  <2> QED
    BY <1>4, <2>1, <2>2
<1>5. ASSUME \A j \in Intents \ {i} : intent'[j] = intent[j], Reviews(intent[i])'
      PROVE  ReviewInv'
  BY <1>1, <1>5 DEF ReviewInv, Reviews, Asked
<1> QED
  BY <1>1, <1>2, <1>3, <1>4, <1>5, CalmKeeps DEF OwnerRequest, Asked

(* What a worker's step does to the requests.                              *)
LEMMA WorkerReviews ==
  ASSUME BillingInv, ReviewInv, NEW w \in Workers,
         RecordCheckout(w) \/ ApplyOlder(w) \/ ApplyWithoutEffect(w)
           \/ ApplyCancellation(w) \/ ApplyGrace(w) \/ ApplyOver(w)
  PROVE  ReviewInv' /\ Calmly(intent')
<1>1. /\ TypesInv /\ member' = member /\ worker[w] # None
      /\ \A i \in Intents : intent[i] # None => intent[i] \in IntentRows
  BY DEF BillingInv, TypesInv, RecordCheckout, ApplyOlder, ApplyWithoutEffect, ApplyCancellation,
     ApplyGrace, ApplyOver, Judged, Answered, Owns, workspace
<1>2. PICK i \in Intents : i = worker[w].intent
  BY <1>1 DEF TypesInv, Holdings
<1>3. intent[i] \in IntentRows /\ Asked(i)
  BY <1>1, <1>2, BillingAssumption DEF BillingInv, KnownInv, Good, Asked
<1>4. PICK r : r = Released(i)
  OBVIOUS
<1>5. r \in [Intents -> IntentRows \cup {None}] /\ Calmly(r)
  <2>1. r \in [Intents -> IntentRows \cup {None}] /\ \A j \in Intents \ {i} : r[j] = intent[j]
    BY <1>1, <1>3, <1>4, ReleasedRow
  <2>2. Calm(intent[i], r[i])
    BY <1>1, <1>3, <1>4 DEF Calm, Released, TypesInv, IntentRows
  <2> QED
    BY <1>3, <2>1, <2>2 DEF Calmly
<1>6. r[i] \in IntentRows /\ Calm(intent[i], r[i])
  <2>1. r[i] \in IntentRows
    BY <1>1, <1>3, <1>4, ReleasedRow DEF Succeeds
  <2>2. Calm(intent[i], r[i])
    BY <1>1, <1>3, <1>4 DEF Calm, Released, TypesInv, IntentRows
  <2> QED
    BY <2>1, <2>2
<1>7. CASE RecordCheckout(w)
  <2>1. intent' = [r EXCEPT ![i].checkout = TRUE, ![i].status = "awaiting_provider",
                            ![i].phase = "other"]
    BY <1>2, <1>4, <1>7 DEF RecordCheckout
  <2>2. Calmly(intent')
    BY <1>3, <1>5, <2>1 DEF Calmly, Calm, IntentRows
  <2> QED
    BY <1>1, <2>2, CalmKeeps
<1>8. CASE ApplyOlder(w)
  BY <1>1, <1>2, <1>4, <1>5, <1>8, CalmKeeps DEF ApplyOlder
<1>9. CASE ApplyWithoutEffect(w)
  <2>1. PICK v : intent' = [r EXCEPT ![i] = Noted(r[i], v)]
    BY <1>2, <1>4, <1>9 DEF ApplyWithoutEffect
  <2>2. r[i] \in IntentRows /\ Calm(intent[i], r[i])
    BY <1>6
  <2>3. Calm(intent[i], Noted(r[i], v))
    <3>1. PICK q : q = r[i]
      OBVIOUS
    <3>2. q \in IntentRows /\ Calm(intent[i], q)
      BY <2>2, <3>1
    <3>3. Noted(q, v).status \in {q.status, "awaiting_provider", "failed"}
          /\ Noted(q, v).kind = q.kind /\ Noted(q, v).seats = q.seats
          /\ Noted(q, v).snapshot = q.snapshot /\ Noted(q, v).moved = q.moved
      BY <3>2 DEF Noted, IntentRows
    <3> QED
      BY <3>1, <3>2, <3>3 DEF Calm
  <2>4. Calmly(intent')
    BY <1>3, <1>5, <2>1, <2>3 DEF Calmly
  <2> QED
    BY <1>1, <2>4, CalmKeeps
<1>10. CASE ApplyCancellation(w)
  <2>1. PICK f : f = IF intent[i].kind \in {"cancel", "resume"}
                     THEN [r EXCEPT ![i].status = "applied", ![i].phase = "other"] ELSE r
    OBVIOUS
  <2>2. intent' = Moved(f, TRUE)
    BY <1>2, <1>4, <1>10, <2>1 DEF ApplyCancellation
  <2>3. f \in [Intents -> IntentRows \cup {None}] /\ Calmly(f)
    <3>1. r[i] \in IntentRows /\ Calm(intent[i], r[i])
      BY <1>6
    <3>2. PICK q : q = [r[i] EXCEPT !.status = "applied", !.phase = "other"]
      OBVIOUS
    <3>3. /\ q \in IntentRows
          /\ intent[i].kind \in {"cancel", "resume"} => Calm(intent[i], q)
      BY <3>1, <3>2 DEF Calm, IntentRows
    <3>4. f = IF intent[i].kind \in {"cancel", "resume"} THEN [r EXCEPT ![i] = q] ELSE r
      BY <1>5, <2>1, <3>2
    <3> QED
      BY <1>3, <1>5, <3>3, <3>4 DEF Calmly
  <2> QED
    BY <1>1, <2>2, <2>3, MovedKeeps
<1>11. CASE ApplyGrace(w) \/ ApplyOver(w)
  <2>1. intent' = r \/ intent' = Moved(r, TRUE)
    BY <1>2, <1>4, <1>11 DEF ApplyGrace, ApplyOver
  <2> QED
    BY <1>1, <1>5, <2>1, CalmKeeps, MovedKeeps
<1> QED
  BY <1>7, <1>8, <1>9, <1>10, <1>11

(* What takes effect in a workspace that is there was confirmed.           *)
LEMMA EffectiveIsConfirmed ==
  ASSUME NEW i \in Intents, NEW s \in Intents, NEW u, Verdict(i, s, u) = "effective"
  PROVE  /\ lifecycle = "ready"
         /\ intent[i].status # "applied" => StillConfirmed(intent[i], u)
  BY DEF Verdict

(* A request that takes effect leaves the reviews as they are: it overtakes*)
(* all others, and no other one takes effect with it.                      *)
LEMMA EffectiveReviews ==
  ASSUME BillingInv, ReviewInv, NEW w \in Workers, ApplyEffective(w)
  PROVE  /\ ReviewInv'
         /\ \A j \in Intents \ {worker[w].intent} :
              Asked(j) /\ intent'[j].status = "applied" =>
                intent[j].status = "applied" \/ intent[j].kind \in {"cancel", "resume"}
<1>1. TypesInv /\ Answered(w)
  BY DEF ApplyEffective, Judged, BillingInv
<1>2. PICK i \in Intents : i = worker[w].intent /\ GoodAt(i)
  BY <1>1, AnswerParts
<1>3. intent[i] \in IntentRows /\ Asked(i)
  BY <1>2, BillingAssumption DEF GoodAt, Good, Asked
<1>4. PICK f : f = [Released(i) EXCEPT ![i].status = "applied", ![i].phase = "other"]
  OBVIOUS
<1>5. intent' = Moved(f, TRUE)
  BY <1>2, <1>4 DEF ApplyEffective
<1>6. /\ f[i] \in IntentRows /\ DOMAIN f = Intents
      /\ f[i].kind = intent[i].kind /\ f[i].seats = intent[i].seats
      /\ f[i].snapshot = intent[i].snapshot
      /\ \A j \in Intents \ {i} : f[j] = intent[j]
  BY <1>1, <1>3, <1>4 DEF Released, TypesInv, IntentRows
<1>7. ASSUME NEW j \in Intents
      PROVE  \/ intent[j] = None /\ intent'[j] = None
             \/ /\ intent[j] # None /\ intent'[j].moved
                /\ intent'[j].kind = f[j].kind /\ intent'[j].seats = f[j].seats
                /\ intent'[j].snapshot = f[j].snapshot /\ intent'[j].status = f[j].status
  <2>1. f[j] \in IntentRows \cup {None} /\ (f[j] = None <=> intent[j] = None)
    BY <1>1, <1>3, <1>6, BillingAssumption DEF TypesInv, Asked
  <2>2. intent'[j] = IF f[j] = None THEN None
                     ELSE [f[j] EXCEPT !.moved = TRUE, !.source = @ \/ TRUE]
    BY <1>5 DEF Moved
  <2> QED
    BY <2>1, <2>2 DEF IntentRows
<1>8. ReviewInv'
  BY <1>6, <1>7 DEF ReviewInv, Reviews, Asked
<1> QED
  BY <1>2, <1>6, <1>7, <1>8 DEF Asked

(* The steps that neither ask nor take effect are calm.                    *)
LEMMA OthersAreCalm ==
  ASSUME BillingInv, ReviewInv, [Next]_vars,
         \A i \in Intents : ~ OwnerRequest(i), \A w \in Workers : ~ ApplyEffective(w)
  PROVE  ReviewInv' /\ Calmly(intent')
<1>1. TypesInv
  BY DEF BillingInv
<1>2. ASSUME UNCHANGED <<intent, member>> PROVE ReviewInv' /\ Calmly(intent')
  BY <1>2, CalmKeeps DEF Calmly
<1>3. ASSUME NEW b \in BOOLEAN, intent' = Moved(intent, b) PROVE ReviewInv' /\ Calmly(intent')
  <2>1. intent \in [Intents -> IntentRows \cup {None}] /\ Calmly(intent)
    BY <1>1 DEF TypesInv, Calmly
  <2> QED
    BY <1>1, <1>3, <2>1, MovedKeeps
<1>4. CASE Owner
  BY <1>4 DEF Owner
<1>5. CASE Provider
  <2>1. ASSUME NEW s \in Intents, NEW u, Supplies(s, u) PROVE UNCHANGED <<intent, member>>
    BY <2>1 DEF Supplies, workspace
  <2>2. ASSUME NEW s \in Intents, Webhook(s) PROVE UNCHANGED <<intent, member>>
    BY <2>2 DEF Webhook, workspace
  <2>3. ASSUME NEW s \in Intents, Pays(s) \/ Renews(s) \/ Charges(s) PROVE UNCHANGED <<intent, member>>
    BY <2>1, <2>3 DEF Pays, Renews, Charges
  <2>4. ASSUME NEW s \in Intents, RenewalFails(s) \/ Stops(s) \/ Flips(s) \/ Refunds(s)
        PROVE  UNCHANGED <<intent, member>>
    BY <2>1, <2>4 DEF RenewalFails, Stops, Flips, Refunds
  <2> QED
    BY <1>2, <1>5, <2>2, <2>3, <2>4 DEF Provider, ProviderStep
<1>6. CASE WorkerStep
  <2>1. ASSUME NEW i \in Intents, LeaseEnds(i) PROVE ReviewInv' /\ Calmly(intent')
    <3>1. Calmly(intent') /\ member' = member
      BY <1>1, <2>1 DEF LeaseEnds, Calmly, Calm, TypesInv, IntentRows, Asked, workspace
    <3> QED
      BY <3>1, CalmKeeps
  <2>2. ASSUME NEW w \in Workers, NEW i \in Intents, Lease(w, i) PROVE ReviewInv' /\ Calmly(intent')
    <3>1. Calmly(intent') /\ member' = member
      BY <1>1, <2>2 DEF Lease, Leasable, Calmly, Calm, TypesInv, IntentRows, Asked, workspace
    <3> QED
      BY <3>1, CalmKeeps
  <2>3. ASSUME NEW w \in Workers, Observe(w) \/ ReadMoney(w) \/ Abandon(w)
        PROVE  ReviewInv' /\ Calmly(intent')
    BY <1>2, <2>3 DEF Observe, ObserveLocal, ObservePolar, ReadMoney, Abandon, workspace
  <2>4. ASSUME NEW w \in Workers, Apply(w) PROVE ReviewInv' /\ Calmly(intent')
    BY <2>4, WorkerReviews DEF Apply
  <2> QED
    BY <1>6, <2>1, <2>2, <2>3, <2>4 DEF WorkerStep, RunOne
<1>7. CASE Maintain
  <2>1. /\ member' = member
        /\ intent' = intent \/ \E b \in BOOLEAN : intent' = Moved(intent, b)
    BY <1>7 DEF Maintain
  <2> QED
    BY <1>2, <1>3, <2>1
<1>8. CASE Purge \/ Team
  <2>1. intent' = Moved(intent, FALSE)
    BY <1>8 DEF Purge, Team, MemberChanges
  <2> QED
    BY <1>3, <2>1
<1>9. CASE Tick \/ UNCHANGED vars
  BY <1>2, <1>9 DEF Tick, vars, workspace
<1> QED
  BY <1>4, <1>5, <1>6, <1>7, <1>8, <1>9 DEF Next

(* What every request that was not overtaken is about: the members there   *)
(* are, and a seat for each of them in a plan that is bought.              *)
THEOREM ReviewInvariance == Spec => []ReviewInv
<1>1. Init => ReviewInv
  BY DEF Init, ReviewInv, Asked
<1>2. BillingInv /\ ReviewInv /\ [Next]_vars => ReviewInv'
  BY OwnerReviews, EffectiveReviews, OthersAreCalm
<1> QED
  BY <1>1, <1>2, BillingInvariance, PTL DEF Spec

(* An answer that takes effect opens the workspace, unless it changes the  *)
(* seats: the members are those the owner reviewed, and fit.               *)
LEMMA EffectiveOpens ==
  ASSUME BillingInv, ReviewInv, NEW w \in Workers, ApplyEffective(w),
         intent[worker[w].intent].status # "applied"
  PROVE  /\ intent[worker[w].intent].snapshot = member
         /\ intent[worker[w].intent].kind \in {"checkout", "plan_upgrade", "plan_downgrade"} => Editable'
<1>1. TypesInv /\ Answered(w) /\ lifecycle' = lifecycle /\ now' = now
  BY DEF ApplyEffective, Judged, BillingInv, outside, time
<1>2. PICK i \in Intents, s \in Intents, u \in Upstreams :
         /\ i = worker[w].intent /\ s = worker[w].of /\ u = worker[w].read /\ GoodAt(i)
  BY <1>1, AnswerParts
<1>3. PICK r \in IntentRows : r = intent[i]
  BY <1>2 DEF GoodAt, Good
<1>4. Verdict(i, s, u) = "effective"
  BY <1>2 DEF ApplyEffective, Judged
<1>5. lifecycle = "ready" /\ StillConfirmed(r, u)
  BY <1>2, <1>3, <1>4, EffectiveIsConfirmed
<1>6. Reviews(r)
  BY <1>3, BillingAssumption DEF ReviewInv, Asked
<1>7. r.snapshot = member
  BY <1>5, <1>6 DEF StillConfirmed, Matured, Reviews
<1>8. ASSUME r.kind \in {"checkout", "plan_upgrade", "plan_downgrade"} PROVE Editable'
  <2>1. /\ u.state \in {"trialing", "active"} /\ u.end > now
    BY <1>4, EffectiveMeans
  <2>2. PICK q : q = Subscription(r, s, u)
    OBVIOUS
  <2>3. /\ q.plan = r.plan /\ q.status = u.state /\ q.seats = r.seats /\ q.end = u.end
        /\ q.paid = (u.state = "active") /\ q \in SubRows
    BY <2>1, <2>2 DEF Subscription, SubRows, Upstreams, IntentRows
  <2>4. sub' = q /\ plan' = r.plan /\ member' = Reviewed(r)
    BY <1>2, <1>3, <2>2 DEF ApplyEffective
  <2>5. sub' # None /\ Standing(sub)'
    BY <1>1, <2>1, <2>3, <2>4, BillingAssumption DEF Standing
  <2>6. 1 + Cardinality(Editors') <= r.seats
    <3>1. /\ Seated(member) \subseteq Members /\ IsFiniteSet(Seated(member))
          /\ Cardinality(Seated(member)) \in Nat
      BY FS_Subset, FS_CardinalityType, BillingAssumption DEF Seated
    <3>2. Editors' \subseteq Seated(member)
      BY <2>4 DEF Editors, Seated, Reviewed
    <3>3. Cardinality(Editors') <= Cardinality(Seated(member)) /\ Cardinality(Editors') \in Nat
      BY <3>1, <3>2, FS_Subset, FS_CardinalityType
    <3>4. r.seats >= 1 /\ r.seats \in Nat
      BY <1>6 DEF Reviews, IntentRows
    <3>5. CASE r.kind = "plan_downgrade"
      <4>1. r.status # "applied" /\ r.changes = Removals
        BY <1>2, <1>3, <1>5, <3>5 DEF StillConfirmed
      <4>2. Editors' = {}
        BY <2>4, <3>5, <4>1 DEF Editors, Reviewed, Removals
      <4> QED
        BY <3>4, <4>2, FS_EmptySet
    <3>6. CASE r.kind \in {"checkout", "plan_upgrade"}
      BY <1>6, <1>7, <3>1, <3>3, <3>4, <3>6 DEF Reviews
    <3> QED
      BY <1>8, <3>5, <3>6
  <2> QED
    BY <1>1, <1>5, <2>3, <2>4, <2>5, <2>6 DEF Editable
<1> QED
  BY <1>2, <1>3, <1>7, <1>8

(* A request takes effect on the members its owner reviewed, and what is   *)
(* paid for, other than a change of seats, opens the workspace, in         *)
(* whatever order answers, members and the clock come (apply_billing).     *)
THEOREM PaymentOpens == Spec => PaymentOpensWorkspace
<1>1. ASSUME BillingInv, ReviewInv, [Next]_vars, NEW i \in Intents, Asked(i),
             intent[i].kind \notin {"cancel", "resume"}, intent[i].status # "applied",
             intent'[i].status = "applied"
      PROVE  intent[i].snapshot = member /\ (intent[i].kind # "seat_change" => Editable')
  <2>1. ~ \E j \in Intents : OwnerRequest(j)
    BY <1>1, OwnerReviews
  <2>2. PICK w \in Workers : ApplyEffective(w)
    BY <1>1, <2>1, OthersAreCalm DEF Calmly, Calm
  <2>3. i = worker[w].intent
    BY <1>1, <2>2, EffectiveReviews
  <2>4. intent[i].kind \in Kinds
    BY <1>1 DEF BillingInv, TypesInv, IntentRows, Asked
  <2> QED
    BY <1>1, <2>2, <2>3, <2>4, EffectiveOpens DEF Kinds
<1>2. BillingInv /\ ReviewInv /\ [Next]_vars =>
        [\A i \in Intents :
           Asked(i) /\ intent[i].kind \notin {"cancel", "resume"}
           /\ intent[i].status # "applied" /\ intent'[i].status = "applied" =>
             /\ intent[i].snapshot = member
             /\ intent[i].kind # "seat_change" => Editable']_vars
  BY <1>1
<1> QED
  BY <1>2, BillingInvariance, ReviewInvariance, PTL DEF Spec, PaymentOpensWorkspace

-----------------------------------------------------------------------------
(* What was bought is kept.                                                *)

(* As long as plan, subscription and time stay, and there are seats.       *)
LEMMA EditingStays ==
  ASSUME Editable, UNCHANGED <<lifecycle, plan, sub, now>>, 1 + Cardinality(Editors') <= sub'.seats
  PROVE  Editable'
  BY DEF Editable, Standing

(* No answer of the provider takes editing away before its time.           *)
LEMMA AnswersKeepEditing ==
  ASSUME BillingInv, Editable, NEW w \in Workers, Apply(w), 1 + Cardinality(Editors') <= sub'.seats
  PROVE  Editable'
<1>1. TypesInv /\ PaidInv /\ lifecycle = "ready" /\ sub.plan = plan /\ Standing(sub) /\ now < Deadline(sub)
  BY EditorsAreInTime DEF BillingInv, Editable
<1>2. PICK o \in SubRows : o = sub
  BY <1>1 DEF TypesInv, Editable
<1>3. UNCHANGED <<lifecycle, now>>
  BY DEF Apply, RecordCheckout, ApplyOlder, ApplyWithoutEffect, ApplyCancellation, ApplyGrace,
     ApplyOver, ApplyEffective, Judged, workspace, outside, time
<1>4. CASE RecordCheckout(w) \/ ApplyOlder(w) \/ ApplyWithoutEffect(w)
  BY <1>3, <1>4, EditingStays DEF RecordCheckout, ApplyOlder, ApplyWithoutEffect, workspace
<1>5. CASE ApplyCancellation(w)
  <2>1. PICK b, q : q = [o EXCEPT !.cancel = b] /\ sub' = q /\ plan' = plan
    BY <1>2, <1>5 DEF ApplyCancellation
  <2>2. /\ q.status = o.status /\ q.paid = o.paid /\ q.end = o.end /\ q.grace = o.grace
        /\ q.plan = o.plan
    BY <2>1 DEF SubRows
  <2>3. b \in BOOLEAN
    BY <1>2, <1>5, <2>1 DEF ApplyCancellation, SubRows
  <2>4. q \in SubRows
    BY <2>1, <2>3 DEF SubRows
  <2>5. Standing(sub)'
    BY <1>1, <1>2, <1>3, <2>1, <2>2 DEF Standing
  <2> QED
    BY <1>1, <1>2, <1>3, <2>1, <2>2, <2>4, <2>5, BillingAssumption DEF Editable
<1>6. CASE ApplyGrace(w)
  <2>1. PICK i \in Intents, s \in Intents, u \in Upstreams :
          i = worker[w].intent /\ s = worker[w].of /\ u = worker[w].read /\ GoodAt(i)
    BY <1>6, AnswerParts DEF ApplyGrace, Judged
  <2>2. o.paid /\ u.state = "renewal_failed" /\ ~ (FailedAt(u) < o.end) /\ plan' = plan
    BY <1>2, <1>6, <2>1, GraceMeans DEF ApplyGrace, Judged
  <2>3. CASE o.grace # None
    <3>1. o.status = "grace_period"
      BY <1>1, <1>2, <2>3 DEF Standing, PaidInv, Editable
    <3>2. sub' = sub
      BY <1>2, <1>6, <2>3, <3>1 DEF ApplyGrace
    <3> QED
      BY <1>3, <2>2, <3>2, EditingStays
  <2>4. CASE o.grace = None
    <3>1. o.end > now
      BY <1>1, <1>2, <2>4 DEF Standing
    <3>2. PICK e : e = FailedAt(u) + Grace
      OBVIOUS
    <3>3. e \in Nat /\ e > now
      <4>1. FailedAt(u) = u.failed /\ u.failed \in Nat /\ o.end \in Nat /\ now \in Nat /\ Grace \in Nat
        BY <1>1, <1>2, <2>2, <2>4, BillingAssumption DEF FailedAt, Upstreams, SubRows, TypesInv
      <4> QED
        BY <2>2, <3>1, <3>2, <4>1
    <3>4. PICK q : q = [o EXCEPT !.status = "grace_period", !.grace = e] /\ sub' = q
      BY <1>2, <1>6, <2>1, <2>4, <3>2 DEF ApplyGrace
    <3>5. q \in SubRows /\ q.status = "grace_period" /\ q.grace = e /\ q.paid /\ q.plan = o.plan
      BY <2>2, <3>3, <3>4 DEF SubRows
    <3>6. Standing(sub)'
      BY <1>3, <3>3, <3>4, <3>5, BillingAssumption DEF Standing
    <3> QED
      BY <1>1, <1>2, <1>3, <2>2, <3>4, <3>5, <3>6, BillingAssumption DEF Editable
  <2> QED
    BY <2>3, <2>4
<1>7. CASE ApplyOver(w)
  <2>1. ~ Lapses
    BY <1>1, <1>2, DeadlineIsADay DEF Lapses, TypesInv
  <2>2. UNCHANGED <<plan, sub>>
    BY <1>7, <2>1 DEF ApplyOver
  <2> QED
    BY <1>3, <2>2, EditingStays
<1>8. CASE ApplyEffective(w)
  <2>1. PICK i \in Intents, s \in Intents, u \in Upstreams :
          i = worker[w].intent /\ s = worker[w].of /\ u = worker[w].read /\ GoodAt(i)
    BY <1>8, AnswerParts DEF ApplyEffective, Judged
  <2>2. PICK r \in IntentRows : r = intent[i]
    BY <2>1 DEF GoodAt, Good
  <2>3. u.state \in {"trialing", "active"} /\ u.end > now
    BY <1>8, <2>1, EffectiveMeans DEF ApplyEffective, Judged
  <2>4. PICK q : q = Subscription(r, s, u)
    OBVIOUS
  <2>5. /\ q.plan = r.plan /\ q.status = u.state /\ q.end = u.end
        /\ q.paid = (u.state = "active") /\ q \in SubRows
    BY <2>3, <2>4 DEF Subscription, SubRows, Upstreams, IntentRows
  <2>6. sub' = q /\ plan' = r.plan
    BY <1>8, <2>1, <2>2, <2>4 DEF ApplyEffective
  <2>7. Standing(sub)'
    BY <1>3, <2>3, <2>5, <2>6 DEF Standing
  <2> QED
    BY <1>1, <1>3, <2>5, <2>6, <2>7, BillingAssumption DEF Editable
<1> QED
  BY <1>4, <1>5, <1>6, <1>7, <1>8 DEF Apply

(* While the time that was bought runs, nothing takes editing away as long *)
(* as there are seats for the editors: no answer, in whatever order, no    *)
(* change of plan and no maintenance.                                      *)
THEOREM PaidTimeIsKept == Spec => EditingEndsOnTime
<1>1. ASSUME BillingInv, [Next]_vars, Editable, now' = now, 1 + Cardinality(Editors') <= sub'.seats
      PROVE  Editable'
  <2>1. TypesInv /\ lifecycle = "ready" /\ now \in Nat
    BY <1>1 DEF BillingInv, TypesInv, Editable
  <2>2. ASSUME UNCHANGED <<lifecycle, plan, sub>> PROVE Editable'
    BY <1>1, <2>2, EditingStays
  <2>3. CASE Owner
    BY <1>1, <2>2, <2>3, OwnerStep DEF Owner, workspace
  <2>4. CASE Provider
    <3>1. ASSUME NEW s \in Intents, NEW u, Supplies(s, u) PROVE UNCHANGED <<lifecycle, plan, sub>>
      BY <3>1 DEF Supplies, workspace
    <3>2. ASSUME NEW s \in Intents, Webhook(s) PROVE UNCHANGED <<lifecycle, plan, sub>>
      BY <3>2 DEF Webhook, workspace
    <3>3. ASSUME NEW s \in Intents, Pays(s) \/ Renews(s) \/ Charges(s)
          PROVE  UNCHANGED <<lifecycle, plan, sub>>
      BY <3>1, <3>3 DEF Pays, Renews, Charges
    <3>4. ASSUME NEW s \in Intents, RenewalFails(s) \/ Stops(s) \/ Flips(s) \/ Refunds(s)
          PROVE  UNCHANGED <<lifecycle, plan, sub>>
      BY <3>1, <3>4 DEF RenewalFails, Stops, Flips, Refunds
    <3> QED
      BY <2>2, <2>4, <3>2, <3>3, <3>4 DEF Provider, ProviderStep
  <2>5. CASE WorkerStep
    <3>1. ASSUME NEW w \in Workers, Observe(w) \/ ReadMoney(w) \/ Abandon(w) PROVE Editable'
      BY <2>2, <3>1 DEF Observe, ObserveLocal, ObservePolar, ReadMoney, Abandon, workspace
    <3>2. ASSUME NEW i \in Intents, LeaseEnds(i) \/ \E w \in Workers : Lease(w, i) PROVE Editable'
      BY <2>2, <3>2 DEF LeaseEnds, Lease, workspace
    <3> QED
      BY <1>1, <2>5, <3>1, <3>2, AnswersKeepEditing DEF WorkerStep, RunOne
  <2>6. ~ Maintain /\ ~ Purge /\ ~ Tick
    BY <1>1, <2>1 DEF Maintain, Purge, Tick
  <2>7. CASE Team \/ UNCHANGED vars
    BY <2>2, <2>7 DEF Team, MemberChanges, vars, workspace
  <2> QED
    BY <1>1, <2>3, <2>4, <2>5, <2>6, <2>7 DEF Next
<1>2. BillingInv /\ [Next]_vars =>
        [Editable /\ now' = now /\ 1 + Cardinality(Editors') <= sub'.seats => Editable']_vars
  BY <1>1
<1> QED
  BY <1>2, BillingInvariance, PTL DEF Spec, EditingEndsOnTime
=============================================================================
