------------------------------ MODULE Billing ------------------------------
(***************************************************************************)
(* The subscription of one workspace: what its owner asks for, what the    *)
(* payment provider says, the worker that brings the two together, and     *)
(* the retention of a workspace whose access has ended.                    *)
(*                                                                         *)
(* A request of the owner is recorded as an intent.  A worker leases an    *)
(* intent, asks the provider about it outside any transaction, and applies *)
(* the answer in one transaction that locks the workspace.  Revisions are  *)
(* only compared for equality with what they are now: an intent carries    *)
(* whether they have moved since it was quoted.                            *)
(*                                                                         *)
(* One billing interval, amounts that the provider charges as quoted, and  *)
(* an owner who never changes.  A quote that has expired is one that is    *)
(* never confirmed.                                                        *)
(***************************************************************************)
EXTENDS Naturals, FiniteSets

CONSTANTS Intents, Workers,
          Members,     \* people other than the owner
          None,
          Providers,   \* the providers a deployment may have: "local", "polar"
          MaxSeats, MaxTime,
          Period, Trial, Grace, Retention, \* lengths, in ticks
          MaxVersion   \* changes of one subscription at the provider

(* The rows of the tables.                                                 *)
Plans == {"cloud", "team"}
Roles == {"none", "invited", "viewer", "editor"}

(* A subscription row.                                                     *)
SubRows == [sid : Intents, plan : Plans, status : {"trialing", "active", "grace_period", "ended"},
            seats : Nat, end : Nat, paid : BOOLEAN, grace : Nat \cup {None}, cancel : BOOLEAN]

(* A request of the owner.                                                 *)
Open == {"requested", "awaiting_provider", "scheduled"}
Kinds == {"checkout", "cancel", "resume", "plan_upgrade", "plan_downgrade", "seat_change"}
IntentRows ==
  [kind : Kinds, plan : Plans, seats : Nat, from : SubRows \cup {None},
   status : Open \cup {"quoted", "applied", "failed"},
   phase : {"other", "checkout_ready", "awaiting_team_end"}, confirmed : BOOLEAN,
   snapshot : [Members -> Roles], changes : SUBSET Members, effective : Nat,
   trial : Nat \cup {None}, created : Nat, moved : BOOLEAN, source : BOOLEAN,
   token : Workers \cup {None}, held : BOOLEAN, checkout : BOOLEAN]

ASSUME BillingAssumption ==
  /\ Providers \subseteq {"local", "polar"} /\ Providers # {}
  /\ {MaxSeats, Period, Trial, Grace, Retention} \subseteq Nat \ {0}
  /\ MaxTime \in Nat /\ MaxVersion \in Nat
  /\ None \notin Intents \cup Nat \cup SubRows \cup IntentRows
  /\ IsFiniteSet(Members)

VARIABLES
  now, provider,
  lifecycle, plan, \* the workspace: its kind is that of a plan
  member,     \* "none", "invited", "viewer" or "editor"
  sub,        \* the subscription row, or None
  intent,     \* billing_change_intents
  contract,   \* billing_contracts: the version and state last stored
  orders,     \* payment_orders: the period ends paid for, by subscription
  episode,    \* retention_episodes, by the date access ended
  worker,     \* the intent each worker holds and what it has read
  upstream,   \* the subscriptions at the provider, each made for an intent
  heard,      \* subscriptions some accepted webhook told of
  open        \* history: the last tick that passed while it could be edited

workspace == <<lifecycle, plan, member>>
books == <<contract, orders>>
time == <<now, open>>
outside == <<time, provider, upstream, heard>>
vars == <<workspace, sub, intent, books, episode, worker, outside>>

Asked(i) == intent[i] # None
Deadline(s) == IF s.grace # None THEN s.grace ELSE s.end

Editors == {m \in Members : member[m] = "editor"}
Allocated == 1 + Cardinality(Editors \cup {m \in Members : member[m] = "invited"})
Removals == {m \in Members : member[m] # "none"}

(* A subscription that is worth something and has the seats.               *)
Standing(s) ==
  \/ s.status = "trialing" /\ ~ s.paid /\ s.end > now
  \/ s.status = "active" /\ s.paid /\ s.end > now
  \/ s.status = "grace_period" /\ s.paid /\ s.grace # None /\ s.grace > now
Editable ==
  /\ lifecycle = "ready" /\ sub # None /\ sub.plan = plan
  /\ 1 + Cardinality(Editors) <= sub.seats
  /\ Standing(sub)

(* Any change of members or of the subscription raises access_revision,    *)
(* only the latter the subscription's own.                                 *)
Moved(f, bySubscription) ==
  [i \in Intents |-> IF f[i] = None THEN None
                     ELSE [f[i] EXCEPT !.moved = TRUE, !.source = @ \/ bySubscription]]

-----------------------------------------------------------------------------
(* Requests of the owner.                                                  *)

Wellformed(p, n) == p \in {"cloud", "team"} /\ n \in 1..MaxSeats /\ (p = "cloud" => n = 1)

Kind(action, p) ==
  IF action \in {"cancel", "resume"} THEN action
  ELSE IF sub = None \/ (~ Editable /\ sub.plan = p) THEN "checkout"
  ELSE IF sub.plan = "cloud" /\ p = "team" THEN "plan_upgrade"
  ELSE IF sub.plan = "team" /\ p = "cloud" THEN "plan_downgrade"
  ELSE "seat_change"

Permitted(k, p, n, refresh) ==
  /\ k = "checkout" => plan = p /\ ~ Editable
  /\ k = "plan_upgrade" => refresh \/ (Editable /\ ~ sub.cancel)
  /\ k = "seat_change" => p = "team" /\ n # sub.seats /\ (refresh \/ Editable)
  /\ k \in {"plan_downgrade", "seat_change"} \/ n >= Allocated

InProgress(except) == \E i \in Intents \ except : Asked(i) /\ intent[i].status \in Open

(* A change that leaves less waits for the end of what is paid.            *)
Reduces(k, n, s) == k = "plan_downgrade" \/ (k = "seat_change" /\ n < s.seats)

(* quote, and at once confirmed: checkout, cancel and resume.              *)
Request(i, action, p, n) ==
  /\ ~ Asked(i) /\ lifecycle = "ready" /\ Wellformed(p, n)
  /\ action \in {"cancel", "resume"} => sub # None /\ p = sub.plan /\ n = sub.seats
  /\ LET k == Kind(action, p)
         later == Reduces(k, n, sub)
     IN  /\ Permitted(k, p, n, FALSE) /\ ~ InProgress({})
         /\ intent' = [intent EXCEPT ![i] =
              [kind |-> k, plan |-> p, seats |-> n, from |-> sub,
               status |-> IF action = "quote" THEN "quoted" ELSE "requested",
               phase |-> "other", confirmed |-> action # "quote",
               snapshot |-> member,
               changes |-> IF k = "plan_downgrade" THEN Removals ELSE {},
               effective |-> IF later THEN Deadline(sub) ELSE now,
               trial |-> IF sub # None /\ sub.status = "trialing" /\ Editable
                         THEN sub.end ELSE None,
               created |-> now, moved |-> FALSE, source |-> FALSE,
               token |-> None, held |-> FALSE, checkout |-> FALSE]]
  /\ UNCHANGED <<workspace, sub, books, episode, worker, outside>>

(* What the owner confirms is what was quoted, nothing has moved, and no   *)
(* other change is under way (the index billing_one_operation).            *)
Confirmable(i) ==
  /\ Asked(i) /\ lifecycle = "ready" /\ ~ intent[i].moved /\ ~ intent[i].source
  /\ intent[i].status \in Open \cup {"quoted"} /\ ~ InProgress({i})
  /\ intent[i].kind = "plan_downgrade" => intent[i].changes = Removals

(* The members a decrease demotes leave no more editors than seats.        *)
Fits(i, demote) ==
  /\ \A m \in demote : member[m] \in {"editor", "invited"}
  /\ Allocated - Cardinality(demote) <= intent[i].seats

TeamEnded == sub.status = "ended" /\ Deadline(sub) <= now

Confirm(i, demote) ==
  /\ Confirmable(i)
  /\ LET r == intent[i]
         decrease == r.kind = "seat_change" /\ r.seats < sub.seats
     IN  /\ IF decrease THEN Fits(i, demote) ELSE demote = {}
         /\ intent' = [intent EXCEPT ![i].confirmed = TRUE, ![i].held = FALSE,
              ![i].changes = IF decrease THEN demote ELSE @,
              ![i].status = IF Reduces(r.kind, r.seats, r.from) THEN "scheduled" ELSE "requested",
              ![i].phase = IF r.kind # "plan_downgrade" THEN "other"
                           ELSE IF TeamEnded THEN "checkout_ready" ELSE "awaiting_team_end"]
  /\ UNCHANGED <<workspace, sub, books, episode, worker, outside>>

(* The checkout of the plan that follows an ended team.                    *)
CheckoutAfterTeam(i) ==
  /\ Confirmable(i) /\ intent[i].kind = "plan_downgrade" /\ intent[i].confirmed /\ TeamEnded
  /\ intent' = [intent EXCEPT ![i].status = "requested", ![i].phase = "other",
                              ![i].held = FALSE]
  /\ UNCHANGED <<workspace, sub, books, episode, worker, outside>>

(* A quote of an intent in progress pins what it depends on again, and     *)
(* takes its confirmation back.                                            *)
Refresh(i) ==
  /\ Asked(i) /\ lifecycle = "ready"
  /\ LET r == intent[i]
     IN  /\ r.status \in Open /\ r.kind \notin {"cancel", "resume"}
         /\ Permitted(r.kind, r.plan, r.seats, TRUE) /\ ~ InProgress({i})
         /\ intent' = [intent EXCEPT ![i].moved = FALSE, ![i].source = FALSE,
              ![i].snapshot = member, ![i].confirmed = FALSE, ![i].phase = "other",
              ![i].changes = IF r.kind = "plan_downgrade" THEN Removals ELSE @]
  /\ UNCHANGED <<workspace, sub, books, episode, worker, outside>>

OwnerRequest(i) ==
  \/ \E action \in {"quote", "checkout", "cancel", "resume"},
        p \in {"cloud", "team"}, n \in 1..MaxSeats : Request(i, action, p, n)
  \/ \E demote \in SUBSET Members : Confirm(i, demote)
  \/ CheckoutAfterTeam(i) \/ Refresh(i)

-----------------------------------------------------------------------------
(* The subscriptions at the provider.                                      *)

Latest(u) == IF u.money > u.mod THEN u.money ELSE u.mod
Changed(u) == [u EXCEPT !.mod = Latest(u) + 1]
Charged(u) == [u EXCEPT !.money = Latest(u) + 1]
Pending(i) == [state |-> "pending", plan |-> intent[i].plan, seats |-> intent[i].seats,
               next |-> intent[i].seats, end |-> 0, failed |-> None, cancel |-> FALSE,
               mod |-> 0, money |-> 0, charged |-> {}]
Alive(s) == upstream[s] # None /\ Latest(upstream[s]) < MaxVersion
Supplies(s, u) ==
  /\ upstream' = [upstream EXCEPT ![s] = u]
  /\ UNCHANGED <<workspace, sub, intent, books, episode, worker, time, provider, heard>>

(* The customer goes through the checkout, or the fixture delivers that.   *)
Payable(i) ==
  /\ Asked(i) /\ intent[i].kind \notin {"cancel", "resume"}
  /\ IF provider = "polar" THEN intent[i].checkout /\ upstream[i] = None
     ELSE Alive(i) /\ upstream[i].state = "pending"
Ends(i) == {now + Period}
           \cup (IF intent[i].from = None THEN {} ELSE {e \in {intent[i].from.end} : e > now})
Pays(i) ==
  /\ Payable(i)
  /\ \/ \E e \in Ends(i) :
          Supplies(i, [Changed(Pending(i)) EXCEPT
                         !.state = "active", !.end = e, !.money = 1, !.charged = {e}])
     \/ /\ intent[i].kind = "checkout"
        /\ Supplies(i, [Changed(Pending(i)) EXCEPT !.state = "trialing", !.end = now + Trial])

Running(s) == Alive(s) /\ upstream[s].state \in {"active", "trialing"}
Over(s) == now >= upstream[s].end
Renews(s) ==
  /\ Alive(s) /\ upstream[s].state \in {"active", "trialing", "renewal_failed"}
  /\ Over(s) /\ ~ upstream[s].cancel
  /\ Supplies(s, [Changed(upstream[s]) EXCEPT
       !.state = "active", !.end = now + Period, !.seats = upstream[s].next,
       !.failed = None])
(* The order of the new period is paid after the subscription has moved on.*)
Charges(s) ==
  /\ Alive(s) /\ upstream[s].state = "active" /\ upstream[s].end \notin upstream[s].charged
  /\ Supplies(s, [Charged(upstream[s]) EXCEPT !.charged = @ \cup {upstream[s].end}])
RenewalFails(s) ==
  /\ Running(s) /\ Over(s) /\ ~ upstream[s].cancel
  /\ Supplies(s, [Changed(upstream[s]) EXCEPT !.state = "renewal_failed", !.failed = now])
Stops(s) ==
  /\ Alive(s)
  /\ \/ Running(s) /\ Over(s) /\ upstream[s].cancel
     \/ upstream[s].state = "renewal_failed"
  /\ Supplies(s, [Changed(upstream[s]) EXCEPT !.state = "ended"])
(* In the provider's own portal a customer cancels and thinks better of it.*)
Flips(s) == /\ Running(s)
            /\ Supplies(s, [Changed(upstream[s]) EXCEPT !.cancel = ~ @])
Refunds(s) == /\ Alive(s) /\ upstream[s].charged # {}
              /\ Supplies(s, Charged(upstream[s]))

ProviderStep == \E s \in Intents : \/ Pays(s) \/ Renews(s) \/ Charges(s) \/ RenewalFails(s) \/ Stops(s)
                                   \/ Flips(s) \/ Refunds(s)

(* A webhook, however late and often, only tells of the subscription and   *)
(* makes its intents due.                                                  *)
Webhook(s) ==
  /\ provider = "polar" /\ upstream[s] # None
  /\ heard' = heard \cup {s}
  /\ UNCHANGED <<workspace, sub, intent, books, episode, worker, time, provider, upstream>>

-----------------------------------------------------------------------------
(* The worker reads.                                                       *)

Leasable(i) == Asked(i) /\ intent[i].status \in Open \cup {"applied"} /\ ~ intent[i].held
Lease(w, i) ==
  /\ worker[w] = None /\ Leasable(i)
  /\ intent' = [intent EXCEPT ![i].token = w, ![i].held = TRUE]
  /\ worker' = [worker EXCEPT ![w] = [intent |-> i, of |-> None, read |-> None, money |-> FALSE]]
  /\ UNCHANGED <<workspace, sub, books, episode, outside>>

(* A pass that fails or dies leaves its lease, which runs out.             *)
Gone(w) == worker' = [worker EXCEPT ![w] = None]
LeaseEnds(i) ==
  /\ Asked(i) /\ intent[i].held
  /\ intent' = [intent EXCEPT ![i].token = None, ![i].held = FALSE]
  /\ UNCHANGED <<workspace, sub, books, episode, worker, outside>>
Abandon(w) ==
  /\ worker[w] # None /\ Gone(w)
  /\ UNCHANGED <<workspace, sub, intent, books, episode, outside>>

Started(w) == worker[w] # None /\ worker[w].of = None
Reads(w, s, u) == worker' = [worker EXCEPT ![w].of = s, ![w].read = u]

(* The fixture opens an operation for the intent, and a change of the      *)
(* cancellation reaches the operation it is about.                         *)
Cancels(r) == r.kind \in {"cancel", "resume"}
              \/ (r.kind = "plan_downgrade" /\ r.phase = "awaiting_team_end")
ObserveLocal(w) ==
  /\ provider = "local" /\ Started(w)
  /\ LET i == worker[w].intent
         r == intent[i]
         made == IF upstream[i] # None THEN upstream ELSE [upstream EXCEPT ![i] = Pending(i)]
         told == IF upstream[i] = None /\ Cancels(r) /\ contract[r.from.sid] # None
                 THEN [made EXCEPT ![r.from.sid] = [Changed(@) EXCEPT !.cancel = r.kind # "resume"]]
                 ELSE made
     IN  /\ upstream' = told
         /\ worker' = [worker EXCEPT ![w].of = i, ![w].read = told[i], ![w].money = TRUE]
  /\ UNCHANGED <<workspace, sub, intent, books, episode, time, provider, heard>>

(* The subscription an intent is about, as far as is known here.           *)
SubscriptionOf(i) ==
  IF i \in heard \/ contract[i] # None THEN i
  ELSE IF intent[i].from = None THEN None ELSE intent[i].from.sid

(* What is asked of the provider, once requested.                          *)
Mutates(r) == /\ r.status = "requested"
              /\ \/ r.kind \in {"cancel", "resume", "seat_change"}
                 \/ r.kind = "plan_downgrade" /\ r.phase # "checkout_ready"
Mutated(r, u) ==
  CASE r.kind = "resume" -> [u EXCEPT !.cancel = FALSE]
    [] r.kind = "seat_change" /\ r.seats < r.from.seats -> [u EXCEPT !.next = r.seats]
    [] r.kind = "seat_change" /\ r.seats >= r.from.seats ->
         [u EXCEPT !.seats = r.seats, !.next = r.seats]
    [] OTHER -> [u EXCEPT !.cancel = TRUE]
Patched(r) == LET u == upstream[r.from.sid]
                  m == Mutated(r, u)
              IN  IF m = u THEN u ELSE Changed(m)

(* The answer must be about the plan and the seats asked for.              *)
Matches(r, u) == u.plan = r.plan /\ u.seats = r.seats
Observes(w, s, u) ==
  LET r == intent[worker[w].intent]
  IN  IF Matches(r, u) THEN Reads(w, s, u) ELSE Gone(w)

Mutate(w) ==
  LET r == intent[worker[w].intent]
      s == r.from.sid
  IN  /\ Mutates(r)
      /\ upstream' = [upstream EXCEPT ![s] = Patched(r)]
      /\ Observes(w, s, Patched(r))
Retrieve(w) ==
  LET i == worker[w].intent
      r == intent[i]
      s == SubscriptionOf(i)
      replaces == /\ r.kind = "plan_upgrade" /\ s # None /\ r.from.sid # s
                  /\ upstream[s].state = "active" /\ ~ upstream[r.from.sid].cancel
  IN  /\ ~ Mutates(r) /\ s # None
      /\ upstream' = IF replaces
                     THEN [upstream EXCEPT ![r.from.sid] = [Changed(@) EXCEPT !.cancel = TRUE]]
                     ELSE upstream
      /\ Observes(w, s, upstream[s])
OpenCheckout(w) ==
  LET i == worker[w].intent
  IN  /\ ~ Mutates(intent[i]) /\ SubscriptionOf(i) = None
      /\ Reads(w, i, None) /\ UNCHANGED upstream

ObservePolar(w) ==
  /\ provider = "polar" /\ Started(w)
  /\ Mutate(w) \/ Retrieve(w) \/ OpenCheckout(w)
  /\ UNCHANGED <<workspace, sub, intent, books, episode, time, provider, heard>>

(* Orders and refunds are read after the subscription.                     *)
ReadMoney(w) ==
  /\ worker[w] # None /\ worker[w].read # None /\ ~ worker[w].money
  /\ LET u == upstream[worker[w].of]
     IN  worker' = [worker EXCEPT ![w].money = TRUE, ![w].read.money = u.money,
                                  ![w].read.charged = u.charged]
  /\ UNCHANGED <<workspace, sub, intent, books, episode, outside>>

Observe(w) == ObserveLocal(w) \/ ObservePolar(w)

-----------------------------------------------------------------------------
(* The worker applies.                                                     *)

Owns(w) == worker[w] # None /\ intent[worker[w].intent].token = w
Released(i) == [intent EXCEPT ![i].token = None, ![i].held = FALSE]

(* A checkout that was opened is where the customer pays.                  *)
RecordCheckout(w) ==
  /\ Owns(w) /\ worker[w].of # None /\ worker[w].read = None
  /\ intent[worker[w].intent].kind = "checkout"
  /\ intent' = [Released(worker[w].intent) EXCEPT ![worker[w].intent].checkout = TRUE,
                  ![worker[w].intent].status = "awaiting_provider",
                  ![worker[w].intent].phase = "other"]
  /\ Gone(w)
  /\ UNCHANGED <<workspace, sub, books, episode, outside>>

(* The fixture's answer is compared with its state once more.              *)
Answered(w) ==
  /\ Owns(w) /\ worker[w].read # None /\ worker[w].money
  /\ provider = "local" => worker[w].read = upstream[worker[w].of]

FirstTrial == sub = None /\ \A s \in Intents :
                contract[s] # None => contract[s].state \notin {"trialing", "active"}
Ours(s) == sub # None /\ sub.sid = s

TrialEligible(r, s, u) ==
  /\ u.end > now
  /\ IF r.trial # None THEN u.end = r.trial
     ELSE (FirstTrial \/ Ours(s)) /\ u.end <= r.created + Trial

(* An order that covers what is claimed, and claims that do not go back.   *)
ClaimedOnly(r, s, u) == u.end > now
PaidFor(r, s, u) ==
  /\ u.end > now /\ u.end \in orders[s] \cup u.charged
  /\ Ours(s) /\ sub.paid => u.end >= sub.end
  /\ (/\ r.kind = "seat_change" \/ (r.kind = "plan_upgrade" /\ provider = "local")
      /\ r.seats >= r.from.seats /\ r.trial = None /\ r.status # "applied") => u.end = r.from.end

(* A decrease whose time has come and under which nothing has changed.     *)
Matured(r) ==
  /\ r.kind = "seat_change" /\ r.seats < r.from.seats /\ r.effective <= now
  /\ sub.status \in {"active", "ended"} /\ sub.paid /\ sub.grace = None
  /\ \A f \in {"sid", "seats", "plan", "end"} : sub[f] = r.from[f]
  /\ r.snapshot = member
StillConfirmedEver(r, u) == r.confirmed
StillConfirmed(r, u) ==
  /\ r.confirmed /\ (~ (r.moved \/ r.source) \/ Matured(r))
  /\ r.kind = "plan_downgrade" => TeamEnded /\ r.changes = Removals /\ u.state = "active"

(* Grace counts from the first failure that was seen.                      *)
FailedAt(u) == IF sub.grace # None THEN sub.grace - Grace ELSE u.failed

(* The order in which an answer about intent i is judged.                  *)
Verdict(i, s, u) ==
  LET r == intent[i]
      stored == contract[s]
  IN  IF stored # None /\ stored.version > Latest(u) THEN "older"
      ELSE IF lifecycle # "ready" THEN "review"
      ELSE IF r.status = "applied" /\ ~ Ours(s) THEN "nothing"
      ELSE IF r.status = "applied" /\ stored # None /\ stored.version = Latest(u) THEN "nothing"
      ELSE IF r.kind \in {"cancel", "resume"} THEN
        IF provider = "polar" /\ u.cancel # (r.kind = "cancel") THEN "refused"
        ELSE IF ~ Ours(r.from.sid) \/ (r.source /\ sub.cancel # (r.kind = "cancel")) THEN "failed"
        ELSE "cancellation"
      ELSE IF r.kind = "plan_downgrade" /\ r.status = "scheduled" /\ r.phase = "awaiting_team_end" THEN
        IF provider = "polar" /\ ~ u.cancel THEN "refused"
        ELSE IF Ours(r.from.sid) /\ ~ sub.cancel THEN "team_ends" ELSE "nothing"
      ELSE IF u.state = "pending" THEN "unpaid"
      ELSE IF r.status # "applied" /\ ~ StillConfirmed(r, u) THEN "unconfirmed"
      ELSE IF u.state \in {"trialing", "active"} THEN
        IF ~ (IF u.state = "active" THEN PaidFor(r, s, u) ELSE TrialEligible(r, s, u)) THEN "refused"
        ELSE IF /\ Reduces(r.kind, r.seats, r.from) /\ r.kind = "seat_change" /\ r.status # "applied"
                /\ r.effective > now \/ u.state # "active" THEN "nothing"
        ELSE "effective"
      ELSE IF ~ Ours(s) THEN "nothing"
      ELSE IF u.state = "renewal_failed" /\ sub.paid THEN
        IF FailedAt(u) < sub.end THEN "refused" ELSE "grace"
      ELSE "over"

(* The members a confirmed change takes away.                              *)
Reviewed(r) ==
  [m \in Members |->
     IF r.status = "applied" \/ m \notin r.changes THEN member[m]
     ELSE IF r.kind = "plan_downgrade" \/ member[m] = "invited" THEN "none" ELSE "viewer"]

Subscription(r, s, u) ==
  [sid |-> s, plan |-> r.plan, status |-> u.state, seats |-> r.seats, end |-> u.end,
   paid |-> u.state = "active", grace |-> None, cancel |-> u.cancel]
Canceled(date) == [d \in DOMAIN episode |->
  IF episode[d] = "retaining" /\ d # date THEN "canceled" ELSE episode[d]]

(* One answer, applied: the lease is given back, what the provider said    *)
(* and was paid is stored, whatever follows from it.                       *)
Judged(w, verdicts) ==
  /\ Answered(w) /\ Verdict(worker[w].intent, worker[w].of, worker[w].read) \in verdicts
  /\ Gone(w) /\ UNCHANGED <<lifecycle, outside>>
Stores(w) ==
  LET s == worker[w].of
      u == worker[w].read
  IN  /\ contract' = [contract EXCEPT ![s] = [version |-> Latest(u), state |-> u.state]]
      /\ orders' = [orders EXCEPT ![s] = @ \cup u.charged]

ApplyOlder(w) ==
  /\ Judged(w, {"older"}) /\ intent' = Released(worker[w].intent)
  /\ UNCHANGED <<plan, member, sub, books, episode>>

Noted(r, verdict) ==
  CASE verdict = "unpaid" /\ r.status = "requested" ->
         [r EXCEPT !.status = "awaiting_provider", !.phase = "other"]
    [] verdict = "failed" -> [r EXCEPT !.status = "failed", !.phase = "other"]
    [] verdict \in {"review", "unconfirmed"} -> [r EXCEPT !.phase = "other"]
    [] OTHER -> r
ApplyWithoutEffect(w) ==
  LET i == worker[w].intent
  IN  /\ Judged(w, {"nothing", "review", "unpaid", "unconfirmed", "failed"}) /\ Stores(w)
      /\ intent' = [Released(i) EXCEPT
           ![i] = Noted(@, Verdict(i, worker[w].of, worker[w].read))]
      /\ UNCHANGED <<plan, member, sub, episode>>

ApplyCancellation(w) ==
  LET i == worker[w].intent
      applies == intent[i].kind \in {"cancel", "resume"}
  IN  /\ Judged(w, {"cancellation", "team_ends"}) /\ Stores(w)
      /\ sub' = [sub EXCEPT !.cancel = intent[i].kind # "resume"]
      /\ intent' = Moved(IF applies THEN [Released(i) EXCEPT ![i].status = "applied", ![i].phase = "other"]
                         ELSE Released(i), TRUE)
      /\ UNCHANGED <<plan, member, episode>>

ApplyGrace(w) ==
  LET i == worker[w].intent
      ends == FailedAt(worker[w].read) + Grace
      new == sub.grace = None \/ sub.status # "grace_period"
  IN  /\ Judged(w, {"grace"}) /\ Stores(w)
      /\ episode' = Canceled(ends)
      /\ sub' = IF new THEN [sub EXCEPT !.status = "grace_period", !.grace = ends] ELSE sub
      /\ intent' = IF new THEN Moved(Released(i), TRUE) ELSE Released(i)
      /\ UNCHANGED <<plan, member>>

(* What was paid for, and its grace, outlive the subscription.             *)
LapsesAtOnce == sub.status # "ended"
Lapses == sub.status # "ended" /\ Deadline(sub) <= now

ApplyOver(w) ==
  LET i == worker[w].intent
  IN  /\ Judged(w, {"over"}) /\ Stores(w)
      /\ sub' = IF Lapses THEN [sub EXCEPT !.status = "ended"] ELSE sub
      /\ intent' = IF Lapses THEN Moved(Released(i), TRUE) ELSE Released(i)
      /\ UNCHANGED <<plan, member, episode>>

ApplyEffective(w) ==
  LET i == worker[w].intent
      r == intent[i]
  IN  /\ Judged(w, {"effective"}) /\ Stores(w)
      /\ member' = Reviewed(r) /\ plan' = r.plan
      /\ sub' = Subscription(r, worker[w].of, worker[w].read)
      /\ intent' = Moved([Released(i) EXCEPT ![i].status = "applied", ![i].phase = "other"], TRUE)
      /\ episode' = Canceled(None)

Apply(w) == \/ RecordCheckout(w) \/ ApplyOlder(w) \/ ApplyWithoutEffect(w)
            \/ ApplyCancellation(w) \/ ApplyGrace(w) \/ ApplyOver(w) \/ ApplyEffective(w)

-----------------------------------------------------------------------------
(* Retention.  It follows a pass that had nothing to apply, or applied it. *)

(* Mutant: the purge is due when access ends.                              *)
PurgeDueAtOnce(date) == date <= now
PurgeDue(date) == date + Retention <= now

Maintain ==
  /\ lifecycle = "ready" /\ sub # None /\ Deadline(sub) <= now /\ ~ Editable
  /\ LET date == Deadline(sub)
         kept == [Canceled(date) EXCEPT ![date] = IF @ = "none" THEN "retaining" ELSE @]
         due == kept[date] = "retaining" /\ PurgeDue(date)
     IN  /\ sub' = [sub EXCEPT !.status = "ended"]
         /\ episode' = IF due THEN [kept EXCEPT ![date] = "purging"] ELSE kept
         /\ lifecycle' = IF due THEN "purging" ELSE lifecycle
         /\ intent' = IF due \/ sub' # sub THEN Moved(intent, sub' # sub) ELSE intent
  /\ UNCHANGED <<plan, member, books, worker, outside>>

(* The files and boards are gone first: see Storage.                       *)
Purge ==
  /\ lifecycle = "purging"
  /\ lifecycle' = "deleted"
  /\ episode' = [d \in DOMAIN episode |-> IF episode[d] = "purging" THEN "purged" ELSE episode[d]]
  /\ intent' = Moved(intent, FALSE)
  /\ UNCHANGED <<plan, member, sub, books, worker, outside>>

RunOne(w) == (\E i \in Intents : Lease(w, i)) \/ Observe(w) \/ ReadMoney(w) \/ Apply(w) \/ Abandon(w)

-----------------------------------------------------------------------------
(* What others do: the members (see Membership), and the clock.            *)

MemberChanges(m, r) ==
  /\ lifecycle = "ready" /\ r # member[m]
  /\ r \in {"invited", "editor"} =>
       Editable /\ plan = "team" /\ (member[m] = "invited" \/ Allocated < sub.seats)
  /\ member' = [member EXCEPT ![m] = r]
  /\ intent' = Moved(intent, FALSE)
  /\ UNCHANGED <<lifecycle, plan, sub, books, episode, worker, outside>>

Tick ==
  /\ now < MaxTime /\ now' = now + 1
  /\ open' = IF Editable THEN now ELSE open
  /\ UNCHANGED <<workspace, sub, intent, books, episode, worker, provider, upstream, heard>>

-----------------------------------------------------------------------------
Init ==
  /\ now = 0 /\ provider \in Providers
  /\ lifecycle = "ready" /\ plan \in {"cloud", "team"}
  /\ member = [m \in Members |-> "none"]
  /\ sub = None /\ intent = [i \in Intents |-> None]
  /\ contract = [s \in Intents |-> None] /\ orders = [s \in Intents |-> {}]
  /\ episode = [d \in 0..MaxTime |-> "none"]
  /\ worker = [w \in Workers |-> None]
  /\ upstream = [s \in Intents |-> None] /\ heard = {}
  /\ open = 0

Owner == \E i \in Intents : OwnerRequest(i)
Provider == ProviderStep \/ \E s \in Intents : Webhook(s)
WorkerStep == (\E w \in Workers : RunOne(w)) \/ \E i \in Intents : LeaseEnds(i)
Team == \E m \in Members, r \in {"none", "invited", "viewer", "editor"} : MemberChanges(m, r)
Next == Owner \/ Provider \/ WorkerStep \/ Maintain \/ Purge \/ Team \/ Tick

Spec == Init /\ [][Next]_vars

(* The process keeps running its passes; a lease that is not given back    *)
(* runs out.                                                               *)
Fairness ==
  /\ \A i \in Intents : WF_vars(LeaseEnds(i)) /\ \A w \in Workers : SF_vars(Lease(w, i))
  /\ \A w \in Workers : WF_vars(Observe(w) \/ ReadMoney(w) \/ Apply(w) \/ (~ Owns(w) /\ Abandon(w)))

-----------------------------------------------------------------------------
(* Paid access was paid for: an active subscription ends at the end of a   *)
(* period an order covers (apply_polar_billing: payment evidence).         *)
AccessIsPaid ==
  sub # None /\ sub.status = "active" => sub.end \in orders[sub.sid]

(* While the time that was bought runs, nothing takes the editing it pays  *)
(* for away: no answer of the provider, however late or often repeated, no *)
(* change of plan, no expired trial or grace, no maintenance.  This is     *)
(* about time and plan.  Seats are another matter: they may come to be     *)
(* fewer than the editors (see DecreasesFit), and then nobody edits.       *)
EditingEndsOnTime ==
  [][Editable /\ now' = now /\ 1 + Cardinality(Editors') <= sub'.seats => Editable']_vars

(* A request takes effect on the members its owner reviewed, however many  *)
(* of them changed since the quote; and what a customer pays for opens the *)
(* workspace: a first plan, a new one or another plan fits the members it  *)
(* meets.  A change of seats need not fit them (see DecreasesFit).         *)
PaymentOpensWorkspace ==
  [][\A i \in Intents :
       Asked(i) /\ intent[i].kind \notin {"cancel", "resume"}
       /\ intent[i].status # "applied" /\ intent'[i].status = "applied" =>
         /\ intent[i].snapshot = member
         /\ intent[i].kind # "seat_change" => Editable']_vars

(* "Decreases remain pending until the paid period ends and the reviewed   *)
(* member plan still matches" (000013_billing_lifecycle.up.sql:161): where *)
(* the seats are those of a decrease that was applied, the editors fit.    *)
DecreasesFit ==
  \A i \in Intents :
    Asked(i) /\ intent[i].kind = "seat_change" /\ intent[i].status = "applied"
    /\ intent[i].seats < intent[i].from.seats /\ sub.sid = i /\ sub.seats = intent[i].seats
      => 1 + Cardinality(Editors) <= sub.seats

(* A workspace is only purged when nobody could edit it for as long as it  *)
(* is retained (billing_maintenance).                                      *)
PurgeAfterRetention ==
  [][lifecycle = "ready" /\ lifecycle' = "purging" => now > open + Retention]_vars

(* What has to be paid at a checkout gets one (docs/polar-billing.md).     *)
CheckoutsOpen ==
  \A i \in Intents :
    (Asked(i) /\ intent[i].kind \in {"checkout", "plan_upgrade"} /\ intent[i].status = "requested")
      ~> ((Asked(i) /\ intent[i].status # "requested") \/ lifecycle # "ready")
=============================================================================
