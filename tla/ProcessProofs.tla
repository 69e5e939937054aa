---------------------------- MODULE ProcessProofs ----------------------------
(***************************************************************************)
(* Proofs about Process, for any connections, people and configurations:   *)
(* what main holds is given back only when nobody uses it any more, and    *)
(* one person never works under two profiles.                              *)
(***************************************************************************)
EXTENDS Process, SequenceTheorems, TLAPS

-----------------------------------------------------------------------------
(* The order in which main acquires things.                                *)

Steps == Pools \cup Workers \cup Doors \cup {"authority"}

(* What must be acquired before a step.                                    *)
Needs(step) ==
  CASE step \in Workers -> {PoolOf[step]}
    [] step = "collaboration" -> {"authority", "request_pool", "identity_pool"}
    [] OTHER -> {}

(* In a sequence every step finds what it needs before it, or among what   *)
(* was there already.                                                      *)
Grounded(s, there) ==
  \A i \in 1..Len(s) : Needs(s[i]) \subseteq there \cup {s[j] : j \in 1..(i - 1)}

(* A sequence holds what stands at its places.                             *)
LEMMA Places ==
  ASSUME NEW S, NEW s \in Seq(S)
  PROVE  ToSet(s) = {s[i] : i \in 1..Len(s)} /\ Len(s) \in Nat
  BY LenProperties DEF ToSet

(* Two sequences one after the other.                                      *)
LEMMA Together ==
  ASSUME NEW S, NEW s \in Seq(S), NEW t \in Seq(S)
  PROVE  /\ s \o t \in Seq(S)
         /\ ToSet(s \o t) = ToSet(s) \cup ToSet(t)
<1> DEFINE st == s \o t
           n == Len(s)
           m == Len(t)
<1>1. /\ st \in Seq(S) /\ Len(st) = n + m
      /\ \A i \in 1..(n + m) : st[i] = IF i <= n THEN s[i] ELSE t[i - n]
  BY ConcatProperties
<1>2. n \in Nat /\ m \in Nat
  BY LenProperties
<1> HIDE DEF st
<1>3. /\ ToSet(st) = {st[i] : i \in 1..(n + m)} /\ ToSet(s) = {s[i] : i \in 1..n}
      /\ ToSet(t) = {t[i] : i \in 1..m}
  BY <1>1, Places
<1>4. ASSUME NEW x \in ToSet(st) PROVE x \in ToSet(s) \cup ToSet(t)
  <2>1. PICK i \in 1..(n + m) : x = st[i]
    BY <1>3
  <2>2. CASE i <= n
    <3>1. i \in 1..n
      BY <1>2, <2>2
    <3>2. x = s[i]
      BY <1>1, <2>1, <2>2
    <3> QED
      BY <1>3, <3>1, <3>2
  <2>3. CASE ~ (i <= n)
    <3>1. i - n \in 1..m
      BY <1>2, <2>3
    <3> QED
      BY <1>1, <1>3, <2>1, <2>3, <3>1
  <2> QED
    BY <2>2, <2>3
<1>5. ASSUME NEW x \in ToSet(s) PROVE x \in ToSet(st)
  <2>1. PICK i \in 1..n : x = s[i]
    BY <1>3
  <2>2. i \in 1..(n + m) /\ i <= n
    BY <1>2
  <2> QED
    BY <1>1, <1>3, <2>1, <2>2
<1>6. ASSUME NEW x \in ToSet(t) PROVE x \in ToSet(st)
  <2>1. PICK i \in 1..m : x = t[i]
    BY <1>3
  <2>2. i + n \in 1..(n + m) /\ ~ (i + n <= n) /\ (i + n) - n = i
    BY <1>2
  <2>3. st[i + n] = x
    BY <1>1, <2>1, <2>2
  <2> QED
    BY <1>3, <2>2, <2>3
<1> QED
  BY <1>1, <1>4, <1>5, <1>6 DEF st

(* What comes second may need what comes first.                            *)
LEMMA GroundedTogether ==
  ASSUME NEW S, NEW s \in Seq(S), NEW t \in Seq(S), NEW there,
         Grounded(s, there), Grounded(t, there \cup ToSet(s))
  PROVE  Grounded(s \o t, there)
<1> DEFINE st == s \o t
           n == Len(s)
           m == Len(t)
<1>1. /\ st \in Seq(S) /\ Len(st) = n + m
      /\ \A i \in 1..(n + m) : st[i] = IF i <= n THEN s[i] ELSE t[i - n]
  BY ConcatProperties
<1>2. n \in Nat /\ m \in Nat /\ ToSet(s) = {s[i] : i \in 1..n}
  BY Places
<1> HIDE DEF st
<1>3. ASSUME NEW i \in 1..(n + m), NEW x \in Needs(st[i]), x \notin there
      PROVE  \E j \in 1..(i - 1) : x = st[j]
  <2>1. CASE i <= n
    <3>1. i \in 1..n /\ st[i] = s[i]
      BY <1>1, <1>2, <2>1
    <3>2. x \in {s[j] : j \in 1..(i - 1)}
      BY <1>3, <3>1 DEF Grounded
    <3>3. PICK j \in 1..(i - 1) : x = s[j]
      BY <3>2
    <3>4. j \in 1..(n + m) /\ j <= n
      BY <1>2, <3>1
    <3> QED
      BY <1>1, <3>3, <3>4
  <2>2. CASE ~ (i <= n)
    <3>1. i - n \in 1..m /\ st[i] = t[i - n]
      BY <1>1, <1>2, <2>2
    <3>2. x \in ToSet(s) \/ x \in {t[j] : j \in 1..((i - n) - 1)}
      BY <1>3, <3>1 DEF Grounded
    <3>3. CASE x \in ToSet(s)
      <4>1. PICK j \in 1..n : x = s[j]
        BY <1>2, <3>3
      <4>2. j \in 1..(n + m) /\ j <= n /\ j \in 1..(i - 1)
        BY <1>2, <2>2
      <4> QED
        BY <1>1, <4>1, <4>2
    <3>4. CASE x \in {t[j] : j \in 1..((i - n) - 1)}
      <4>1. PICK j \in 1..((i - n) - 1) : x = t[j]
        BY <3>4
      <4>2. j + n \in 1..(n + m) /\ ~ (j + n <= n) /\ j + n \in 1..(i - 1) /\ (j + n) - n = j
        BY <1>2, <3>1
      <4>3. st[j + n] = x
        BY <1>1, <4>1, <4>2
      <4> QED
        BY <4>2, <4>3
    <3> QED
      BY <3>2, <3>3, <3>4
  <2> QED
    BY <2>1, <2>2
<1>4. Grounded(st, there)
  BY <1>1, <1>3 DEF Grounded
<1> QED
  BY <1>4 DEF st

(* A sequence of one, of none, and of those that a feature switches on.    *)
LEMMA GroundedOne ==
  ASSUME NEW x \in Steps, NEW there, Needs(x) \subseteq there
  PROVE  <<x>> \in Seq(Steps) /\ ToSet(<<x>>) = {x} /\ Grounded(<<x>>, there)
<1>1. <<x>> \in Seq(Steps) /\ Len(<<x>>) = 1 /\ <<x>>[1] = x
  OBVIOUS
<1>2. ToSet(<<x>>) = {x}
  <2>1. ToSet(<<x>>) = {<<x>>[i] : i \in 1..1}
    BY <1>1, Places
  <2> QED
    BY <1>1, <2>1
<1>3. \A i \in 1..Len(<<x>>) : Needs(<<x>>[i]) \subseteq there
  BY <1>1
<1> QED
  BY <1>1, <1>2, <1>3 DEF Grounded

(* Nothing needs nothing.                                                  *)
LEMMA GroundedNone ==
  ASSUME NEW there
  PROVE  <<>> \in Seq(Steps) /\ ToSet(<<>>) = {} /\ Grounded(<<>>, there)
<1>1. <<>> \in Seq(Steps) /\ Len(<<>>) = 0
  BY EmptySeq
<1>2. ToSet(<<>>) = {<<>>[i] : i \in 1..0}
  BY <1>1, Places
<1> QED
  BY <1>1, <1>2 DEF Grounded

(* A feature adds its steps or none.                                       *)
LEMMA GroundedWhen ==
  ASSUME NEW s \in Seq(Steps), NEW there, Grounded(s, there), NEW feature
  PROVE  /\ When(feature, s) \in Seq(Steps) /\ ToSet(When(feature, s)) \subseteq ToSet(s)
         /\ feature \in enabled => When(feature, s) = s
         /\ Grounded(When(feature, s), there)
  BY GroundedNone DEF When

(* The more is there, the more is grounded.                                *)
LEMMA GroundedMore ==
  ASSUME NEW s, NEW there, NEW more, there \subseteq more, Grounded(s, there)
  PROVE  Grounded(s, more)
  BY DEF Grounded

(* One part after the other, over what is there by then.                   *)
LEMMA Chain ==
  ASSUME NEW s \in Seq(Steps), NEW t \in Seq(Steps), NEW there, NEW after,
         after = there \cup ToSet(s), Grounded(s, there), Grounded(t, after)
  PROVE  /\ s \o t \in Seq(Steps) /\ ToSet(s \o t) = ToSet(s) \cup ToSet(t)
         /\ Grounded(s \o t, there)
  BY Together, GroundedTogether

(* What each step needs.                                                   *)
LEMMA WhatStepsNeed ==
  /\ \A x \in Pools \cup {"relay", "authority"} : x \in Steps /\ Needs(x) = {}
  /\ Workers \subseteq Steps /\ "collaboration" \in Steps
  /\ Needs("asset_worker") = {"cleanup_pool"} /\ Needs("cleanup_worker") = {"cleanup_pool"}
  /\ Needs("billing_worker") = {"billing_pool"} /\ Needs("transfer_worker") = {"transfer_pool"}
  /\ Needs("collaboration") = {"authority", "request_pool", "identity_pool"}
  BY DEF Steps, Needs, Pools, Workers, Doors, PoolOf

(* The part of the cleanup: the pool, and the workers after it.            *)
LEMMA CleanupGrounded ==
  ASSUME NEW there
  PROVE  CleanupPart \in Seq(Steps) /\ Grounded(CleanupPart, there)
<1> DEFINE a == <<"cleanup_pool">>
           b == When("asset", <<"asset_worker">>)
           c == <<"cleanup_worker">>
<1>1. a \in Seq(Steps) /\ ToSet(a) = {"cleanup_pool"} /\ Grounded(a, there)
  BY WhatStepsNeed, GroundedOne DEF Pools
<1>2. b \in Seq(Steps) /\ Grounded(b, there \cup {"cleanup_pool"})
  BY WhatStepsNeed, GroundedOne, GroundedWhen DEF Workers
<1>3. c \in Seq(Steps) /\ Grounded(c, there \cup {"cleanup_pool"} \cup ToSet(b))
  BY WhatStepsNeed, GroundedOne DEF Workers
<1>4. CleanupPart = (a \o b) \o c
  BY DEF CleanupPart
<1> HIDE DEF a, b, c
<1>5. a \o b \in Seq(Steps) /\ ToSet(a \o b) = {"cleanup_pool"} \cup ToSet(b) /\ Grounded(a \o b, there)
  <2>1. there \cup {"cleanup_pool"} = there \cup ToSet(a)
    BY <1>1
  <2>2. /\ a \o b \in Seq(Steps) /\ ToSet(a \o b) = ToSet(a) \cup ToSet(b)
        /\ Grounded(a \o b, there)
    BY <1>1, <1>2, <2>1, Chain
  <2> QED
    BY <1>1, <2>2
<1>6. there \cup {"cleanup_pool"} \cup ToSet(b) = there \cup ToSet(a \o b)
  BY <1>5
<1>7. (a \o b) \o c \in Seq(Steps) /\ Grounded((a \o b) \o c, there)
  BY <1>3, <1>5, <1>6, Chain
<1> QED
  BY <1>4, <1>7

(* Two steps are one and then another.                                     *)
LEMMA Pair ==
  ASSUME NEW x, NEW y
  PROVE  <<x, y>> = <<x>> \o <<y>>
<1> DEFINE S == {x, y}
           both == <<x>> \o <<y>>
<1>1. <<x, y>> \in Seq(S) /\ <<x>> \in Seq(S) /\ <<y>> \in Seq(S)
  OBVIOUS
<1>2. /\ both \in Seq(S) /\ Len(both) = Len(<<x>>) + Len(<<y>>)
      /\ \A i \in 1..(Len(<<x>>) + Len(<<y>>)) :
           both[i] = IF i <= Len(<<x>>) THEN <<x>>[i] ELSE <<y>>[i - Len(<<x>>)]
  BY <1>1, ConcatProperties
<1> HIDE DEF both, S
<1>3. Len(both) = 2 /\ both[1] = x /\ both[2] = y
  <2>1. Len(<<x>>) = 1 /\ Len(<<y>>) = 1 /\ <<x>>[1] = x /\ <<y>>[1] = y
    OBVIOUS
  <2> QED
    BY <1>2, <2>1
<1>4. Len(<<x, y>>) = 2 /\ <<x, y>>[1] = x /\ <<x, y>>[2] = y
  OBVIOUS
<1>5. \A i \in 1..Len(<<x, y>>) : <<x, y>>[i] = both[i]
  BY <1>3, <1>4
<1>6. <<x, y>> = both
  BY <1>1, <1>2, <1>3, <1>4, <1>5, SeqEqual
<1> QED
  BY <1>6 DEF both

(* A pool and the worker that uses it.                                     *)
LEMMA PairGrounded ==
  ASSUME NEW there, NEW p \in Pools, NEW w \in Workers, Needs(w) = {p}
  PROVE  <<p, w>> \in Seq(Steps) /\ Grounded(<<p, w>>, there)
<1>1. p \in Steps /\ w \in Steps /\ Needs(p) = {}
  BY WhatStepsNeed
<1>2. /\ <<p>> \in Seq(Steps) /\ ToSet(<<p>>) = {p} /\ Grounded(<<p>>, there)
      /\ <<w>> \in Seq(Steps) /\ Grounded(<<w>>, there \cup {p})
  BY <1>1, GroundedOne
<1>3. <<p, w>> = <<p>> \o <<w>>
  BY Pair, Zenon
<1>4. there \cup {p} = there \cup ToSet(<<p>>)
  BY <1>2
<1>5. <<p>> \o <<w>> \in Seq(Steps) /\ Grounded(<<p>> \o <<w>>, there)
  BY <1>2, <1>4, Chain, Zenon
<1> QED
  BY <1>3, <1>5, Zenon

(* The authority and the sockets that write under it.                      *)
LEMMA CollaborationGrounded ==
  ASSUME NEW there, "request_pool" \in there, "identity_pool" \in there
  PROVE  CollaborationPart \in Seq(Steps) /\ Grounded(CollaborationPart, there)
<1>1. /\ <<"authority">> \in Seq(Steps) /\ ToSet(<<"authority">>) = {"authority"}
      /\ Grounded(<<"authority">>, there)
  BY WhatStepsNeed, GroundedOne
<1>2. /\ <<"collaboration">> \in Seq(Steps)
      /\ Grounded(<<"collaboration">>, there \cup {"authority"})
  <2>1. Needs("collaboration") \subseteq there \cup {"authority"}
    BY WhatStepsNeed
  <2> QED
    BY <2>1, WhatStepsNeed, GroundedOne
<1>3. CollaborationPart = <<"authority">> \o <<"collaboration">>
  BY Pair, Zenon DEF CollaborationPart
<1>4. there \cup {"authority"} = there \cup ToSet(<<"authority">>)
  BY <1>1
<1> QED
  BY <1>1, <1>2, <1>3, <1>4, Chain, Zenon

(* What needs a workspace: the request pool first.                         *)
WorkspacePart ==
  <<"request_pool">> \o When("board",
    When("cleanup", CleanupPart) \o When("collaboration", CollaborationPart)
      \o When("billing", BillingPart) \o When("transfer", TransferPart))

(* All of it, once there is an identity pool.                              *)
LEMMA WorkspaceGrounded ==
  ASSUME NEW there, "identity_pool" \in there
  PROVE  /\ WorkspacePart \in Seq(Steps) /\ "request_pool" \in ToSet(WorkspacePart)
         /\ Grounded(WorkspacePart, there)
<1> DEFINE r == <<"request_pool">>
           a == When("cleanup", CleanupPart)
           b == When("collaboration", CollaborationPart)
           c == When("billing", BillingPart)
           d == When("transfer", TransferPart)
           base == there \cup {"request_pool"}
           boards == When("board", a \o b \o c \o d)
<1>1. r \in Seq(Steps) /\ ToSet(r) = {"request_pool"} /\ Grounded(r, there)
  BY WhatStepsNeed, GroundedOne DEF Pools
<1>2. a \in Seq(Steps) /\ Grounded(a, base)
  BY CleanupGrounded, GroundedWhen
<1>3. b \in Seq(Steps) /\ Grounded(b, base)
  <2>1. "request_pool" \in base /\ "identity_pool" \in base
    OBVIOUS
  <2>2. CollaborationPart \in Seq(Steps) /\ Grounded(CollaborationPart, base)
    BY <2>1, CollaborationGrounded, Zenon
  <2> QED
    BY <2>2, GroundedWhen, Zenon
<1>4. c \in Seq(Steps) /\ Grounded(c, base)
  <2>1. BillingPart \in Seq(Steps) /\ Grounded(BillingPart, base)
    BY WhatStepsNeed, PairGrounded DEF BillingPart, Pools, Workers
  <2> QED
    BY <2>1, GroundedWhen
<1>5. d \in Seq(Steps) /\ Grounded(d, base)
  <2>1. TransferPart \in Seq(Steps) /\ Grounded(TransferPart, base)
    BY WhatStepsNeed, PairGrounded DEF TransferPart, Pools, Workers
  <2> QED
    BY <2>1, GroundedWhen
<1> HIDE DEF a, b, c, d, r, base
<1>6. ASSUME NEW s \in Seq(Steps), NEW t \in Seq(Steps), Grounded(s, base), Grounded(t, base)
      PROVE  s \o t \in Seq(Steps) /\ Grounded(s \o t, base)
  <2>1. Grounded(t, base \cup ToSet(s))
    <3>1. base \subseteq base \cup ToSet(s)
      OBVIOUS
    <3> QED
      BY <1>6, <3>1, GroundedMore
  <2> QED
    BY <1>6, <2>1, Together, GroundedTogether, Zenon
<1>7. a \o b \o c \o d \in Seq(Steps) /\ Grounded(a \o b \o c \o d, base)
  BY <1>2, <1>3, <1>4, <1>5, <1>6
<1>8. boards \in Seq(Steps) /\ Grounded(boards, base)
  BY <1>7, GroundedWhen, Zenon
<1>9. WorkspacePart = r \o boards
  BY DEF WorkspacePart, a, b, c, d, r
<1> HIDE DEF boards
<1>10. base = there \cup ToSet(r)
  BY <1>1 DEF base
<1>11. /\ r \o boards \in Seq(Steps) /\ ToSet(r \o boards) = ToSet(r) \cup ToSet(boards)
       /\ Grounded(r \o boards, there)
  BY <1>1, <1>8, <1>10, Chain
<1> QED
  BY <1>1, <1>9, <1>11

(* The plan of any configuration: every worker after its pool, the sockets *)
(* after the authority and the pools they call, and the pools that sign in *)
(* and open transactions whenever the configuration has them.              *)
LEMMA PlanGrounded ==
  /\ Plan \in Seq(Steps) /\ Grounded(Plan, {})
  /\ "identity" \in enabled => "identity_pool" \in ToSet(Plan)
  /\ "identity" \in enabled /\ "workspace" \in enabled => "request_pool" \in ToSet(Plan)
<1> DEFINE a == IdentityPart
           w == When("workspace", WorkspacePart)
<1>1. a \in Seq(Steps) /\ "identity_pool" \in ToSet(a) /\ Grounded(a, {})
  <2> DEFINE p == <<"identity_pool">>
             l == When("local", <<"relay">>)
  <2>1. p \in Seq(Steps) /\ ToSet(p) = {"identity_pool"} /\ Grounded(p, {})
    BY WhatStepsNeed, GroundedOne DEF Pools
  <2>2. l \in Seq(Steps) /\ Grounded(l, {"identity_pool"})
    BY WhatStepsNeed, GroundedOne, GroundedWhen
  <2>3. a = p \o l
    BY DEF IdentityPart
  <2> HIDE DEF p, l
  <2>4. {"identity_pool"} = {} \cup ToSet(p)
    BY <2>1
  <2>5. /\ p \o l \in Seq(Steps) /\ ToSet(p \o l) = ToSet(p) \cup ToSet(l)
        /\ Grounded(p \o l, {})
    BY <2>1, <2>2, <2>4, Chain
  <2> QED
    BY <2>1, <2>3, <2>5
<1>2. /\ w \in Seq(Steps) /\ Grounded(w, ToSet(a))
      /\ "workspace" \in enabled => "request_pool" \in ToSet(w)
  BY <1>1, WorkspaceGrounded, GroundedWhen
<1>3. Plan = When("identity", a \o w)
  BY DEF Plan, WorkspacePart
<1> HIDE DEF a, w
<1>4. a \o w \in Seq(Steps) /\ ToSet(a \o w) = ToSet(a) \cup ToSet(w) /\ Grounded(a \o w, {})
  <2>1. ToSet(a) = {} \cup ToSet(a)
    OBVIOUS
  <2> QED
    BY <1>1, <1>2, <2>1, Chain
<1> QED
  BY <1>1, <1>2, <1>3, <1>4, GroundedWhen

(* What is held of a plan finds what it needs among what is held: what     *)
(* main has acquired is a beginning of the plan.                           *)
LEMMA BeginningGrounded ==
  ASSUME NEW s \in Seq(Steps), NEW p \in Seq(Steps), Len(s) <= Len(p),
         \A i \in 1..Len(s) : s[i] = p[i], Grounded(p, {})
  PROVE  \A x \in ToSet(s) : Needs(x) \subseteq ToSet(s)
<1>1. /\ ToSet(s) = {s[i] : i \in 1..Len(s)} /\ Len(s) \in Nat /\ Len(p) \in Nat
  BY Places
<1>2. ASSUME NEW x \in ToSet(s), NEW y \in Needs(x) PROVE y \in ToSet(s)
  <2>1. PICK i \in 1..Len(s) : x = s[i]
    BY <1>1
  <2>2. i \in 1..Len(p) /\ x = p[i]
    BY <1>1, <2>1
  <2>3. PICK j \in 1..(i - 1) : y = p[j]
    BY <1>2, <2>2 DEF Grounded
  <2>4. j \in 1..Len(s) /\ s[j] = p[j]
    BY <1>1
  <2> QED
    BY <1>1, <2>3, <2>4
<1> QED
  BY <1>2

(* A beginning as long as the plan holds all of it.                        *)
LEMMA WholePlan ==
  ASSUME NEW s \in Seq(Steps), NEW p \in Seq(Steps), Len(s) = Len(p),
         \A i \in 1..Len(s) : s[i] = p[i]
  PROVE  ToSet(s) = ToSet(p)
<1>1. s = p
  BY SeqEqual
<1> QED
  BY <1>1

(* One more of the plan.                                                   *)
LEMMA OneMore ==
  ASSUME NEW s \in Seq(Steps), NEW p \in Seq(Steps), Len(s) < Len(p),
         \A i \in 1..Len(s) : s[i] = p[i],
         NEW t, t = Append(s, p[Len(s) + 1])
  PROVE  /\ p[Len(s) + 1] \in Steps
         /\ t \in Seq(Steps) /\ Len(t) <= Len(p)
         /\ \A i \in 1..Len(t) : t[i] = p[i]
         /\ ToSet(t) = ToSet(s) \cup {p[Len(s) + 1]}
<1> DEFINE n == Len(s)
           x == p[n + 1]
<1>1. n \in Nat /\ Len(p) \in Nat
  BY LenProperties
<1>2. n + 1 \in 1..Len(p)
  BY <1>1
<1>3. x \in Steps
  BY <1>2, ElementOfSeq
<1> HIDE DEF x
<1>4. /\ Append(s, x) \in Seq(Steps) /\ Len(Append(s, x)) = n + 1
      /\ \A i \in 1..n : Append(s, x)[i] = s[i]
      /\ Append(s, x)[n + 1] = x
  BY <1>3, AppendProperties
<1>5. t = Append(s, x)
  BY DEF x
<1>6. /\ t \in Seq(Steps) /\ Len(t) = n + 1
      /\ (\A i \in 1..n : t[i] = s[i]) /\ t[n + 1] = x
  BY <1>4, <1>5
<1>7. \A i \in 1..(n + 1) : i \in 1..n \/ i = n + 1
  BY <1>1
<1>8. \A i \in 1..Len(t) : t[i] = p[i]
  BY <1>6, <1>7 DEF x
<1>9. ToSet(t) = {t[i] : i \in 1..(n + 1)} /\ ToSet(s) = {s[i] : i \in 1..n}
  <2>1. ToSet(t) = {t[i] : i \in DOMAIN t} /\ ToSet(s) = {s[i] : i \in DOMAIN s}
    BY DEF ToSet
  <2>2. DOMAIN t = 1..(n + 1) /\ DOMAIN s = 1..n
    BY <1>6, LenProperties
  <2> QED
    BY <2>1, <2>2
<1>10. 1..n \subseteq 1..(n + 1) /\ n + 1 \in 1..(n + 1)
  BY <1>1
<1>11. ToSet(t) = ToSet(s) \cup {x}
  BY <1>6, <1>7, <1>9, <1>10
<1>12. n + 1 <= Len(p)
  BY <1>1
<1> QED
  BY <1>3, <1>6, <1>8, <1>11, <1>12 DEF x

(* The first k of a sequence.                                              *)
LEMMA Cut ==
  ASSUME NEW s, NEW k \in Nat, \A i \in 1..k : s[i] \in Steps
  PROVE  /\ SubSeq(s, 1, k) \in Seq(Steps) /\ Len(SubSeq(s, 1, k)) = k
         /\ \A i \in 1..k : SubSeq(s, 1, k)[i] = s[i]
  OBVIOUS

(* One less.                                                               *)
LEMMA OneLess ==
  ASSUME NEW s \in Seq(Steps), s # <<>>, NEW t, t = Front(s)
  PROVE  /\ t \in Seq(Steps) /\ Len(t) = Len(s) - 1 /\ Len(s) \in Nat
         /\ \A i \in 1..Len(t) : t[i] = s[i]
         /\ Last(s) \in ToSet(s)
         /\ ToSet(s) = ToSet(t) \cup {Last(s)}
<1> DEFINE n == Len(s)
<1>1. n \in Nat /\ n # 0
  BY LenProperties, EmptySeq
<1>2. /\ t = SubSeq(s, 1, n - 1) /\ Last(s) = s[n]
  BY DEF Front, Last
<1>3. n - 1 \in Nat /\ \A i \in 1..(n - 1) : s[i] \in Steps
  BY <1>1, ElementOfSeq
<1>4. /\ t \in Seq(Steps) /\ Len(t) = n - 1
      /\ \A i \in 1..(n - 1) : t[i] = s[i]
  BY <1>2, <1>3, Cut
<1>5. ToSet(t) = {t[i] : i \in 1..(n - 1)} /\ ToSet(s) = {s[i] : i \in 1..n}
  BY <1>4, Places
<1>6. /\ \A i \in 1..n : i \in 1..(n - 1) \/ i = n
      /\ 1..(n - 1) \subseteq 1..n /\ n \in 1..n
  BY <1>1
<1>7. ToSet(s) = ToSet(t) \cup {s[n]}
  BY <1>4, <1>5, <1>6
<1>8. s[n] \in ToSet(s)
  BY <1>5, <1>6
<1> QED
  BY <1>1, <1>2, <1>4, <1>7, <1>8

-----------------------------------------------------------------------------
(* The invariant.                                                          *)

Serving == {"listening", "running", "serving", "unready", "draining"}
Ending  == {"stopping", "exited"}
Stations == {"away", "open", "gone", "asked", "checking", "upgraded", "live", "ending",
            "resolving", "reading", "transaction"}
Ids     == Connections \X Subjects

(* main has acquired a beginning of its plan, all of it once it serves,    *)
(* and listens only then.                                                  *)
MainInv ==
  /\ phase \in {"configuring", "starting"} \cup Serving \cup Ending
  /\ deferred \in Seq(Steps)
  /\ Len(deferred) <= Len(Plan)
  /\ \A i \in 1..Len(deferred) : deferred[i] = Plan[i]
  /\ phase \in Serving => Len(deferred) = Len(Plan)
  /\ listening => phase \in Serving \ {"draining"}

(* A worker that runs is still held.                                       *)
WorkersInv ==
  /\ worker \in [Workers -> {"off", "waiting", "pass", "over"}]
  /\ \A w \in Workers : worker[w] \in {"waiting", "pass"} => w \in Held

(* A connection came while main was serving, and is in its handler only    *)
(* while main serves, or has given up waiting for it.                      *)
ClientsInv ==
  /\ conn \in [Connections -> [at : Stations, door : Doors \cup {None},
                               subject : Subjects \cup {None}, actor : Ids \cup {None}]]
  /\ \A c \in Connections :
       /\ conn[c].at # "away" => phase \in Serving \cup Ending
       /\ phase \in Ending /\ Counted(c) => expired

(* A socket came through a door of this configuration, which is held until *)
(* it has ended; a door is held until it was told to stop.                 *)
SocketsInv ==
  /\ (\E c \in Connections : conn[c].at \notin {"away", "gone"}) =>
       SocketRoutes \subseteq Held \cup told
  /\ \A c \in Connections :
       /\ conn[c].at \in {"upgraded", "live", "ending"} => conn[c].door \in SocketRoutes
       /\ conn[c].at \in {"live", "ending"} => conn[c].door \in Held

(* Whoever is signed in has the profile of its subject, which stays.       *)
ProfilesInv ==
  /\ profile \in [Subjects -> Ids \cup {None}]
  /\ \A c \in Connections :
       /\ conn[c].at \in {"resolving", "reading", "transaction"} =>
            "identity" \in enabled /\ conn[c].subject \in Subjects
       /\ conn[c].at \in {"reading", "transaction"} => profile[conn[c].subject] # None
       /\ conn[c].at = "transaction" =>
            "workspace" \in enabled /\ conn[c].actor = profile[conn[c].subject]

ProcessInv == MainInv /\ WorkersInv /\ ClientsInv /\ SocketsInv /\ ProfilesInv

(* The inductive invariant gives both properties.                          *)

(* What is held has what it needs.                                         *)
LEMMA HeldGrounded ==
  ASSUME MainInv
  PROVE  \A x \in Held : Needs(x) \subseteq Held
  BY PlanGrounded, BeginningGrounded DEF MainInv, Held

(* All of the plan is held while main serves.                              *)
LEMMA AllHeld ==
  ASSUME MainInv, phase \in Serving
  PROVE  Held = ToSet(Plan)
  BY PlanGrounded, WholePlan DEF MainInv, Held

(* Everything a user needs is held as long as it runs.                     *)
LEMMA InvOutlives ==
  ASSUME MainInv, WorkersInv, ClientsInv, SocketsInv, ProfilesInv
  PROVE  PoolsOutliveUsers
<1>1. ASSUME NEW w \in Workers, worker[w] \in {"waiting", "pass"}
      PROVE  {w, PoolOf[w]} \subseteq Held
  <2>1. w \in Held
    BY <1>1 DEF WorkersInv
  <2>2. Needs(w) = {PoolOf[w]}
    BY DEF Needs, Workers
  <2> QED
    BY <2>1, <2>2, HeldGrounded
<1>2. ASSUME NEW c \in Connections PROVE Uses(c) \subseteq Held \/ (expired /\ Counted(c))
  <2>1. CASE conn[c].at \in {"live", "ending"}
    <3>1. conn[c].door \in Held
      BY <2>1 DEF SocketsInv
    <3>2. conn[c].door = "collaboration" =>
            {"authority", "request_pool", "identity_pool"} \subseteq Held
      BY <3>1, WhatStepsNeed, HeldGrounded, Zenon
    <3>3. Uses(c) = {conn[c].door} \cup (IF conn[c].door = "collaboration"
                              THEN {"authority", "request_pool", "identity_pool"} ELSE {})
      BY <2>1 DEF Uses
    <3> QED
      BY <3>1, <3>2, <3>3
  <2>2. CASE Counted(c)
    <3>1. conn[c].at # "away" /\ conn[c].at \notin {"live", "ending"}
      BY <2>2 DEF Counted
    <3>2. phase \in Serving \cup Ending
      BY <3>1 DEF ClientsInv
    <3>3. CASE phase \in Ending
      BY <2>2, <3>3 DEF ClientsInv
    <3>4. CASE phase \in Serving
      <4>1. Held = ToSet(Plan)
        BY <3>4, AllHeld
      <4>2. CASE conn[c].at \in {"resolving", "reading"}
        <5>1. "identity" \in enabled
          BY <4>2 DEF ProfilesInv
        <5>2. Uses(c) = {"identity_pool"}
          BY <4>2 DEF Uses
        <5> QED
          BY <4>1, <5>1, <5>2, PlanGrounded
      <4>3. CASE conn[c].at = "transaction"
        <5>1. "identity" \in enabled /\ "workspace" \in enabled
          BY <4>3 DEF ProfilesInv
        <5>2. Uses(c) = {"request_pool"}
          BY <4>3 DEF Uses
        <5> QED
          BY <4>1, <5>1, <5>2, PlanGrounded
      <4>4. CASE conn[c].at = "checking"
        <5>1. Uses(c) = ToSet(Plan) \cap (Pools \cup {"authority"})
          BY <4>4 DEF Uses
        <5> QED
          BY <4>1, <5>1
      <4>5. CASE conn[c].at \in {"open", "asked"}
        <5>1. Uses(c) = {}
          BY <4>5 DEF Uses
        <5> QED
          BY <5>1
      <4> QED
        BY <2>2, <4>2, <4>3, <4>4, <4>5 DEF Counted
    <3> QED
      BY <3>2, <3>3, <3>4
  <2>3. CASE conn[c].at \in {"away", "gone", "upgraded"}
    <3>1. Uses(c) = {}
      BY <2>3 DEF Uses
    <3> QED
      BY <3>1
  <2>4. conn[c].at \in Stations
    BY DEF ClientsInv
  <2> QED
    BY <2>1, <2>2, <2>3, <2>4 DEF Stations, Counted
<1> QED
  BY <1>1, <1>2 DEF PoolsOutliveUsers

(* Two transactions of one subject read the same profile.                  *)
LEMMA InvOneProfile ==
  ASSUME ProfilesInv
  PROVE  OneProfilePerSubject
  BY DEF ProfilesInv, OneProfilePerSubject, At

-----------------------------------------------------------------------------
(* The initial states.                                                     *)

LEMMA InitInv ==
  ASSUME Init
  PROVE  ProcessInv
<1>1. MainInv
  <2>1. deferred \in Seq(Steps) /\ Len(deferred) = 0
    BY EmptySeq DEF Init
  <2>2. Len(Plan) \in Nat
    BY PlanGrounded, LenProperties
  <2> QED
    BY <2>1, <2>2 DEF Init, MainInv, Serving
<1>2. WorkersInv
  BY DEF Init, WorkersInv
<1>3. /\ conn \in [Connections -> [at : Stations, door : Doors \cup {None},
                                   subject : Subjects \cup {None}, actor : Ids \cup {None}]]
      /\ \A c \in Connections : conn[c].at = "away"
  BY DEF Init, Stations
<1>4. ClientsInv
  BY <1>3 DEF ClientsInv, Init, Ending
<1>5. SocketsInv
  BY <1>3 DEF SocketsInv
<1>6. ProfilesInv
  BY <1>3 DEF ProfilesInv, Init, Ids
<1> QED
  BY <1>1, <1>2, <1>4, <1>5, <1>6 DEF ProcessInv

-----------------------------------------------------------------------------
(* main.                                                                   *)

(* The configuration, and with it the plan, stays.                         *)
LEMMA SamePlan ==
  ASSUME enabled' = enabled
  PROVE  Plan' = Plan /\ SocketRoutes' = SocketRoutes
<1>1. Plan' = Plan
  BY DEF Plan, When, IdentityPart, CleanupPart, CollaborationPart, BillingPart, TransferPart
<1> QED
  BY <1>1 DEF SocketRoutes

(* What main is in the middle of decides what it has acquired.             *)
LEMMA MainKept ==
  ASSUME MainInv, UNCHANGED mainVars
  PROVE  MainInv'
<1>1. Plan' = Plan
  BY SamePlan DEF mainVars
<1> QED
  BY <1>1 DEF MainInv, mainVars

(* Steps of main, and of the listener, keep main's part.                   *)
LEMMA MainStep ==
  ASSUME MainInv, Main \/ ListenerFails
  PROVE  MainInv'
<1>1. enabled' = enabled
  BY DEF Main, Configure, Acquire, OpenFails, CheckFails, RunReturns, Listen, MarkRunning,
         MarkAccepting, EndServing, CloseListener, Drain, Tell, Release, CloseAuthority, Exit,
         ListenerFails
<1>2. Plan' = Plan
  BY <1>1, SamePlan
<1>3. Len(deferred) \in Nat /\ Len(Plan) \in Nat /\ Plan \in Seq(Steps)
  BY PlanGrounded, LenProperties DEF MainInv
<1> HIDE DEF Plan
<1>4. CASE Acquire \/ CheckFails
  <2>1. /\ Len(deferred) < Len(Plan) /\ phase = "starting"
        /\ deferred' = Append(deferred, Plan[Len(deferred) + 1])
        /\ phase' \in {"starting", "stopping"} /\ listening' = listening
    BY <1>4 DEF Acquire, CheckFails, Unfinished, NextStep, Goto
  <2>2. /\ deferred' \in Seq(Steps) /\ Len(deferred') <= Len(Plan)
        /\ \A i \in 1..Len(deferred') : deferred'[i] = Plan[i]
    BY <1>3, <2>1, OneMore DEF MainInv
  <2> QED
    BY <1>2, <2>1, <2>2 DEF MainInv, Serving, Ending
<1>5. CASE Release \/ CloseAuthority
  <2>1. /\ deferred # <<>> /\ deferred' = Front(deferred) /\ phase = "stopping"
        /\ UNCHANGED <<phase, listening>>
    BY <1>5 DEF Release, CloseAuthority
  <2>2. /\ deferred' \in Seq(Steps) /\ Len(deferred') = Len(deferred) - 1
        /\ \A i \in 1..Len(deferred') : deferred'[i] = deferred[i]
    BY <2>1, OneLess DEF MainInv
  <2>3. Len(deferred') <= Len(Plan) /\ \A i \in 1..Len(deferred') : i \in 1..Len(deferred)
    BY <1>3, <2>2 DEF MainInv
  <2> QED
    BY <1>2, <2>1, <2>2, <2>3 DEF MainInv, Serving, Ending
<1>6. CASE \/ Configure \/ OpenFails \/ RunReturns \/ Listen \/ MarkRunning \/ MarkAccepting
           \/ EndServing \/ CloseListener \/ Drain \/ Tell \/ Exit \/ ListenerFails
  <2>1. deferred' = deferred
    BY <1>6 DEF Configure, OpenFails, RunReturns, Listen, MarkRunning, MarkAccepting, EndServing,
                CloseListener, Drain, Tell, Exit, ListenerFails
  <2>2. /\ phase' \in {"configuring", "starting"} \cup Serving \cup Ending
        /\ phase' \in Serving => Len(deferred) = Len(Plan)
        /\ listening' => phase' \in Serving \ {"draining"}
    BY <1>6 DEF Configure, OpenFails, RunReturns, Listen, MarkRunning, MarkAccepting, EndServing,
                CloseListener, Drain, Tell, Exit, ListenerFails, Goto, Unfinished, Built, MainInv,
                Serving, Ending
  <2> QED
    BY <1>2, <2>1, <2>2 DEF MainInv
<1> QED
  BY <1>4, <1>5, <1>6 DEF Main

(* What stays held: all, but for the last acquired when it is given back.  *)
LEMMA HeldAfter ==
  ASSUME MainInv, Main \/ ListenerFails
  PROVE  \/ Held \subseteq Held'
         \/ /\ Release \/ CloseAuthority
            /\ Held \subseteq Held' \cup {Last(deferred)}
<1>1. CASE Acquire \/ CheckFails
  <2>1. /\ Len(deferred) < Len(Plan)
        /\ deferred' = Append(deferred, Plan[Len(deferred) + 1])
    BY <1>1 DEF Acquire, CheckFails, Unfinished, NextStep
  <2>2. ToSet(deferred') = ToSet(deferred) \cup {Plan[Len(deferred) + 1]}
    BY <2>1, PlanGrounded, OneMore DEF MainInv
  <2> QED
    BY <2>2 DEF Held
<1>2. CASE Release \/ CloseAuthority
  <2>1. deferred # <<>> /\ deferred' = Front(deferred)
    BY <1>2 DEF Release, CloseAuthority
  <2>2. ToSet(deferred) = ToSet(deferred') \cup {Last(deferred)}
    BY <2>1, OneLess DEF MainInv
  <2> QED
    BY <1>2, <2>2 DEF Held
<1>3. CASE \/ Configure \/ OpenFails \/ RunReturns \/ Listen \/ MarkRunning \/ MarkAccepting
           \/ EndServing \/ CloseListener \/ Drain \/ Tell \/ Exit \/ ListenerFails
  <2>1. deferred' = deferred
    BY <1>3 DEF Configure, OpenFails, RunReturns, Listen, MarkRunning, MarkAccepting, EndServing,
                CloseListener, Drain, Tell, Exit, ListenerFails
  <2> QED
    BY <2>1 DEF Held
<1> QED
  BY <1>1, <1>2, <1>3 DEF Main

(* A worker starts when main has deferred its end, and is released over.   *)
LEMMA MainWorkers ==
  ASSUME MainInv, WorkersInv, Main \/ ListenerFails
  PROVE  WorkersInv'
<1>1. CASE Acquire
  <2>1. /\ Len(deferred) < Len(Plan)
        /\ deferred' = Append(deferred, Plan[Len(deferred) + 1])
        /\ worker' = IF Plan[Len(deferred) + 1] \in Workers
                     THEN [worker EXCEPT ![Plan[Len(deferred) + 1]] = "waiting"] ELSE worker
    BY <1>1 DEF Acquire, Unfinished, NextStep
  <2>2. ToSet(deferred') = ToSet(deferred) \cup {Plan[Len(deferred) + 1]}
    BY <2>1, PlanGrounded, OneMore DEF MainInv
  <2> QED
    BY <2>1, <2>2 DEF WorkersInv, Held
<1>2. CASE ~ Acquire
  <2>1. worker' = worker
    BY <1>2 DEF Main, Configure, OpenFails, CheckFails, RunReturns, Listen, MarkRunning,
           MarkAccepting, EndServing, CloseListener, Drain, Tell, Release, CloseAuthority, Exit,
           ListenerFails
  <2>2. CASE Held \subseteq Held'
    BY <2>1, <2>2 DEF WorkersInv
  <2>3. CASE (Release \/ CloseAuthority) /\ Held \subseteq Held' \cup {Last(deferred)}
    <3>1. \A w \in Workers : w = Last(deferred) => worker[w] = "over"
      BY <2>3 DEF Release, CloseAuthority, Finished, Workers
    <3> QED
      BY <2>1, <2>3, <3>1 DEF WorkersInv
  <2> QED
    BY <2>2, <2>3, HeldAfter
<1> QED
  BY <1>1, <1>2

(* Only Tell and Exit reach for connections.                               *)
LEMMA MainConns ==
  ASSUME Main \/ ListenerFails
  PROVE  Tell \/ Exit \/ conn' = conn
  BY DEF Main, Configure, Acquire, OpenFails, CheckFails, RunReturns, Listen, MarkRunning,
         MarkAccepting, EndServing, CloseListener, Drain, Release, CloseAuthority,
         ListenerFails

(* What they do to one: a live socket is told to end, or all are gone.     *)
LEMMA MainConn ==
  ASSUME ClientsInv, Main \/ ListenerFails
  PROVE  /\ conn' \in [Connections -> [at : Stations, door : Doors \cup {None},
                                       subject : Subjects \cup {None}, actor : Ids \cup {None}]]
         /\ \A c \in Connections :
              /\ \/ conn'[c].at = conn[c].at
                 \/ conn[c].at = "live" /\ conn'[c].at = "ending"
                 \/ conn'[c].at = "gone" /\ Exit
              /\ conn'[c].door = conn[c].door /\ conn'[c].subject = conn[c].subject
              /\ conn'[c].actor = conn[c].actor
<1>1. CASE Tell
  BY <1>1 DEF Tell, ClientsInv, Stations
<1>2. CASE Exit
  BY <1>2 DEF Exit, ClientsInv, Stations
<1>3. CASE conn' = conn
  BY <1>3 DEF ClientsInv
<1> QED
  BY <1>1, <1>2, <1>3, MainConns

(* main ends only with nobody counted, or out of patience.                 *)
LEMMA MainClients ==
  ASSUME MainInv, ClientsInv, Main \/ ListenerFails
  PROVE  ClientsInv'
<1>1. /\ phase' \in Serving \cup Ending \/ \A c \in Connections : conn[c].at = "away"
      /\ expired => expired'
      /\ \/ phase' \notin Ending \/ phase \in Ending \/ expired' \/ Exit
         \/ \A c \in Connections : ~ Counted(c)
  <2>1. /\ phase' \in Serving \cup Ending \/ phase \notin Serving \cup Ending
        /\ expired => expired'
        /\ \/ phase' \notin Ending \/ phase \in Ending \/ expired'
           \/ phase \in {"configuring", "starting"}
           \/ \A c \in Connections : ~ Counted(c)
    BY DEF Main, Configure, Acquire, OpenFails, CheckFails, RunReturns, Listen, MarkRunning,
           MarkAccepting, EndServing, CloseListener, Drain, Tell, Release, CloseAuthority, Exit,
           ListenerFails, Serving, Ending, Goto, Unfinished, Built, MainInv
  <2>2. phase \notin Serving \cup Ending => \A c \in Connections : conn[c].at = "away"
    BY DEF ClientsInv
  <2>3. phase \in {"configuring", "starting"} => phase \notin Serving \cup Ending
    BY DEF Serving, Ending
  <2>4. (\A c \in Connections : conn[c].at = "away") => \A c \in Connections : ~ Counted(c)
    BY DEF Counted
  <2> QED
    BY <2>1, <2>2, <2>3, <2>4
<1>2. ASSUME NEW c \in Connections
      PROVE  /\ conn'[c].at # "away" => phase' \in Serving \cup Ending
             /\ phase' \in Ending /\ Counted(c)' => expired'
  <2>1. conn[c].at = "away" /\ ~ Exit => conn'[c].at = "away"
    BY MainConn
  <2>2. Counted(c)' => Counted(c) /\ ~ Exit
    <3>1. Exit => conn'[c].at = "gone"
      BY DEF Exit, ClientsInv
    <3> QED
      BY <3>1, MainConn DEF Counted
  <2>3. Exit => phase' \in Ending
    BY DEF Exit, Goto, Ending
  <2>4. phase \in Ending /\ Counted(c) => expired
    BY DEF ClientsInv
  <2> QED
    BY <1>1, <2>1, <2>2, <2>3, <2>4
<1> QED
  BY <1>2, MainConn DEF ClientsInv

(* A door is given back when it was told and its sockets have ended.       *)
LEMMA MainSockets ==
  ASSUME MainInv, ClientsInv, SocketsInv, Main \/ ListenerFails
  PROVE  SocketsInv'
<1>1. SocketRoutes' = SocketRoutes /\ told \subseteq told'
  <2>1. enabled' = enabled
    BY DEF Main, Configure, Acquire, OpenFails, CheckFails, RunReturns, Listen, MarkRunning,
           MarkAccepting, EndServing, CloseListener, Drain, Tell, Release, CloseAuthority, Exit,
           ListenerFails
  <2>2. told \subseteq told'
    BY DEF Main, Configure, Acquire, OpenFails, CheckFails, RunReturns, Listen, MarkRunning,
           MarkAccepting, EndServing, CloseListener, Drain, Tell, Release, CloseAuthority, Exit,
           ListenerFails
  <2> QED
    BY <2>1, <2>2, SamePlan
<1>2. SocketRoutes \subseteq Doors
  BY DEF SocketRoutes
<1>3. \A d \in Doors : d \in Held =>
        d \in Held' \/ (d \in told /\ \A c \in Connections : conn[c].door = d =>
                                        conn[c].at \notin {"live", "ending"})
  <2>1. CASE Held \subseteq Held'
    BY <2>1
  <2>2. CASE (Release \/ CloseAuthority) /\ Held \subseteq Held' \cup {Last(deferred)}
    <3>1. \A d \in Doors : d = Last(deferred) =>
            d \in told /\ \A c \in Connections : conn[c].door = d =>
                            conn[c].at \notin {"live", "ending"}
      BY <2>2 DEF Release, CloseAuthority, Finished, Doors
    <3> QED
      BY <2>2, <3>1
  <2> QED
    BY <2>1, <2>2, HeldAfter
<1>4. ASSUME NEW c \in Connections, conn'[c].at \notin {"away", "gone"}
      PROVE  SocketRoutes \subseteq Held' \cup told'
  <2>1. conn[c].at \notin {"away", "gone"}
    BY <1>4, MainConn
  <2> QED
    BY <1>1, <1>2, <1>3, <2>1 DEF SocketsInv
<1>5. ASSUME NEW c \in Connections
      PROVE  /\ conn'[c].at \in {"upgraded", "live", "ending"} => conn'[c].door \in SocketRoutes
             /\ conn'[c].at \in {"live", "ending"} => conn'[c].door \in Held'
  <2>1. conn'[c].at \in {"upgraded", "live", "ending"} =>
          conn[c].at \in {"upgraded", "live", "ending"}
    BY MainConn
  <2>2. conn'[c].at \in {"live", "ending"} => conn[c].at \in {"live", "ending"}
    BY MainConn
  <2>3. conn'[c].door = conn[c].door
    BY MainConn
  <2> QED
    BY <1>2, <1>3, <2>1, <2>2, <2>3 DEF SocketsInv
<1> QED
  BY <1>1, <1>4, <1>5 DEF SocketsInv

(* The profiles are none of main's business.                               *)
LEMMA MainProfiles ==
  ASSUME ClientsInv, ProfilesInv, Main \/ ListenerFails
  PROVE  ProfilesInv'
<1>1. enabled' = enabled /\ profile' = profile
  BY DEF Main, Configure, Acquire, OpenFails, CheckFails, RunReturns, Listen, MarkRunning,
         MarkAccepting, EndServing, CloseListener, Drain, Tell, Release, CloseAuthority, Exit,
         ListenerFails
<1>2. ASSUME NEW c \in Connections
      PROVE  /\ conn'[c].at \in {"resolving", "reading", "transaction"} => conn'[c].at = conn[c].at
             /\ conn'[c].subject = conn[c].subject /\ conn'[c].actor = conn[c].actor
  BY MainConn
<1> QED
  BY <1>1, <1>2 DEF ProfilesInv

-----------------------------------------------------------------------------
(* Handlers.                                                               *)

Row == [at : Stations, door : Doors \cup {None}, subject : Subjects \cup {None},
        actor : Ids \cup {None}]

(* What one handler's step does to its connection r, which becomes q: it   *)
(* answers or ends, or begins, or goes from one station to the next.       *)
Moves(r, q) ==
  \/ q.at = "gone" /\ r.at # "away"
  \/ q.at = "open" /\ \/ r.at = "away" /\ listening
                      \/ r.at \in {"asked", "checking", "open", "resolving", "reading",
                                   "transaction"}
  \/ q.at \in {"asked", "checking"} /\ r.at \in {"open", "asked"}
  \/ q.at = "upgraded" /\ r.at = "open" /\ q.door \in SocketRoutes
  \/ q.at = "live" /\ r.at = "upgraded" /\ q.door = r.door /\ r.door \notin told
  \/ q.at = "resolving" /\ r.at = "open" /\ q.subject \in Subjects /\ "identity" \in enabled
  \/ q.at = "reading" /\ r.at = "resolving" /\ q.subject = r.subject
       /\ profile'[r.subject] # None
  \/ q.at = "transaction" /\ r.at = "reading" /\ q.subject = r.subject
       /\ q.actor = profile[r.subject] /\ "workspace" \in enabled

(* Every handler's step is such a move of one connection, and leaves main, *)
(* the workers and every profile there was alone.                          *)
LEMMA HandlerMoves ==
  ASSUME ClientsInv, ProfilesInv, NEW c \in Connections, Handle(c)
  PROVE  /\ UNCHANGED <<mainVars, signalled, worker>>
         /\ \E q \in Row : conn' = [conn EXCEPT ![c] = q] /\ Moves(conn[c], q)
         /\ profile' \in [Subjects -> Ids \cup {None}]
         /\ \A s \in Subjects : profile[s] # None => profile'[s] = profile[s]
<1> DEFINE blank(place) == [at |-> place, door |-> None, subject |-> None, actor |-> None]
           moved(place) == [conn[c] EXCEPT !.at = place]
<1>1. conn[c] \in Row
  BY DEF ClientsInv, Row
<1>2. ASSUME NEW place \in Stations
      PROVE  /\ blank(place) \in Row /\ blank(place).at = place
             /\ moved(place) \in Row /\ moved(place).at = place
             /\ moved(place).door = conn[c].door /\ moved(place).subject = conn[c].subject
             /\ moved(place).actor = conn[c].actor
  BY <1>1 DEF Row
<1>3. ASSUME NEW place, Move(c, place) PROVE conn' = [conn EXCEPT ![c] = moved(place)]
  BY <1>3 DEF Move, ClientsInv
<1>4. ASSUME Answered(c)
      PROVE  \E place \in {"gone", "open"} : conn' = [conn EXCEPT ![c] = blank(place)]
  BY <1>4 DEF Answered
<1>5. profile \in [Subjects -> Ids \cup {None}]
  BY DEF ProfilesInv
<1> HIDE DEF blank, moved
<1>6. ASSUME NEW place \in Stations, NEW q \in Row, q = blank(place) \/ q = moved(place),
             conn' = [conn EXCEPT ![c] = q], Moves(conn[c], q)
      PROVE  \E x \in Row : conn' = [conn EXCEPT ![c] = x] /\ Moves(conn[c], x)
  BY <1>6
<1>7. CASE Answered(c) /\ Rest /\ conn[c].at \in {"asked", "checking", "open", "resolving",
                                                  "reading", "transaction"}
  <2>1. PICK place \in {"gone", "open"} : conn' = [conn EXCEPT ![c] = blank(place)]
    BY <1>4, <1>7
  <2>2. place \in Stations
    BY DEF Stations
  <2>3. blank(place) \in Row /\ blank(place).at = place
    BY <1>2, <2>2
  <2>4. Moves(conn[c], blank(place))
    BY <1>7, <2>3 DEF Moves
  <2> QED
    BY <1>5, <1>7, <2>1, <2>3, <2>4 DEF Rest
<1>8. CASE \/ Accept(c) \/ Hangup(c) \/ LoadRunning(c) \/ (LoadAccepting(c) /\ accepting)
           \/ Register(c) \/ Leave(c) \/ SocketEnds(c)
  <2>1. Rest
    BY <1>8 DEF Accept, Hangup, LoadRunning, LoadAccepting, Register, Leave, SocketEnds
  <2>2. \E place \in {"open", "gone", "asked", "checking", "live"} :
           /\ Move(c, place)
           /\ place = "open" => conn[c].at = "away" /\ listening
           /\ place = "gone" => conn[c].at # "away"
           /\ place = "asked" => conn[c].at = "open"
           /\ place = "checking" => conn[c].at \in {"open", "asked"}
           /\ place = "live" => conn[c].at = "upgraded" /\ conn[c].door \notin told
    BY <1>8 DEF Accept, Hangup, LoadRunning, LoadAccepting, Register, Leave, SocketEnds, At
  <2>3. PICK place \in {"open", "gone", "asked", "checking", "live"} :
           /\ Move(c, place)
           /\ place = "open" => conn[c].at = "away" /\ listening
           /\ place = "gone" => conn[c].at # "away"
           /\ place = "asked" => conn[c].at = "open"
           /\ place = "checking" => conn[c].at \in {"open", "asked"}
           /\ place = "live" => conn[c].at = "upgraded" /\ conn[c].door \notin told
    BY <2>2
  <2>4. place \in Stations
    BY DEF Stations
  <2>5. /\ moved(place) \in Row /\ moved(place).at = place
        /\ moved(place).door = conn[c].door
    BY <1>2, <2>4
  <2>6. Moves(conn[c], moved(place))
    BY <2>3, <2>5 DEF Moves
  <2> QED
    BY <1>3, <1>5, <2>1, <2>3, <2>5, <2>6 DEF Rest
<1>9. CASE Upgrade(c)
  <2>1. PICK d \in SocketRoutes : conn' = [conn EXCEPT ![c].at = "upgraded", ![c].door = d]
    BY <1>9 DEF Upgrade
  <2> DEFINE q == [conn[c] EXCEPT !.at = "upgraded", !.door = d]
  <2>2. d \in Doors
    BY DEF SocketRoutes
  <2>3. q \in Row /\ q.at = "upgraded" /\ q.door = d
    BY <1>1, <2>2 DEF Row, Stations
  <2>4. conn' = [conn EXCEPT ![c] = q]
    BY <2>1 DEF ClientsInv
  <2> HIDE DEF q
  <2>5. Moves(conn[c], q)
    BY <1>9, <2>3 DEF Moves, Upgrade, At
  <2> QED
    BY <1>5, <1>9, <2>3, <2>4, <2>5 DEF Rest, Upgrade
<1>10. CASE Verify(c) /\ ~ Answered(c)
  <2>1. PICK s \in Subjects : conn' = [conn EXCEPT ![c].at = "resolving", ![c].subject = s]
    BY <1>10 DEF Verify
  <2> DEFINE q == [conn[c] EXCEPT !.at = "resolving", !.subject = s]
  <2>2. q \in Row /\ q.at = "resolving" /\ q.subject = s
    BY <1>1 DEF Row, Stations
  <2>3. conn' = [conn EXCEPT ![c] = q]
    BY <2>1 DEF ClientsInv
  <2> HIDE DEF q
  <2>4. Moves(conn[c], q)
    BY <1>10, <2>2 DEF Moves, Verify, At
  <2> QED
    BY <1>5, <1>10, <2>2, <2>3, <2>4 DEF Rest, Verify
<1>11. CASE InsertProfile(c)
  <2>1. conn[c].at = "resolving" /\ conn[c].subject \in Subjects
    BY <1>11 DEF InsertProfile, At, ProfilesInv
  <2>2. PICK s \in Subjects : s = conn[c].subject
    BY <2>1
  <2>3. <<c, s>> \in Ids /\ <<c, s>> # None
    BY ProcessAssumption DEF Ids
  <2>4. profile' = IF profile[s] = None THEN [profile EXCEPT ![s] = <<c, s>>] ELSE profile
    BY <1>11, <2>2 DEF InsertProfile, Candidate
  <2>5. /\ profile' \in [Subjects -> Ids \cup {None}] /\ profile'[s] # None
        /\ \A x \in Subjects : profile[x] # None => profile'[x] = profile[x]
    BY <1>5, <2>3, <2>4
  <2>6. conn' = [conn EXCEPT ![c] = moved("reading")]
    BY <1>3, <1>11 DEF InsertProfile
  <2>7. /\ moved("reading") \in Row /\ moved("reading").at = "reading"
        /\ moved("reading").subject = conn[c].subject
    BY <1>2 DEF Stations
  <2>8. Moves(conn[c], moved("reading"))
    BY <2>1, <2>2, <2>5, <2>7 DEF Moves
  <2> QED
    BY <1>11, <2>5, <2>6, <2>7, <2>8 DEF InsertProfile
<1>12. CASE ReadProfile(c) /\ ~ Answered(c)
  <2>1. conn[c].at = "reading" /\ conn[c].subject \in Subjects
    BY <1>12 DEF ReadProfile, At, ProfilesInv
  <2>2. PICK p \in Ids \cup {None} : p = profile[conn[c].subject]
    BY <1>5, <2>1
  <2>3. /\ "workspace" \in enabled
        /\ conn' = [conn EXCEPT ![c].at = "transaction", ![c].actor = p]
    BY <1>12, <2>2 DEF ReadProfile, SignedIn
  <2> DEFINE q == [conn[c] EXCEPT !.at = "transaction", !.actor = p]
  <2>4. q \in Row /\ q.at = "transaction" /\ q.subject = conn[c].subject /\ q.actor = p
    BY <1>1, <2>2 DEF Row, Stations
  <2>5. conn' = [conn EXCEPT ![c] = q]
    BY <2>3 DEF ClientsInv
  <2> HIDE DEF q
  <2>6. Moves(conn[c], q)
    BY <2>1, <2>2, <2>3, <2>4 DEF Moves
  <2> QED
    BY <1>5, <1>12, <2>4, <2>5, <2>6 DEF Rest, ReadProfile
<1> QED
  BY <1>7, <1>8, <1>9, <1>10, <1>11, <1>12 DEF Handle, LoadAccepting, ChecksEnd, Verify,
     ReadProfile, RequestFails, Commit, At

(* A handler's step keeps every part.                                      *)
LEMMA HandlerStep ==
  ASSUME ProcessInv, NEW c \in Connections, Handle(c)
  PROVE  ProcessInv'
<1>1. MainInv /\ WorkersInv /\ ClientsInv /\ SocketsInv /\ ProfilesInv
  BY DEF ProcessInv
<1>2. /\ UNCHANGED <<mainVars, signalled, worker>>
      /\ profile' \in [Subjects -> Ids \cup {None}]
      /\ \A s \in Subjects : profile[s] # None => profile'[s] = profile[s]
  BY <1>1, HandlerMoves
<1>3. PICK q \in Row : conn' = [conn EXCEPT ![c] = q] /\ Moves(conn[c], q)
  BY <1>1, HandlerMoves
<1>4. /\ conn' \in [Connections -> Row] /\ conn'[c] = q
      /\ \A d \in Connections : d # c => conn'[d] = conn[d]
  <2>1. conn \in [Connections -> Row]
    BY <1>1 DEF ClientsInv, Row
  <2> QED
    BY <1>3, <2>1
<1>5. /\ enabled' = enabled /\ phase' = phase /\ deferred' = deferred /\ told' = told
      /\ listening' = listening /\ expired' = expired /\ Held' = Held /\ worker' = worker
      /\ SocketRoutes' = SocketRoutes
  BY <1>2, SamePlan DEF mainVars, Held
<1>6. MainInv' /\ WorkersInv'
  BY <1>1, <1>2, <1>5, MainKept DEF WorkersInv
<1>7. ClientsInv'
  <2>1. q.at # "away" => phase \in Serving \cup Ending
    BY <1>1, <1>3 DEF Moves, ClientsInv, MainInv
  <2>2. phase \in Ending => ~ listening
    BY <1>1 DEF MainInv, Serving, Ending
  <2>3. phase \in Ending /\ q.at \in {"open", "asked", "checking", "resolving", "reading",
                                      "transaction"} => Counted(c)
    BY <1>3, <2>2 DEF Moves, Counted
  <2>4. \A d \in Connections : d # c => Counted(d)' = Counted(d)
    BY <1>4 DEF Counted
  <2>5. Counted(c)' => q.at \in {"open", "asked", "checking", "resolving", "reading", "transaction"}
    BY <1>4 DEF Counted
  <2>6. ASSUME NEW d \in Connections
        PROVE  /\ conn'[d].at # "away" => phase \in Serving \cup Ending
               /\ phase \in Ending /\ Counted(d)' => expired
    <3>1. CASE d = c
      BY <1>1, <1>4, <2>1, <2>3, <2>5, <3>1 DEF ClientsInv
    <3>2. CASE d # c
      BY <1>1, <1>4, <2>4, <3>2 DEF ClientsInv
    <3> QED
      BY <3>1, <3>2
  <2> QED
    BY <1>4, <1>5, <2>6 DEF ClientsInv, Row
<1>8. SocketsInv'
  <2>1. q.at \notin {"away", "gone"} => SocketRoutes \subseteq Held \cup told
    <3>1. CASE conn[c].at \notin {"away", "gone"}
      BY <1>1, <3>1 DEF SocketsInv
    <3>2. CASE conn[c].at = "away" /\ listening
      <4>1. Held = ToSet(Plan)
        BY <1>1, <3>2, AllHeld DEF MainInv
      <4> QED
        BY <4>1 DEF SocketRoutes
    <3> QED
      BY <1>3, <3>1, <3>2 DEF Moves
  <2>2. /\ q.at \in {"upgraded", "live", "ending"} => q.door \in SocketRoutes
        /\ q.at \in {"live", "ending"} => q.door \in Held
    <3>1. CASE q.at = "upgraded"
      BY <1>3, <3>1 DEF Moves
    <3>2. CASE q.at = "live"
      <4>1. conn[c].at = "upgraded" /\ q.door = conn[c].door /\ conn[c].door \notin told
        BY <1>3, <3>2 DEF Moves
      <4>2. conn[c].door \in SocketRoutes
        BY <1>1, <4>1 DEF SocketsInv
      <4>3. SocketRoutes \subseteq Held \cup told
        BY <2>1, <3>2
      <4> QED
        BY <4>1, <4>2, <4>3
    <3>3. q.at # "ending"
      BY <1>3 DEF Moves
    <3> QED
      BY <3>1, <3>2, <3>3
  <2>3. ASSUME NEW d \in Connections, d # c PROVE conn'[d] = conn[d]
    BY <1>4, <2>3
  <2> QED
    BY <1>1, <1>4, <1>5, <2>1, <2>2, <2>3 DEF SocketsInv
<1>9. ProfilesInv'
  <2>1. /\ q.at \in {"resolving", "reading", "transaction"} =>
             "identity" \in enabled /\ q.subject \in Subjects
        /\ q.at \in {"reading", "transaction"} => profile'[q.subject] # None
        /\ q.at = "transaction" => "workspace" \in enabled /\ q.actor = profile'[q.subject]
    <3>1. CASE q.at = "resolving"
      BY <1>3, <3>1 DEF Moves
    <3>2. CASE q.at = "reading"
      BY <1>1, <1>3, <3>2 DEF Moves, ProfilesInv
    <3>3. CASE q.at = "transaction"
      <4>1. /\ conn[c].at = "reading" /\ q.subject = conn[c].subject
            /\ q.actor = profile[conn[c].subject] /\ "workspace" \in enabled
        BY <1>3, <3>3 DEF Moves
      <4>2. /\ "identity" \in enabled /\ conn[c].subject \in Subjects
            /\ profile[conn[c].subject] # None
        BY <1>1, <4>1 DEF ProfilesInv
      <4>3. profile'[conn[c].subject] = profile[conn[c].subject]
        BY <1>2, <4>2
      <4> QED
        BY <3>3, <4>1, <4>2, <4>3
    <3> QED
      BY <3>1, <3>2, <3>3
  <2>2. ASSUME NEW d \in Connections, d # c
        PROVE  /\ conn[d].at \in {"resolving", "reading", "transaction"} =>
                    "identity" \in enabled /\ conn[d].subject \in Subjects
               /\ conn[d].at \in {"reading", "transaction"} => profile'[conn[d].subject] # None
               /\ conn[d].at = "transaction" =>
                    "workspace" \in enabled /\ conn[d].actor = profile'[conn[d].subject]
    BY <1>1, <1>2 DEF ProfilesInv
  <2>3. ASSUME NEW d \in Connections, d # c PROVE conn'[d] = conn[d]
    BY <1>4, <2>3
  <2>4. ASSUME NEW d \in Connections
        PROVE  /\ conn'[d].at \in {"resolving", "reading", "transaction"} =>
                    "identity" \in enabled /\ conn'[d].subject \in Subjects
               /\ conn'[d].at \in {"reading", "transaction"} => profile'[conn'[d].subject] # None
               /\ conn'[d].at = "transaction" =>
                    "workspace" \in enabled /\ conn'[d].actor = profile'[conn'[d].subject]
    <3>1. CASE d = c
      BY <1>4, <2>1, <3>1
    <3>2. CASE d # c
      BY <2>2, <2>3, <3>2
    <3> QED
      BY <3>1, <3>2
  <2> QED
    BY <1>2, <1>5, <2>4 DEF ProfilesInv
<1> QED
  BY <1>6, <1>7, <1>8, <1>9 DEF ProcessInv

-----------------------------------------------------------------------------
(* Everything.                                                             *)

(* A step of the process that main and the handlers have no part in.       *)
LEMMA OtherStep ==
  ASSUME ProcessInv,
         \/ Signal \/ UNCHANGED vars
         \/ \E w \in Workers : Tick(w) \/ PassEnds(w) \/ WorkerStops(w)
  PROVE  ProcessInv'
<1>1. MainInv /\ WorkersInv /\ ClientsInv /\ SocketsInv /\ ProfilesInv
  BY DEF ProcessInv
<1>2. UNCHANGED <<mainVars, conn, profile>>
  BY DEF Signal, vars, Tick, PassEnds, WorkerStops
<1>3. /\ enabled' = enabled /\ phase' = phase /\ deferred' = deferred /\ told' = told
      /\ listening' = listening /\ expired' = expired /\ Held' = Held
      /\ conn' = conn /\ profile' = profile /\ SocketRoutes' = SocketRoutes
  BY <1>2, SamePlan DEF mainVars, Held
<1>4. MainInv'
  BY <1>1, <1>2, MainKept
<1>5. WorkersInv'
  <2>1. CASE \E w \in Workers : Tick(w) \/ PassEnds(w) \/ WorkerStops(w)
    <3>1. PICK w \in Workers : Tick(w) \/ PassEnds(w) \/ WorkerStops(w)
      BY <2>1
    <3>2. /\ worker[w] \in {"waiting", "pass"}
          /\ \E place \in {"waiting", "pass", "over"} : worker' = [worker EXCEPT ![w] = place]
      BY <3>1 DEF Tick, PassEnds, WorkerStops
    <3> QED
      BY <1>1, <1>3, <3>2 DEF WorkersInv
  <2>2. CASE worker' = worker
    BY <1>1, <1>3, <2>2 DEF WorkersInv
  <2> QED
    BY <2>1, <2>2 DEF Signal, vars
<1>6. ClientsInv'
  BY <1>1, <1>3 DEF ClientsInv, Counted
<1>7. SocketsInv'
  BY <1>1, <1>3 DEF SocketsInv
<1>8. ProfilesInv'
  BY <1>1, <1>3 DEF ProfilesInv
<1> QED
  BY <1>4, <1>5, <1>6, <1>7, <1>8 DEF ProcessInv

(* Every step keeps the invariant.                                         *)
LEMMA ProcessStep ==
  ASSUME ProcessInv, [Next]_vars
  PROVE  ProcessInv'
<1>1. CASE Main \/ ListenerFails
  <2>1. MainInv /\ WorkersInv /\ ClientsInv /\ SocketsInv /\ ProfilesInv
    BY DEF ProcessInv
  <2> QED
    BY <1>1, <2>1, MainStep, MainWorkers, MainClients, MainSockets, MainProfiles DEF ProcessInv
<1>2. CASE \E c \in Connections : Handle(c)
  BY <1>2, HandlerStep
<1>3. CASE \/ Signal \/ UNCHANGED vars
           \/ \E w \in Workers : Tick(w) \/ PassEnds(w) \/ WorkerStops(w)
  BY <1>3, OtherStep
<1> QED
  BY <1>1, <1>2, <1>3 DEF Next

(* The process keeps to its invariant: main holds a beginning of its plan, *)
(* clients are served only under all of it, and a door is held until its   *)
(* sockets have ended (cmd/app/main.go, run and its deferred calls).       *)
THEOREM ProcessInvariance == Spec => []ProcessInv
<1>1. Init => ProcessInv
  BY InitInv
<1>2. ProcessInv /\ [Next]_vars => ProcessInv'
  BY ProcessStep
<1> QED
  BY <1>1, <1>2, PTL DEF Spec

(* In every configuration, however many connections come, whatever fails   *)
(* and whenever the signal arrives: no pool, authority or socket server is *)
(* closed under a worker, socket, request or probe that uses it, but under *)
(* requests that the drain has given up (cmd/app/main.go, the deferred     *)
(* calls; pkg/fiber, Server.Run).                                          *)
THEOREM PoolsAlwaysOutlive == Spec => []PoolsOutliveUsers
<1>1. ProcessInv => PoolsOutliveUsers
  BY InvOutlives DEF ProcessInv
<1> QED
  BY <1>1, ProcessInvariance, PTL

(* However many sign in at once, those who sign in as one subject work     *)
(* under one profile (the resolver of internal/identity inserts and then reads).  *)
THEOREM AlwaysOneProfile == Spec => []OneProfilePerSubject
<1>1. ProcessInv => OneProfilePerSubject
  BY InvOneProfile DEF ProcessInv
<1> QED
  BY <1>1, ProcessInvariance, PTL
=============================================================================
