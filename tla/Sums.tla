-------------------------------- MODULE Sums --------------------------------
(***************************************************************************)
(* What the modules need to know of the sum of f[x] over the elements x of *)
(* a finite set: that it is a sum, in whatever order its elements are      *)
(* taken.  The community modules define it by recursion on an element that *)
(* CHOOSE picks; the induction is a choice of the least finite set for     *)
(* which a statement fails.                                                *)
(***************************************************************************)
EXTENDS Integers, Functions, FiniteSetTheorems, WellFoundedInduction, TLAPS

Chosen(s) == CHOOSE x \in s : TRUE
IsSum(f, S, it) ==
  it = [s \in SUBSET S |-> IF s = {} THEN 0 ELSE f[Chosen(s)] + it[s \ {Chosen(s)}]]
Iter(f, S) == CHOOSE it : IsSum(f, S, it)

(* The sum is the value at S of the function that the library constructs.  *)
LEMMA SumIsIter == ASSUME NEW f, NEW S PROVE SumFunctionOnSet(f, S) = Iter(f, S)[S]
BY Zenon DEF SumFunctionOnSet, FoldFunctionOnSet, MapThenFoldSet, Iter, IsSum, Chosen

(* A collection of finite sets has one that contains no other.             *)
LEMMA LeastSet ==
  ASSUME NEW S, IsFiniteSet(S), NEW B, B \subseteq SUBSET S, B # {}
  PROVE  \E v \in B : \A w \in B : w \subseteq v => w = v
<1>1. IsWellFoundedOn(StrictSubsetOrdering(S), SUBSET S)
  BY FS_StrictSubsetOrderingWellFounded, FS_FiniteSubsetsOfFinite
<1>2. PICK v \in B : \A w \in B : ~ (<<w, v>> \in StrictSubsetOrdering(S))
  BY <1>1, WFMin
<1> QED
  BY <1>2 DEF StrictSubsetOrdering

(* What is picked is an element, and its removal makes the set smaller.    *)
LEMMA Picked == ASSUME NEW s, s # {} PROVE Chosen(s) \in s /\ s \ {Chosen(s)} # s
BY DEF Chosen

(* Two such functions agree where both are defined.                        *)
LEMMA IterUnique ==
  ASSUME NEW f, NEW S, NEW T, NEW a, NEW b, IsSum(f, S, a), IsSum(f, T, b),
         NEW u, u \subseteq S, u \subseteq T, IsFiniteSet(u)
  PROVE  a[u] = b[u]
<1> DEFINE B == {v \in SUBSET u : a[v] # b[v]}
<1> SUFFICES ASSUME u \in B PROVE FALSE
  OBVIOUS
<1>1. PICK v \in B : \A w \in B : w \subseteq v => w = v
  <2>1. B \subseteq SUBSET u /\ B # {}
    OBVIOUS
  <2> HIDE DEF B
  <2> QED
    BY <2>1, LeastSet
<1>2. a[v] = (IF v = {} THEN 0 ELSE f[Chosen(v)] + a[v \ {Chosen(v)}])
  BY <1>1 DEF IsSum
<1>3. b[v] = (IF v = {} THEN 0 ELSE f[Chosen(v)] + b[v \ {Chosen(v)}])
  BY <1>1 DEF IsSum
<1>4. v # {}
  BY <1>1, <1>2, <1>3
<1>5. a[v \ {Chosen(v)}] = b[v \ {Chosen(v)}]
  BY <1>1, <1>4, Picked
<1> QED
  BY <1>1, <1>2, <1>3, <1>4, <1>5

(* There is such a function for every finite set.                          *)
LEMMA IterExists ==
  ASSUME NEW f, NEW S, IsFiniteSet(S) PROVE IsSum(f, S, Iter(f, S))
<1> DEFINE B == {v \in SUBSET S : ~ IsSum(f, v, Iter(f, v))}
<1> SUFFICES ASSUME S \in B PROVE FALSE
  OBVIOUS
<1>1. PICK v \in B : \A w \in B : w \subseteq v => w = v
  <2>1. B \subseteq SUBSET S /\ B # {}
    OBVIOUS
  <2> HIDE DEF B
  <2> QED
    BY <2>1, LeastSet
<1>2. \A w \in SUBSET v : w # v => IsSum(f, w, Iter(f, w))
  BY <1>1
<1> DEFINE below(w) == f[Chosen(w)] + Iter(f, w \ {Chosen(w)})[w \ {Chosen(w)}]
           g == [w \in SUBSET v |-> IF w = {} THEN 0 ELSE below(w)]
<1>3. \A w \in SUBSET v : w # v => g[w] = Iter(f, w)[w]
  <2> SUFFICES ASSUME NEW w \in SUBSET v, w # v PROVE g[w] = Iter(f, w)[w]
    OBVIOUS
  <2>1. IsSum(f, w, Iter(f, w))
    BY <1>2
  <2>2. Iter(f, w)[w] = (IF w = {} THEN 0 ELSE f[Chosen(w)] + Iter(f, w)[w \ {Chosen(w)}])
    BY <2>1 DEF IsSum
  <2>3. CASE w # {}
    <3> DEFINE x == w \ {Chosen(w)}
    <3>1. x \in SUBSET v /\ x # v /\ x \subseteq w /\ IsFiniteSet(x)
      BY <1>1, FS_Subset
    <3>2. Iter(f, w)[x] = Iter(f, x)[x]
      BY <1>2, <2>1, <3>1, IterUnique
    <3> QED
      BY <2>2, <2>3, <3>2
  <2> QED
    BY <2>2, <2>3
<1>4. \A w \in SUBSET v : w # {} => /\ w \ {Chosen(w)} \in SUBSET v /\ w \ {Chosen(w)} # v
  <2> SUFFICES ASSUME NEW w \in SUBSET v, w # {}
               PROVE  w \ {Chosen(w)} \in SUBSET v /\ w \ {Chosen(w)} # v
    OBVIOUS
  <2> QED
    BY Picked
<1>5. \A w \in SUBSET v : w # {} => below(w) = f[Chosen(w)] + g[w \ {Chosen(w)}]
  BY <1>3, <1>4
<1> HIDE DEF below
<1>6. g = [w \in SUBSET v |-> IF w = {} THEN 0 ELSE f[Chosen(w)] + g[w \ {Chosen(w)}]]
  BY <1>5
<1>7. \E it : IsSum(f, v, it)
  BY <1>6 DEF IsSum
<1>8. IsSum(f, v, Iter(f, v))
  BY <1>7, Zenon DEF Iter
<1> QED
  BY <1>1, <1>8

(* The recursive definition holds.                                         *)
LEMMA SumDefinition ==
  ASSUME NEW f, NEW S, IsFiniteSet(S)
  PROVE  SumFunctionOnSet(f, S) =
           IF S = {} THEN 0 ELSE f[Chosen(S)] + SumFunctionOnSet(f, S \ {Chosen(S)})
<1> DEFINE T == S \ {Chosen(S)}
<1>1. IsFiniteSet(T) /\ T \subseteq S
  BY FS_Subset
<1>2. IsSum(f, S, Iter(f, S)) /\ IsSum(f, T, Iter(f, T))
  BY <1>1, IterExists
<1>3. Iter(f, S)[S] = IF S = {} THEN 0 ELSE f[Chosen(S)] + Iter(f, S)[T]
  BY <1>2 DEF IsSum
<1>4. Iter(f, S)[T] = Iter(f, T)[T]
  BY <1>1, <1>2, IterUnique
<1> QED
  BY <1>3, <1>4, SumIsIter

(* A sum of integers is one, and natural when they are.                    *)
LEMMA SumInt ==
  ASSUME NEW f, NEW S, IsFiniteSet(S), \A x \in S : f[x] \in Int
  PROVE  SumFunctionOnSet(f, S) \in Int
<1> DEFINE B == {v \in SUBSET S : SumFunctionOnSet(f, v) \notin Int}
<1> SUFFICES ASSUME S \in B PROVE FALSE
  OBVIOUS
<1>1. PICK v \in B : \A w \in B : w \subseteq v => w = v
  <2>1. B \subseteq SUBSET S /\ B # {}
    OBVIOUS
  <2> HIDE DEF B
  <2> QED
    BY <2>1, LeastSet
<1>2. IsFiniteSet(v)
  BY <1>1, FS_Subset
<1>3. SumFunctionOnSet(f, v) =
        IF v = {} THEN 0 ELSE f[Chosen(v)] + SumFunctionOnSet(f, v \ {Chosen(v)})
  BY <1>2, SumDefinition
<1>4. CASE v # {}
  <2>1. Chosen(v) \in v /\ v \ {Chosen(v)} \notin B
    BY <1>1, <1>4, Picked
  <2>2. SumFunctionOnSet(f, v \ {Chosen(v)}) \in Int /\ f[Chosen(v)] \in Int
    BY <2>1
  <2> QED
    BY <1>1, <1>3, <1>4, <2>2
<1> QED
  BY <1>1, <1>3, <1>4

LEMMA SumNat ==
  ASSUME NEW f, NEW S, IsFiniteSet(S), \A x \in S : f[x] \in Nat
  PROVE  SumFunctionOnSet(f, S) \in Nat
<1> DEFINE B == {v \in SUBSET S : SumFunctionOnSet(f, v) \notin Nat}
<1> SUFFICES ASSUME S \in B PROVE FALSE
  OBVIOUS
<1>1. PICK v \in B : \A w \in B : w \subseteq v => w = v
  <2>1. B \subseteq SUBSET S /\ B # {}
    OBVIOUS
  <2> HIDE DEF B
  <2> QED
    BY <2>1, LeastSet
<1>2. IsFiniteSet(v)
  BY <1>1, FS_Subset
<1>3. SumFunctionOnSet(f, v) =
        IF v = {} THEN 0 ELSE f[Chosen(v)] + SumFunctionOnSet(f, v \ {Chosen(v)})
  BY <1>2, SumDefinition
<1>4. CASE v # {}
  <2>1. Chosen(v) \in v /\ v \ {Chosen(v)} \notin B
    BY <1>1, <1>4, Picked
  <2>2. SumFunctionOnSet(f, v \ {Chosen(v)}) \in Nat /\ f[Chosen(v)] \in Nat
    BY <2>1
  <2> QED
    BY <1>1, <1>3, <1>4, <2>2
<1> QED
  BY <1>1, <1>3, <1>4

(* Any element may be taken first.                                         *)
LEMMA SumRemove ==
  ASSUME NEW f, NEW S, IsFiniteSet(S), \A x \in S : f[x] \in Int, NEW a \in S
  PROVE  SumFunctionOnSet(f, S) = f[a] + SumFunctionOnSet(f, S \ {a})
<1> DEFINE B == {v \in SUBSET S :
                   \E x \in v : SumFunctionOnSet(f, v) # f[x] + SumFunctionOnSet(f, v \ {x})}
<1> SUFFICES ASSUME S \in B PROVE FALSE
  OBVIOUS
<1>1. PICK v \in B : \A w \in B : w \subseteq v => w = v
  <2>1. B \subseteq SUBSET S /\ B # {}
    OBVIOUS
  <2> HIDE DEF B
  <2> QED
    BY <2>1, LeastSet
<1>2. PICK x \in v : SumFunctionOnSet(f, v) # f[x] + SumFunctionOnSet(f, v \ {x})
  BY <1>1
<1> DEFINE p == Chosen(v)
           w == v \ {p}
           u == v \ {x}
           c == w \ {x}
<1>3. p \in v /\ w \notin B /\ u \notin B
  BY <1>1, <1>2, Picked
<1>4. /\ IsFiniteSet(v) /\ IsFiniteSet(c) /\ c = u \ {p}
      /\ v \subseteq S /\ w \subseteq S /\ u \subseteq S
  BY <1>1, FS_Subset
<1>5. SumFunctionOnSet(f, v) = f[p] + SumFunctionOnSet(f, w)
  BY <1>2, <1>4, SumDefinition
<1>6. p # x
  BY <1>2, <1>5
<1>7. SumFunctionOnSet(f, w) = f[x] + SumFunctionOnSet(f, c)
  BY <1>2, <1>3, <1>4, <1>6
<1>8. SumFunctionOnSet(f, u) = f[p] + SumFunctionOnSet(f, u \ {p})
  BY <1>2, <1>3, <1>4, <1>6
<1>9. f[p] \in Int /\ f[x] \in Int /\ SumFunctionOnSet(f, c) \in Int
  BY <1>2, <1>3, <1>4, SumInt
<1> HIDE DEF p, w, u, c
<1>10. SumFunctionOnSet(f, v) = f[x] + SumFunctionOnSet(f, u)
  BY <1>4, <1>5, <1>7, <1>8, <1>9
<1> QED
  BY <1>2, <1>10 DEF u

(* An element more.                                                        *)
LEMMA SumAdd ==
  ASSUME NEW f, NEW S, IsFiniteSet(S), NEW a, a \notin S, \A x \in S \cup {a} : f[x] \in Int
  PROVE  SumFunctionOnSet(f, S \cup {a}) = SumFunctionOnSet(f, S) + f[a]
<1>1. IsFiniteSet(S \cup {a}) /\ (S \cup {a}) \ {a} = S
  BY FS_AddElement
<1>2. SumFunctionOnSet(f, S \cup {a}) = f[a] + SumFunctionOnSet(f, S)
  BY <1>1, SumRemove
<1> QED
  BY <1>2, SumInt

(* Functions that agree on a set have one sum over it.                     *)
LEMMA SumEqual ==
  ASSUME NEW f, NEW g, NEW S, IsFiniteSet(S), \A x \in S : f[x] = g[x]
  PROVE  SumFunctionOnSet(f, S) = SumFunctionOnSet(g, S)
<1> DEFINE B == {v \in SUBSET S : SumFunctionOnSet(f, v) # SumFunctionOnSet(g, v)}
<1> SUFFICES ASSUME S \in B PROVE FALSE
  OBVIOUS
<1>1. PICK v \in B : \A w \in B : w \subseteq v => w = v
  <2>1. B \subseteq SUBSET S /\ B # {}
    OBVIOUS
  <2> HIDE DEF B
  <2> QED
    BY <2>1, LeastSet
<1>2. IsFiniteSet(v)
  BY <1>1, FS_Subset
<1>3. /\ SumFunctionOnSet(f, v) =
           IF v = {} THEN 0 ELSE f[Chosen(v)] + SumFunctionOnSet(f, v \ {Chosen(v)})
      /\ SumFunctionOnSet(g, v) =
           IF v = {} THEN 0 ELSE g[Chosen(v)] + SumFunctionOnSet(g, v \ {Chosen(v)})
  BY <1>2, SumDefinition
<1>4. CASE v # {}
  <2>1. Chosen(v) \in v /\ v \ {Chosen(v)} \notin B
    BY <1>1, <1>4, Picked
  <2>2. /\ SumFunctionOnSet(f, v \ {Chosen(v)}) = SumFunctionOnSet(g, v \ {Chosen(v)})
        /\ f[Chosen(v)] = g[Chosen(v)]
    BY <2>1
  <2> QED
    BY <1>1, <1>3, <1>4, <2>2
<1> QED
  BY <1>1, <1>3, <1>4

(* Two sets without a common element.                                      *)
LEMMA SumUnion ==
  ASSUME NEW f, NEW S, NEW T, IsFiniteSet(S), IsFiniteSet(T), S \cap T = {},
         \A x \in S \cup T : f[x] \in Int
  PROVE  SumFunctionOnSet(f, S \cup T) = SumFunctionOnSet(f, S) + SumFunctionOnSet(f, T)
<1> DEFINE B == {v \in SUBSET T :
                   SumFunctionOnSet(f, S \cup v) # SumFunctionOnSet(f, S) + SumFunctionOnSet(f, v)}
<1> SUFFICES ASSUME T \in B PROVE FALSE
  OBVIOUS
<1>1. PICK v \in B : \A w \in B : w \subseteq v => w = v
  <2>1. B \subseteq SUBSET T /\ B # {}
    OBVIOUS
  <2> HIDE DEF B
  <2> QED
    BY <2>1, LeastSet
<1>2. IsFiniteSet(v) /\ IsFiniteSet(S \cup v) /\ v \subseteq T
  BY <1>1, FS_Subset, FS_Union
<1>3. v # {}
  <2> SUFFICES ASSUME v = {} PROVE FALSE
    OBVIOUS
  <2>1. SumFunctionOnSet(f, v) = 0 /\ S \cup v = S
    BY <1>2, SumDefinition
  <2>2. SumFunctionOnSet(f, S) \in Int
    BY SumInt
  <2> QED
    BY <1>1, <2>1, <2>2
<1> DEFINE p == Chosen(v)
           w == v \ {p}
<1>4. p \in v /\ w \notin B /\ w \subseteq T
  BY <1>1, <1>2, <1>3, Picked
<1>5. SumFunctionOnSet(f, S \cup w) = SumFunctionOnSet(f, S) + SumFunctionOnSet(f, w)
  BY <1>4
<1>6. SumFunctionOnSet(f, v) = f[p] + SumFunctionOnSet(f, w)
  BY <1>2, <1>3, SumDefinition
<1>7. SumFunctionOnSet(f, S \cup v) = f[p] + SumFunctionOnSet(f, (S \cup v) \ {p})
  BY <1>2, <1>4, SumRemove
<1>8. (S \cup v) \ {p} = S \cup w
  BY <1>2, <1>4
<1>9. f[p] \in Int /\ SumFunctionOnSet(f, S) \in Int /\ SumFunctionOnSet(f, w) \in Int
  BY <1>2, <1>4, SumInt, FS_Subset
<1> HIDE DEF p, w
<1>10. SumFunctionOnSet(f, S \cup v) = f[p] + (SumFunctionOnSet(f, S) + SumFunctionOnSet(f, w))
  BY <1>5, <1>7, <1>8
<1>11. SumFunctionOnSet(f, S \cup v) = SumFunctionOnSet(f, S) + SumFunctionOnSet(f, v)
  BY <1>6, <1>9, <1>10
<1> QED
  BY <1>1, <1>11
=============================================================================
