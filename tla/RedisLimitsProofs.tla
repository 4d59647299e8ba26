------------------------- MODULE RedisLimitsProofs -------------------------
(***************************************************************************)
(* Proofs about the algorithms that count in redis, where the commands of  *)
(* requests interleave, for any number of requests under way, scores,      *)
(* limits and windows: the token bucket (Token), the fixed windows (Fixed) *)
(* and the sliding windows (Sliding).  What each of them counts is a sum   *)
(* over the requests under way or over the members of a set; the lemmas    *)
(* about sums come first.                                                  *)
(***************************************************************************)
EXTENDS RateLimits, RedisWindows, FiniteSetsExt, FiniteSetTheorems, WellFoundedInduction, TLAPS

-----------------------------------------------------------------------------
(* Sums over finite sets                                                   *)

\* A set of subsets of a finite set that has s whenever it has what is properly
\* inside s has them all: how sums over the requests under way are reasoned about.
LEMMA SubsetInduction ==
  ASSUME NEW S, IsFiniteSet(S), NEW Good,
         \A s \in SUBSET S : (\A t \in SUBSET s : t # s => t \in Good) => s \in Good
  PROVE  SUBSET S \subseteq Good
<1> DEFINE Bad == (SUBSET S) \ Good
<1>1. SUFFICES ASSUME Bad # {} PROVE FALSE
  OBVIOUS
<1>2. Bad \subseteq FiniteSubsetsOf(S)
  BY FS_Subset DEF FiniteSubsetsOf
<1>3. PICK s \in Bad : \A t \in Bad : ~(<<t, s>> \in StrictSubsetOrdering(S))
  <2> HIDE DEF Bad
  <2> QED BY <1>1, <1>2, FS_StrictSubsetOrderingWellFounded, WFMin
<1>4. ASSUME NEW t \in SUBSET s, t # s
      PROVE  t \in Good
  BY <1>3, <1>4 DEF StrictSubsetOrdering
<1> QED
  BY <1>3, <1>4

\* What the values of f on S sum up to, like InFlight.
SumOf(f, S) == MapThenSumSet(LAMBDA x : f[x], S)

\* The fold that sums up takes an element, whichever, and goes on without it.
Picked(s) == CHOOSE x \in s : TRUE

Adds(g, f, S) ==
  g = [s \in SUBSET S |-> IF s = {} THEN 0 ELSE f[Picked(s)] + g[s \ {Picked(s)}]]

Fold(f, S) == CHOOSE g : Adds(g, f, S)

\* A sum is what its fold says for the whole set.
LEMMA SumDef ==
  ASSUME NEW f, NEW S
  PROVE  SumOf(f, S) = Fold(f, S)[S]
BY DEF SumOf, MapThenSumSet, MapThenFoldSet, Fold, Adds, Picked

\* A set that is not empty has an element to pick.
LEMMA PickedIn ==
  ASSUME NEW s, s # {}
  PROVE  Picked(s) \in s
BY DEF Picked

\* What a fold says for each subset.
LEMMA AddsAt ==
  ASSUME NEW S, NEW f, NEW g, Adds(g, f, S), NEW s \in SUBSET S
  PROVE  /\ s = {} => g[s] = 0
         /\ s # {} => g[s] = f[Picked(s)] + g[s \ {Picked(s)}]
<1> DEFINE h == [t \in SUBSET S |-> IF t = {} THEN 0 ELSE f[Picked(t)] + g[t \ {Picked(t)}]]
<1>1. g = h
  BY DEF Adds
<1>2. g[s] = h[s]
  BY <1>1
<1> QED
  BY <1>2

\* Folds over different sets agree on what the sets share.
LEMMA AddsUnique ==
  ASSUME NEW S, NEW T, IsFiniteSet(S), NEW f, NEW g, NEW h, Adds(g, f, S), Adds(h, f, T)
  PROVE  \A s \in SUBSET (S \cap T) : g[s] = h[s]
<1> DEFINE Good == {s \in SUBSET (S \cap T) : g[s] = h[s]}
<1>1. ASSUME NEW s \in SUBSET (S \cap T), \A t \in SUBSET s : t # s => t \in Good
      PROVE  s \in Good
  <2>1. CASE s = {}
    <3>1. g[s] = 0 /\ h[s] = 0
      BY <2>1, AddsAt
    <3> QED BY <3>1
  <2>2. CASE s # {}
    <3>1. Picked(s) \in s
      BY <2>2, PickedIn
    <3>2. s \ {Picked(s)} \in Good
      BY <1>1, <3>1
    <3> HIDE DEF Good
    <3>3. g[s \ {Picked(s)}] = h[s \ {Picked(s)}]
      BY <3>2 DEF Good
    <3>4. g[s] = f[Picked(s)] + g[s \ {Picked(s)}] /\ h[s] = f[Picked(s)] + h[s \ {Picked(s)}]
      BY <2>2, AddsAt
    <3> QED
      BY <3>3, <3>4 DEF Good
  <2> QED
    BY <2>1, <2>2
<1>2. IsFiniteSet(S \cap T)
  BY FS_Intersection
<1>3. SUBSET (S \cap T) \subseteq Good
  <2> DEFINE D == S \cap T
  <2>1. \A s \in SUBSET D : (\A t \in SUBSET s : t # s => t \in Good) => s \in Good
    BY <1>1
  <2>2. IsFiniteSet(D)
    BY <1>2
  <2>3. SUBSET D \subseteq Good
    <3> HIDE DEF Good, D
    <3> QED BY <2>1, <2>2, SubsetInduction
  <2> QED BY <2>3
<1> QED
  BY <1>3

\* The fold that MapThenSumSet chooses is there.
LEMMA AddsExists ==
  ASSUME NEW S, IsFiniteSet(S), NEW f
  PROVE  Adds(Fold(f, S), f, S)
<1> DEFINE Good == {s \in SUBSET S : Adds(Fold(f, s), f, s)}
<1>1. ASSUME NEW s \in SUBSET S, \A t \in SUBSET s : t # s => t \in Good
      PROVE  s \in Good
  <2> DEFINE V(t) == Fold(f, t)[t]
             g == [t \in SUBSET s |-> IF t = {} THEN 0 ELSE f[Picked(t)] + V(t \ {Picked(t)})]
  <2>1. ASSUME NEW t \in SUBSET s, t # {}
        PROVE  g[t \ {Picked(t)}] = V(t \ {Picked(t)})
    <3> DEFINE u == t \ {Picked(t)}
    <3>1. u \in SUBSET s /\ u # s
      BY <2>1, PickedIn
    <3>2. Adds(Fold(f, u), f, u)
      BY <1>1, <3>1
    <3>3. CASE u = {}
      <4>1. V(u) = 0
        BY <3>2, <3>3, AddsAt
      <4>2. g[u] = 0
        BY <3>1, <3>3
      <4> QED BY <4>1, <4>2
    <3>4. CASE u # {}
      <4> DEFINE w == u \ {Picked(u)}
      <4>1. w \in SUBSET u /\ w # u /\ w \in SUBSET s /\ w # s
        BY <3>1, <3>4, PickedIn
      <4>2. Adds(Fold(f, w), f, w)
        BY <1>1, <4>1
      <4>3. IsFiniteSet(u)
        BY <3>1, FS_Subset
      <4>4. Fold(f, u)[w] = Fold(f, w)[w]
        <5> HIDE DEF u, w
        <5> QED BY <3>2, <4>1, <4>2, <4>3, AddsUnique
      <4>5. V(u) = f[Picked(u)] + Fold(f, u)[w]
        <5> HIDE DEF u
        <5> QED BY <3>2, <3>4, AddsAt
      <4>6. g[u] = f[Picked(u)] + V(w)
        <5> HIDE DEF u
        <5> QED BY <3>1, <3>4
      <4> QED BY <4>4, <4>5, <4>6
    <3> QED BY <3>3, <3>4
  <2>2. Adds(g, f, s)
    <3>1. g = [t \in SUBSET s |-> IF t = {} THEN 0 ELSE f[Picked(t)] + g[t \ {Picked(t)}]]
      <4>1. \A t \in SUBSET s : (IF t = {} THEN 0 ELSE f[Picked(t)] + V(t \ {Picked(t)}))
                              = (IF t = {} THEN 0 ELSE f[Picked(t)] + g[t \ {Picked(t)}])
        <5> HIDE DEF g, V
        <5> QED BY <2>1
      <4>2. g = [t \in SUBSET s |-> IF t = {} THEN 0 ELSE f[Picked(t)] + V(t \ {Picked(t)})]
        OBVIOUS
      <4> HIDE DEF g, V
      <4> QED BY <4>1, <4>2, Zenon
    <3> HIDE DEF g
    <3> QED BY <3>1 DEF Adds
  <2>3. Adds(Fold(f, s), f, s)
    <3> HIDE DEF g
    <3> QED BY <2>2 DEF Fold
  <2> QED BY <2>3
<1>2. SUBSET S \subseteq Good
  <2> HIDE DEF Good
  <2> QED BY <1>1, SubsetInduction
<1> QED
  BY <1>2

\* Nothing sums up to zero.
LEMMA SumEmpty ==
  ASSUME NEW f
  PROVE  SumOf(f, {}) = 0
BY SumDef, AddsExists, AddsAt, FS_EmptySet

\* A sum is the picked element and the sum of the others.
LEMMA SumPicked ==
  ASSUME NEW S, IsFiniteSet(S), S # {}, NEW f
  PROVE  SumOf(f, S) = f[Picked(S)] + SumOf(f, S \ {Picked(S)})
<1> DEFINE T == S \ {Picked(S)}
<1>1. T \subseteq S /\ IsFiniteSet(T)
  BY FS_Subset
<1>2. Adds(Fold(f, S), f, S) /\ Adds(Fold(f, T), f, T)
  BY <1>1, AddsExists
<1>3. Fold(f, S)[S] = f[Picked(S)] + Fold(f, S)[T]
  BY <1>2, AddsAt
<1>4. Fold(f, S)[T] = Fold(f, T)[T]
  <2> HIDE DEF T
  <2> QED BY SMTT(30), <1>1, <1>2, AddsUnique
<1> HIDE DEF T
<1> QED
  BY <1>3, <1>4, SumDef DEF T

\* Integers sum up to an integer.
LEMMA SumInt ==
  ASSUME NEW S, IsFiniteSet(S), NEW f, \A x \in S : f[x] \in Int
  PROVE  SumOf(f, S) \in Int
<1> DEFINE Good == {s \in SUBSET S : SumOf(f, s) \in Int}
<1>1. ASSUME NEW s \in SUBSET S, \A t \in SUBSET s : t # s => t \in Good
      PROVE  s \in Good
  <2>1. CASE s = {}
    BY <2>1, SumEmpty
  <2>2. CASE s # {}
    <3>1. Picked(s) \in s /\ IsFiniteSet(s)
      BY <2>2, PickedIn, FS_Subset
    <3>2. SumOf(f, s \ {Picked(s)}) \in Int
      BY <1>1, <3>1
    <3>3. SumOf(f, s) = f[Picked(s)] + SumOf(f, s \ {Picked(s)})
      BY <2>2, <3>1, SumPicked
    <3> QED
      BY <3>1, <3>2, <3>3
  <2> QED
    BY <2>1, <2>2
<1>2. SUBSET S \subseteq Good
  <2> HIDE DEF Good
  <2> QED BY <1>1, SubsetInduction
<1> QED
  BY <1>2

\* Any element can be picked: the order of a sum does not matter.
LEMMA SumRemove ==
  ASSUME NEW S, IsFiniteSet(S), NEW f, \A x \in S : f[x] \in Int
  PROVE  \A x \in S : SumOf(f, S) = f[x] + SumOf(f, S \ {x})
<1> DEFINE Good == {s \in SUBSET S : \A x \in s : SumOf(f, s) = f[x] + SumOf(f, s \ {x})}
<1>1. ASSUME NEW s \in SUBSET S, \A t \in SUBSET s : t # s => t \in Good
      PROVE  s \in Good
  <2> SUFFICES ASSUME NEW x \in s
               PROVE  SumOf(f, s) = f[x] + SumOf(f, s \ {x})
    OBVIOUS
  <2> DEFINE c == Picked(s)
             r == s \ {c, x}
  <2>1. c \in s /\ IsFiniteSet(s) /\ IsFiniteSet(r) /\ r \subseteq S
    BY PickedIn, FS_Subset
  <2>2. SumOf(f, s) = f[c] + SumOf(f, s \ {c})
    BY <2>1, SumPicked
  <2>3. CASE x = c
    BY <2>2, <2>3
  <2>4. CASE x # c
    <3> HIDE DEF c
    <3>1. SumOf(f, s \ {c}) = f[x] + SumOf(f, r)
      <4>1. s \ {c} \in Good /\ x \in s \ {c} /\ (s \ {c}) \ {x} = r
        BY <1>1, <2>1, <2>4
      <4> QED BY <4>1
    <3>2. SumOf(f, s \ {x}) = f[c] + SumOf(f, r)
      <4>1. s \ {x} \in Good /\ c \in s \ {x} /\ (s \ {x}) \ {c} = r
        BY <1>1, <2>1, <2>4
      <4> QED BY <4>1
    <3>3. SumOf(f, r) \in Int /\ f[c] \in Int /\ f[x] \in Int
      BY <2>1, SumInt
    <3> QED
      BY <2>2, <3>1, <3>2, <3>3
  <2> QED
    BY <2>3, <2>4
<1>2. SUBSET S \subseteq Good
  <2> HIDE DEF Good
  <2> QED BY <1>1, SubsetInduction
<1> QED
  BY <1>2

\* A sum depends on the values alone.
LEMMA SumSame ==
  ASSUME NEW S, IsFiniteSet(S), NEW f, NEW g, \A x \in S : f[x] = g[x]
  PROVE  SumOf(f, S) = SumOf(g, S)
<1> DEFINE Good == {s \in SUBSET S : SumOf(f, s) = SumOf(g, s)}
<1>1. ASSUME NEW s \in SUBSET S, \A t \in SUBSET s : t # s => t \in Good
      PROVE  s \in Good
  <2>1. CASE s = {}
    BY <2>1, SumEmpty
  <2>2. CASE s # {}
    <3>1. Picked(s) \in s /\ IsFiniteSet(s)
      BY <2>2, PickedIn, FS_Subset
    <3>2. SumOf(f, s \ {Picked(s)}) = SumOf(g, s \ {Picked(s)})
      BY <1>1, <3>1
    <3>3. /\ SumOf(f, s) = f[Picked(s)] + SumOf(f, s \ {Picked(s)})
          /\ SumOf(g, s) = g[Picked(s)] + SumOf(g, s \ {Picked(s)})
      BY <2>2, <3>1, SumPicked
    <3> QED
      BY <3>1, <3>2, <3>3
  <2> QED
    BY <2>1, <2>2
<1>2. SUBSET S \subseteq Good
  <2> HIDE DEF Good
  <2> QED BY <1>1, SubsetInduction
<1> QED
  BY <1>2

\* A request that changes what it has under way changes the sum by as much.
LEMMA SumChanged ==
  ASSUME NEW S, IsFiniteSet(S), NEW f, NEW g, NEW x \in S,
         \A y \in S : f[y] \in Int /\ g[y] \in Int, \A y \in S \ {x} : g[y] = f[y]
  PROVE  SumOf(g, S) = SumOf(f, S) + g[x] - f[x]
<1>1. /\ SumOf(f, S) = f[x] + SumOf(f, S \ {x})
      /\ SumOf(g, S) = g[x] + SumOf(g, S \ {x})
  BY SumRemove
<1>2. IsFiniteSet(S \ {x})
  BY FS_Subset
<1>3. SumOf(f, S \ {x}) = SumOf(g, S \ {x}) /\ SumOf(f, S \ {x}) \in Int
  BY <1>2, SumSame, SumInt
<1> QED
  BY <1>1, <1>3

\* Requests that have at most m under way have that many times m together.
LEMMA SumBounded ==
  ASSUME NEW S, IsFiniteSet(S), NEW f, NEW m \in Nat, \A x \in S : f[x] \in 0 .. m
  PROVE  SumOf(f, S) \in 0 .. Cardinality(S) * m
<1> DEFINE Good == {s \in SUBSET S : SumOf(f, s) \in 0 .. Cardinality(s) * m}
<1>1. ASSUME NEW s \in SUBSET S, \A t \in SUBSET s : t # s => t \in Good
      PROVE  s \in Good
  <2>1. CASE s = {}
    <3>1. SumOf(f, {}) = 0 /\ Cardinality({}) * m = 0
      BY SumEmpty, FS_EmptySet
    <3> QED
      BY <2>1, <3>1
  <2>2. CASE s # {}
    <3> DEFINE c == Picked(s)
               r == s \ {c}
    <3>1. c \in s /\ IsFiniteSet(s) /\ IsFiniteSet(r) /\ r # s /\ r \subseteq s
      BY <2>2, PickedIn, FS_Subset
    <3>2. /\ SumOf(f, s) = f[c] + SumOf(f, r)
          /\ Cardinality(s) = Cardinality(r) + 1
          /\ Cardinality(r) \in Nat
      <4>1. SumOf(f, s) = f[c] + SumOf(f, r)
        BY <2>2, <3>1, SumPicked
      <4>2. Cardinality(r) \in Nat
        BY <3>1, FS_CardinalityType
      <4>3. Cardinality(s) = Cardinality(r) + 1
        <5> HIDE DEF c
        <5>1. Cardinality(s \ {c}) = Cardinality(s) - 1 /\ Cardinality(s) \in Nat
          BY <3>1, FS_RemoveElement, FS_CardinalityType
        <5> QED BY <5>1
      <4> QED BY <4>1, <4>2, <4>3
    <3>3. SumOf(f, r) \in 0 .. Cardinality(r) * m
      <4> HIDE DEF r
      <4> QED BY <1>1, <3>1
    <3>4. f[c] \in 0 .. m
      BY <3>1
    <3> HIDE DEF c, r
    <3>5. Cardinality(s) * m = Cardinality(r) * m + m /\ Cardinality(r) * m \in Nat
      <4> DEFINE k == Cardinality(r)
      <4>1. k \in Nat /\ Cardinality(s) = k + 1
        BY <3>2
      <4> HIDE DEF k
      <4>2. (k + 1) * m = k * m + m /\ k * m \in Nat
        BY <4>1
      <4> QED BY <4>1, <4>2 DEF k
    <3> QED
      BY <3>2, <3>3, <3>4, <3>5
  <2> QED
    BY <2>1, <2>2
<1>2. SUBSET S \subseteq Good
  <2> HIDE DEF Good
  <2> QED BY <1>1, SubsetInduction
<1> QED
  BY <1>2

\* Requests that have nothing under way have nothing together.
LEMMA SumOfZeros ==
  ASSUME NEW S, IsFiniteSet(S), NEW f, \A x \in S : f[x] = 0
  PROVE  SumOf(f, S) = 0
<1>1. Cardinality(S) \in Nat
  BY FS_CardinalityType
<1>2. Cardinality(S) * 0 = 0
  BY <1>1
<1>3. SumOf(f, S) \in 0 .. Cardinality(S) * 0
  BY SumBounded
<1> QED
  BY <1>2, <1>3

\* The more each request has under way, the more they have together.
LEMMA SumLe ==
  ASSUME NEW S, IsFiniteSet(S), NEW f, NEW g,
         \A x \in S : f[x] \in Int /\ g[x] \in Int /\ f[x] <= g[x]
  PROVE  SumOf(f, S) <= SumOf(g, S)
<1> DEFINE Good == {s \in SUBSET S : SumOf(f, s) <= SumOf(g, s)}
<1>1. ASSUME NEW s \in SUBSET S, \A t \in SUBSET s : t # s => t \in Good
      PROVE  s \in Good
  <2>1. CASE s = {}
    BY <2>1, SumEmpty
  <2>2. CASE s # {}
    <3> DEFINE c == Picked(s)
               r == s \ {c}
    <3>1. c \in s /\ IsFiniteSet(s) /\ IsFiniteSet(r) /\ r # s /\ r \subseteq s
      BY <2>2, PickedIn, FS_Subset
    <3>2. SumOf(f, s) = f[c] + SumOf(f, r) /\ SumOf(g, s) = g[c] + SumOf(g, r)
      BY <2>2, <3>1, SumPicked
    <3>3. SumOf(f, r) <= SumOf(g, r)
      <4> HIDE DEF r
      <4> QED
        BY <1>1, <3>1
    <3> HIDE DEF c, r
    <3>4. SumOf(f, r) \in Int /\ SumOf(g, r) \in Int
      BY <3>1, SumInt
    <3>5. f[c] \in Int /\ g[c] \in Int /\ f[c] <= g[c]
      BY <3>1
    <3>6. SumOf(f, s) <= SumOf(g, s)
      BY <3>2, <3>3, <3>4, <3>5
    <3> QED
      BY <3>6
  <2> QED
    BY <2>1, <2>2
<1>2. SUBSET S \subseteq Good
  <2> HIDE DEF Good
  <2> QED
    BY <1>1, SubsetInduction
<1> QED
  BY <1>2

\* Natural numbers sum up to one.
LEMMA SumNat ==
  ASSUME NEW S, IsFiniteSet(S), NEW f, \A x \in S : f[x] \in Nat
  PROVE  SumOf(f, S) \in Nat
<1> DEFINE z == [x \in S |-> 0]
<1>1. \A x \in S : z[x] = 0
  OBVIOUS
<1> HIDE DEF z
<1>2. SumOf(z, S) = 0
  BY <1>1, SumOfZeros
<1>3. SumOf(z, S) <= SumOf(f, S)
  BY <1>1, SumLe
<1>4. SumOf(f, S) \in Int
  BY SumInt
<1> QED
  BY <1>2, <1>3, <1>4

\* Less is summed up over less, where nothing is negative.
LEMMA SumSubset ==
  ASSUME NEW T, IsFiniteSet(T), NEW S \in SUBSET T, NEW f, \A x \in T : f[x] \in Nat
  PROVE  SumOf(f, S) <= SumOf(f, T)
<1> DEFINE Good == {t \in SUBSET T : SumOf(f, S \cap t) <= SumOf(f, t)}
<1>1. ASSUME NEW t \in SUBSET T, \A s \in SUBSET t : s # t => s \in Good
      PROVE  t \in Good
  <2>1. CASE t = {}
    BY <2>1, SumEmpty
  <2>2. CASE t # {}
    <3> DEFINE x == Picked(t)
               r == t \ {x}
    <3>1. x \in t /\ IsFiniteSet(t) /\ IsFiniteSet(r) /\ IsFiniteSet(S \cap t)
      BY <2>2, PickedIn, FS_Subset
    <3>2. r \in Good
      BY <1>1, <3>1
    <3> HIDE DEF x
    <3>3. SumOf(f, t) = f[x] + SumOf(f, r)
      <4>1. \A y \in t : f[y] \in Int
        OBVIOUS
      <4> QED
        BY <3>1, <4>1, SumRemove
    <3>4. SumOf(f, S \cap t) \in Nat /\ SumOf(f, r) \in Nat /\ SumOf(f, S \cap r) \in Nat
      <4>1. IsFiniteSet(S \cap r)
        BY <3>1, FS_Subset
      <4> QED
        BY <3>1, <4>1, SumNat
    <3>5. CASE x \in S
      <4>1. (S \cap t) \ {x} = S \cap r /\ x \in S \cap t
        BY <3>1, <3>5
      <4>2. \A y \in S \cap t : f[y] \in Int
        OBVIOUS
      <4>3. SumOf(f, S \cap t) = f[x] + SumOf(f, S \cap r)
        BY <3>1, <4>1, <4>2, SumRemove
      <4> QED
        BY <3>1, <3>2, <3>3, <3>4, <4>3
    <3>6. CASE x \notin S
      <4>1. S \cap t = S \cap r
        BY <3>6
      <4>2. SumOf(f, S \cap r) <= SumOf(f, r) /\ f[x] \in Nat
        BY <3>1, <3>2
      <4> HIDE DEF r, Good
      <4>3. SumOf(f, S \cap r) <= f[x] + SumOf(f, r)
        BY <3>4, <4>2
      <4>4. SumOf(f, S \cap t) <= SumOf(f, t)
        BY <3>3, <4>1, <4>3
      <4> QED
        BY <4>4 DEF Good
    <3> QED
      BY <3>5, <3>6
  <2> QED
    BY <2>1, <2>2
<1>2. SUBSET T \subseteq Good
  <2> HIDE DEF Good
  <2> QED
    BY <1>1, SubsetInduction
<1>3. T \in Good /\ S \cap T = S
  <2> HIDE DEF Good
  <2> QED
    BY <1>2
<1> QED
  BY <1>3

\* A finite set of numbers that is not empty has a greatest one.
LEMMA MaxOf ==
  ASSUME NEW S, IsFiniteSet(S), S # {}, S \subseteq Int
  PROVE  Max(S) \in S /\ \A y \in S : Max(S) >= y
<1> DEFINE Good == {s \in SUBSET S : s = {} \/ \E x \in s : \A y \in s : x >= y}
<1>1. ASSUME NEW s \in SUBSET S, \A t \in SUBSET s : t # s => t \in Good
      PROVE  s \in Good
  <2>1. CASE s = {}
    BY <2>1
  <2>2. CASE s # {}
    <3>1. PICK z \in s : TRUE
      BY <2>2
    <3>2. s \ {z} \in Good
      BY <1>1, <3>1
    <3>3. CASE s = {z}
      BY <3>1, <3>3
    <3>4. CASE s \ {z} # {}
      <4>1. PICK x \in s \ {z} : \A y \in s \ {z} : x >= y
        BY <3>2, <3>4
      <4>2. x >= z \/ z >= x
        BY <3>1, <4>1
      <4>3. CASE x >= z
        BY <3>1, <4>1, <4>3
      <4>4. CASE z >= x
        <5>1. \A y \in s : z >= y
          BY <3>1, <4>1, <4>4
        <5> QED
          BY <3>1, <5>1
      <4> QED
        BY <4>2, <4>3, <4>4
    <3> QED
      BY <3>1, <3>3, <3>4
  <2> QED
    BY <2>1, <2>2
<1>2. SUBSET S \subseteq Good
  <2> HIDE DEF Good
  <2> QED
    BY <1>1, SubsetInduction
<1>3. \E x \in S : \A y \in S : x >= y
  <2>1. S \in Good
    <3> HIDE DEF Good
    <3> QED
      BY <1>2
  <2> QED
    BY <2>1
<1> QED
  BY <1>3 DEF Max

-----------------------------------------------------------------------------
(* Token bucket                                                            *)

\* What the token bucket takes from the community modules is what they define.
LEMMA TokenOperators ==
  /\ Token!Most = Cardinality(TokenSlots) * Max(TokenScores)
  /\ Token!Max(TokenScores) = Max(TokenScores)
  /\ Token!ConstantsAssumption => IsFiniteSet(TokenSlots) /\ IsFiniteSet(TokenScores)
<1>1. Token!Cardinality(TokenSlots) = Cardinality(TokenSlots)
  BY DEF Cardinality, Token!Cardinality
<1>2. Token!Max(TokenScores) = Max(TokenScores)
  BY DEF Max, Token!Max
<1>3. Token!ConstantsAssumption => IsFiniteSet(TokenSlots) /\ IsFiniteSet(TokenScores)
  BY DEF Token!ConstantsAssumption, IsFiniteSet, Token!IsFiniteSet
<1> QED
  BY <1>1, <1>2, <1>3 DEF Token!Most

\* The highest score is one of them.
LEMMA MaxScore ==
  ASSUME Token!ConstantsAssumption
  PROVE  /\ Max(TokenScores) \in Nat \ {0}
         /\ \A score \in TokenScores : score <= Max(TokenScores)
<1>1. IsFiniteSet(TokenScores) /\ TokenScores # {} /\ TokenScores \subseteq Int
  BY TokenOperators DEF Token!ConstantsAssumption
<1>2. Max(TokenScores) \in TokenScores /\ \A y \in TokenScores : Max(TokenScores) >= y
  BY <1>1, MaxOf
<1> QED
  BY <1>2 DEF Token!ConstantsAssumption

\* What the accepted requests have left in the counter: what refused ones are
\* about to take off is not theirs.
Consumed == counter - Token!InFlight

\* What it holds is compared with what accepted requests alone would have left.
\* It falls short of it by what refused requests gave back after an interval had
\* taken it already, and exceeds it only by what redis failed to take off.
TokenInv ==
  /\ undoing \in [TokenSlots -> TokenScores \cup {0}]
  /\ counter \in Int
  /\ admitted \in Nat
  /\ failures \in 0 .. MaxFailures
  /\ failures = 0 => Consumed <= admitted
  /\ admitted <= Consumed + Token!Most
  /\ Consumed <= tokenCapacity + failures * Max(TokenScores)
  /\ Token!OverAdmissionIsBounded

\* What refused requests have under way is a sum of the kind above.
LEMMA InFlightSum ==
  /\ Token!InFlight = SumOf(undoing, TokenSlots)
  /\ Token!InFlight' = SumOf(undoing', TokenSlots)
BY DEF Token!InFlight, SumOf, MapThenSumSet, MapThenFoldSet, Token!MapThenSumSet,
   Token!MapThenFoldSet

\* Refused requests under way have at most their number times the highest score.
LEMMA InFlightBounded ==
  ASSUME Token!ConstantsAssumption, undoing \in [TokenSlots -> TokenScores \cup {0}]
  PROVE  /\ Token!Most \in Nat
         /\ Token!InFlight \in 0 .. Token!Most
<1>1. ASSUME NEW p \in TokenSlots
      PROVE  undoing[p] \in 0 .. Max(TokenScores)
  <2>1. Max(TokenScores) \in Nat /\ undoing[p] \in TokenScores \cup {0}
    BY MaxScore
  <2>2. undoing[p] \in Nat
    <3>1. TokenScores \cup {0} \subseteq Nat
      BY DEF Token!ConstantsAssumption
    <3> QED
      BY <2>1, <3>1
  <2>3. undoing[p] <= Max(TokenScores)
    BY <2>1, MaxScore
  <2> QED
    BY <2>1, <2>2, <2>3
<1>2. Token!InFlight = SumOf(undoing, TokenSlots)
  BY InFlightSum
<1>3. Max(TokenScores) \in Nat /\ IsFiniteSet(TokenSlots) /\ Cardinality(TokenSlots) \in Nat
  BY MaxScore, TokenOperators, FS_CardinalityType DEF Token!ConstantsAssumption
<1>4. Token!InFlight \in 0 .. Cardinality(TokenSlots) * Max(TokenScores)
  BY <1>1, <1>2, <1>3, SumBounded
<1>5. Cardinality(TokenSlots) * Max(TokenScores) \in Nat
  <2> DEFINE n == Cardinality(TokenSlots)
             m == Max(TokenScores)
  <2>1. n \in Nat /\ m \in Nat
    BY <1>3
  <2> HIDE DEF n, m
  <2>2. n * m \in Nat
    BY <2>1
  <2> QED
    BY <2>2 DEF n, m
<1> QED
  BY <1>4, <1>5, TokenOperators

\* Every request adds its own to what is under way, and takes its own away.
LEMMA InFlightChanged ==
  ASSUME Token!ConstantsAssumption, undoing \in [TokenSlots -> TokenScores \cup {0}],
         NEW p \in TokenSlots, NEW s \in TokenScores \cup {0},
         undoing' = [undoing EXCEPT ![p] = s]
  PROVE  Token!InFlight' = Token!InFlight + s - undoing[p]
<1>1. Token!InFlight = SumOf(undoing, TokenSlots) /\ Token!InFlight' = SumOf(undoing', TokenSlots)
  BY InFlightSum
<1>2. \A y \in TokenSlots : undoing[y] \in Int /\ undoing'[y] \in Int
  <2>1. TokenScores \cup {0} \subseteq Int
    BY DEF Token!ConstantsAssumption
  <2> QED
    BY <2>1
<1>3. undoing'[p] = s /\ \A y \in TokenSlots \ {p} : undoing'[y] = undoing[y]
  OBVIOUS
<1>4. IsFiniteSet(TokenSlots)
  BY TokenOperators DEF Token!ConstantsAssumption
<1>5. SumOf(undoing', TokenSlots) = SumOf(undoing, TokenSlots) + undoing'[p] - undoing[p]
  <2> DEFINE f == undoing
             g == undoing'
  <2>1. /\ \A y \in TokenSlots : f[y] \in Int /\ g[y] \in Int
        /\ \A y \in TokenSlots \ {p} : g[y] = f[y]
    BY <1>2, <1>3
  <2> HIDE DEF f, g
  <2>2. SumOf(g, TokenSlots) = SumOf(f, TokenSlots) + g[p] - f[p]
    BY <1>4, <2>1, SumChanged
  <2> QED
    BY <2>2 DEF f, g
<1> QED
  BY <1>1, <1>3, <1>5

\* Token bucket: the invariant holds at first.
LEMMA TokenInit ==
  ASSUME Token!ConstantsAssumption, Token!Init
  PROVE  TokenInv
<1>1. undoing \in [TokenSlots -> TokenScores \cup {0}]
  BY DEF Token!Init
<1>2. Token!Most \in Nat /\ Token!InFlight \in 0 .. Token!Most
  BY <1>1, InFlightBounded
<1>3. Token!InFlight = 0
  <2>1. Token!InFlight = SumOf(undoing, TokenSlots)
    BY InFlightSum
  <2>2. \A p \in TokenSlots : undoing[p] = 0
    BY DEF Token!Init
  <2> QED
    BY <2>1, <2>2, SumOfZeros, TokenOperators DEF Token!ConstantsAssumption
<1>4. 0 * Max(TokenScores) = 0
  BY MaxScore
<1> QED
  BY <1>1, <1>2, <1>3, <1>4
  DEF Token!Init, Token!ConstantsAssumption, TokenInv, Consumed, Token!OverAdmissionIsBounded

\* Token bucket: a request that takes its tokens keeps it.
LEMMA TokenRequest ==
  ASSUME Token!ConstantsAssumption, TokenInv,
         NEW p \in TokenSlots, NEW score \in TokenScores, Token!request(p, score)
  PROVE  TokenInv'
<1>1. /\ Token!Most \in Nat /\ Token!InFlight \in 0 .. Token!Most
      /\ Max(TokenScores) \in Nat /\ score \in Nat /\ tokenCapacity \in Nat
  BY InFlightBounded, MaxScore DEF TokenInv, Token!ConstantsAssumption
<1>2. failures * Max(TokenScores) \in Nat
  <2> DEFINE m == Max(TokenScores)
  <2>1. failures \in Nat /\ m \in Nat
    BY <1>1 DEF TokenInv, Token!ConstantsAssumption
  <2> HIDE DEF m
  <2>2. failures * m \in Nat
    BY <2>1
  <2> QED
    BY <2>2 DEF m
<1>3. CASE Token!Accepted(score)
  <2>1. Token!InFlight' = Token!InFlight
    <3>1. undoing' = [undoing EXCEPT ![p] = 0] /\ undoing[p] = 0
      BY <1>3 DEF Token!request
    <3>2. Token!InFlight' = Token!InFlight + 0 - 0
      BY <3>1, InFlightChanged DEF TokenInv
    <3> QED
      BY <1>1, <3>2
  <2>2. /\ counter' = counter + score /\ counter + score <= tokenCapacity
        /\ admitted' = admitted + score /\ failures' = failures
        /\ undoing' \in [TokenSlots -> TokenScores \cup {0}]
    BY <1>3 DEF Token!request, Token!Accepted, TokenInv
  <2>3. Token!Most' = Token!Most
    BY DEF Token!Most
  <2> DEFINE k == failures * Max(TokenScores)
  <2>4. k' = k
    BY <2>2
  <2>5. k \in Nat
    BY <1>2
  <2>6. Consumed <= tokenCapacity + k
    BY DEF TokenInv
  <2> HIDE DEF k
  <2>7. /\ failures' = 0 => Consumed' <= admitted'
        /\ admitted' <= Consumed' + Token!Most'
        /\ Consumed' <= tokenCapacity + k'
        /\ admitted' <= tokenCapacity + Token!Most'
    BY <1>1, <2>1, <2>2, <2>3, <2>4, <2>5, <2>6 DEF TokenInv, Consumed
  <2> QED
    BY <1>1, <2>2, <2>7 DEF TokenInv, Token!OverAdmissionIsBounded, k
<1>4. CASE ~Token!Accepted(score)
  <2>1. Token!InFlight' = Token!InFlight + score
    <3>1. undoing' = [undoing EXCEPT ![p] = score] /\ undoing[p] = 0
      BY <1>4 DEF Token!request
    <3>2. Token!InFlight' = Token!InFlight + score - 0
      BY <3>1, InFlightChanged DEF TokenInv
    <3> QED
      BY <1>1, <3>2
  <2>2. /\ counter' = counter + score /\ admitted' = admitted /\ failures' = failures
        /\ undoing' \in [TokenSlots -> TokenScores \cup {0}]
    BY <1>4 DEF Token!request, TokenInv
  <2>3. Consumed' = Consumed
    BY <1>1, <2>1, <2>2 DEF Consumed, TokenInv
  <2> QED
    BY <1>1, <2>2, <2>3 DEF TokenInv, Token!OverAdmissionIsBounded, Token!Most
<1> QED
  BY <1>3, <1>4

\* Token bucket: tokens that are put back keep it.
LEMMA TokenReject ==
  ASSUME Token!ConstantsAssumption, TokenInv, NEW p \in TokenSlots, Token!Reject(p)
  PROVE  TokenInv'
<1>1. Token!Most \in Nat /\ Token!InFlight \in 0 .. Token!Most /\ undoing[p] \in Nat
  <2>1. undoing[p] \in TokenScores \cup {0} /\ TokenScores \cup {0} \subseteq Nat
    BY DEF TokenInv, Token!ConstantsAssumption
  <2> QED
    BY <2>1, InFlightBounded DEF TokenInv
<1>2. Token!InFlight' = Token!InFlight + 0 - undoing[p]
  BY InFlightChanged DEF TokenInv, Token!Reject
<1>3. Consumed' = Consumed
  BY <1>1, <1>2 DEF Consumed, TokenInv, Token!Reject
<1> QED
  BY <1>1, <1>3 DEF TokenInv, Token!OverAdmissionIsBounded, Token!Most, Token!Reject

\* Token bucket: tokens that fail to be put back keep it.
LEMMA TokenRejectFails ==
  ASSUME Token!ConstantsAssumption, TokenInv, NEW p \in TokenSlots, Token!RejectFails(p)
  PROVE  TokenInv'
<1>1. /\ Token!Most \in Nat /\ Token!InFlight \in 0 .. Token!Most
      /\ undoing[p] \in 1 .. Max(TokenScores) /\ Max(TokenScores) \in Nat
      /\ tokenCapacity \in Nat
  <2>1. undoing[p] \in TokenScores /\ undoing[p] \in Nat \ {0} /\ tokenCapacity \in Nat
    BY DEF TokenInv, Token!ConstantsAssumption, Token!RejectFails
  <2>2. Max(TokenScores) \in Nat /\ undoing[p] <= Max(TokenScores)
    BY <2>1, MaxScore
  <2>3. Token!Most \in Nat /\ Token!InFlight \in 0 .. Token!Most
    BY InFlightBounded DEF TokenInv
  <2>4. undoing[p] \in 1 .. Max(TokenScores)
    BY <2>1, <2>2
  <2> QED
    BY <2>1, <2>2, <2>3, <2>4
<1>2. Token!InFlight' = Token!InFlight + 0 - undoing[p]
  BY InFlightChanged DEF TokenInv, Token!RejectFails
<1>3. Consumed' = Consumed + undoing[p]
  BY <1>1, <1>2 DEF Consumed, TokenInv, Token!RejectFails
<1>4. Token!Most' = Token!Most
  BY DEF Token!Most
<1>5. failures' * Max(TokenScores) = failures * Max(TokenScores) + Max(TokenScores)
      /\ failures * Max(TokenScores) \in Nat
  <2> DEFINE m == Max(TokenScores)
  <2>1. failures \in Nat /\ m \in Nat /\ failures' = failures + 1
    BY <1>1 DEF TokenInv, Token!ConstantsAssumption, Token!RejectFails
  <2> HIDE DEF m
  <2>2. (failures + 1) * m = failures * m + m /\ failures * m \in Nat
    BY <2>1
  <2> QED
    BY <2>1, <2>2 DEF m
<1>6. failures' \in 0 .. MaxFailures /\ failures' # 0
  BY DEF TokenInv, Token!ConstantsAssumption, Token!RejectFails
<1>7. /\ undoing' \in [TokenSlots -> TokenScores \cup {0}]
      /\ counter' = counter /\ admitted' = admitted
  BY DEF TokenInv, Token!RejectFails
<1>8. Consumed \in Int /\ admitted \in Nat
  BY <1>1 DEF TokenInv, Consumed
<1>9. Consumed' <= tokenCapacity + failures' * Max(TokenScores)
  <2> DEFINE k == failures * Max(TokenScores)
             n == failures' * Max(TokenScores)
  <2>1. Consumed <= tokenCapacity + k /\ n = k + Max(TokenScores) /\ k \in Nat
    BY <1>5 DEF TokenInv
  <2> HIDE DEF k, n
  <2>2. Consumed' <= tokenCapacity + n
    BY <1>1, <1>3, <1>8, <2>1
  <2> QED
    BY <2>2 DEF n
<1>10. admitted' <= Consumed' + Token!Most'
  BY <1>1, <1>3, <1>4, <1>7, <1>8 DEF TokenInv
<1> QED
  BY <1>4, <1>6, <1>7, <1>9, <1>10 DEF TokenInv, Token!OverAdmissionIsBounded

\* Token bucket: refilling keeps it.
LEMMA TokenRefill ==
  ASSUME Token!ConstantsAssumption, TokenInv, Token!resetRates
  PROVE  TokenInv'
<1>1. /\ Token!Most \in Nat /\ Token!InFlight \in 0 .. Token!Most
      /\ tokenCapacity \in Nat /\ fillRate \in Nat \ {0} /\ Max(TokenScores) \in Nat
  BY InFlightBounded, MaxScore DEF TokenInv, Token!ConstantsAssumption
<1>2. Token!InFlight' = Token!InFlight /\ Token!Most' = Token!Most /\ failures' = failures
  BY InFlightSum DEF Token!Most, Token!resetRates
<1>3. failures * Max(TokenScores) \in Nat
  <2> DEFINE m == Max(TokenScores)
  <2>1. failures \in Nat /\ m \in Nat
    BY <1>1 DEF TokenInv, Token!ConstantsAssumption
  <2> HIDE DEF m
  <2>2. failures * m \in Nat
    BY <2>1
  <2> QED
    BY <2>2 DEF m
<1> DEFINE k == failures * Max(TokenScores)
<1>4. k' = k /\ k \in Nat /\ Consumed <= tokenCapacity + k
  BY <1>2, <1>3 DEF TokenInv
<1> HIDE DEF k
<1>5. /\ counter' = (IF counter < fillRate THEN 0 ELSE counter - fillRate)
      /\ admitted' = (IF admitted < fillRate THEN 0 ELSE admitted - fillRate)
  BY DEF Token!resetRates, Token!Refilled
<1>6. /\ counter' \in Int /\ admitted' \in Nat
      /\ failures' = 0 => Consumed' <= admitted'
      /\ admitted' <= Consumed' + Token!Most'
      /\ Consumed' <= tokenCapacity + k'
      /\ admitted' <= tokenCapacity + Token!Most'
  <2>1. CASE counter < fillRate
    BY <1>1, <1>2, <1>4, <1>5, <2>1 DEF TokenInv, Consumed, Token!OverAdmissionIsBounded
  <2>2. CASE ~(counter < fillRate)
    BY <1>1, <1>2, <1>4, <1>5, <2>2 DEF TokenInv, Consumed, Token!OverAdmissionIsBounded
  <2> QED
    BY <2>1, <2>2
<1> QED
  BY <1>2, <1>6 DEF TokenInv, Token!OverAdmissionIsBounded, Token!resetRates, k

\* Token bucket: every step keeps it.
LEMMA TokenNext ==
  ASSUME Token!ConstantsAssumption, TokenInv, [Token!Next]_(Token!vars)
  PROVE  TokenInv'
<1>1. CASE UNCHANGED Token!vars
  <2>1. Token!InFlight' = Token!InFlight
    BY <1>1, InFlightSum DEF Token!vars
  <2> QED
    BY <1>1, <2>1 DEF Token!vars, TokenInv, Consumed, Token!Most, Token!OverAdmissionIsBounded
<1>2. CASE Token!Next
  BY <1>2, TokenRequest, TokenReject, TokenRejectFails, TokenRefill DEF Token!Next
<1> QED
  BY <1>1, <1>2

\* What the counter can hold, and what quota() answers, follow.
LEMMA TokenAccounts ==
  ASSUME Token!ConstantsAssumption, TokenInv
  PROVE  Token!TokensAreAccounted
<1>1. /\ Token!Most \in Nat /\ Token!InFlight \in 0 .. Token!Most
      /\ tokenCapacity \in Nat /\ Max(TokenScores) \in Nat
      /\ counter \in Int /\ admitted \in Nat
  BY InFlightBounded, MaxScore DEF TokenInv, Token!ConstantsAssumption
<1>2. failures * Max(TokenScores) <= MaxFailures * Max(TokenScores)
      /\ failures * Max(TokenScores) \in Nat
      /\ MaxFailures * Max(TokenScores) \in Nat
  <2> DEFINE m == Max(TokenScores)
             d == MaxFailures - failures
  <2>1. failures \in Nat /\ m \in Nat /\ d \in Nat /\ MaxFailures = failures + d
    BY <1>1 DEF TokenInv, Token!ConstantsAssumption
  <2> HIDE DEF m, d
  <2>2. (failures + d) * m = failures * m + d * m /\ failures * m \in Nat /\ d * m \in Nat
    BY <2>1
  <2>3. MaxFailures * m = failures * m + d * m
    BY <2>1, <2>2
  <2> DEFINE a == failures * m
             b == d * m
             c == MaxFailures * m
  <2>4. a \in Nat /\ b \in Nat /\ c = a + b
    BY <2>2, <2>3
  <2> HIDE DEF a, b, c
  <2>5. a <= c /\ a \in Nat /\ c \in Nat
    BY <2>4
  <2> QED
    BY <2>5 DEF a, c, m
<1> DEFINE k == failures * Max(TokenScores)
           n == MaxFailures * Max(TokenScores)
<1>3. k <= n /\ k \in Nat /\ n \in Nat /\ Consumed <= tokenCapacity + k
  BY <1>2 DEF TokenInv
<1> HIDE DEF k, n
<1>4. counter \in -Token!Most .. tokenCapacity + Token!Most + n
  BY <1>1, <1>3 DEF TokenInv, Consumed
<1>5. Token!TypeOK
  BY <1>4, TokenOperators DEF Token!TypeOK, TokenInv, n
<1>6. Token!NoTokenIsLost
  BY <1>1 DEF Token!NoTokenIsLost, TokenInv, Consumed, Token!quota, Token!calculateRemaining
<1> QED
  BY <1>5, <1>6 DEF Token!TokensAreAccounted, TokenInv

\* Token bucket: for any requests, scores, capacity and fill rate, however
\* requests, refusals that take their score off, ones that fail to, and intervals
\* interleave, accepted requests exceed the capacity at most by what requests
\* under way can add, and unless redis fails quota() tells no less than what
\* accepted requests and refusals under way leave.
THEOREM TokensAccounted ==
  ASSUME Token!ConstantsAssumption
  PROVE  Token!Spec => []TokensAreAccounted
<1>1. Token!Init => TokenInv
  BY TokenInit
<1>2. TokenInv /\ [Token!Next]_(Token!vars) => TokenInv'
  BY TokenNext
<1>3. TokenInv => TokensAreAccounted
  BY TokenAccounts DEF TokensAreAccounted
<1> QED
  BY <1>1, <1>2, <1>3, PTL DEF Token!Spec

-----------------------------------------------------------------------------
(* Fixed windows                                                           *)

\* A time is in its window, which began before it.
LEMMA InWindow ==
  ASSUME NEW t \in Nat, NEW l \in Nat \ {0}
  PROVE  /\ t \div l \in 0 .. t
         /\ (t \div l) * l <= t
         /\ t < (t \div l + 1) * l
OBVIOUS

\* A counter given a time to live now lives until a second after its window ended,
\* and the window that it is now has not ended.
LEMMA WindowFacts ==
  ASSUME Fixed!ConstantsAssumption, NEW w \in Fixed!Windows
  PROVE  /\ FixedLength[w] \in Nat \ {0} /\ Second \in Nat \ {0} /\ Limit[w] \in Nat
         /\ \A b \in Fixed!Buckets : Fixed!End(w, b) \in Nat
         /\ \A t \in Fixed!Buckets : /\ Fixed!Bucket(w, t) \in Fixed!Buckets
                                     /\ t < Fixed!End(w, Fixed!Bucket(w, t))
                                     /\ Fixed!End(w, Fixed!Bucket(w, t))
                                          <= t + Fixed!TimeToLive(w)
<1>1. /\ FixedLength[w] \in Nat \ {0} /\ Second \in Nat \ {0}
      /\ Limit[w] \in Nat /\ FixedMaxTime \in Nat
  BY DEF Fixed!ConstantsAssumption, Fixed!Windows
<1> DEFINE l == FixedLength[w]
<1>2. ASSUME NEW b \in Fixed!Buckets
      PROVE  Fixed!End(w, b) \in Nat
  <2>1. b \in Nat /\ l \in Nat /\ Second \in Nat
    BY <1>1 DEF Fixed!Buckets
  <2> HIDE DEF l
  <2>2. (b + 1) * l \in Nat
    BY <2>1
  <2>3. (b + 1) * l + Second \in Nat
    BY <2>1, <2>2
  <2> QED
    BY <2>3 DEF Fixed!End, l
<1>3. ASSUME NEW t \in Fixed!Buckets
      PROVE  /\ Fixed!Bucket(w, t) \in Fixed!Buckets
             /\ t < Fixed!End(w, Fixed!Bucket(w, t))
             /\ Fixed!End(w, Fixed!Bucket(w, t)) <= t + Fixed!TimeToLive(w)
  <2>1. t \in 0 .. FixedMaxTime /\ l \in Nat \ {0} /\ Second \in Nat /\ FixedMaxTime \in Nat
    BY <1>1 DEF Fixed!Buckets
  <2> DEFINE b == t \div l
  <2> HIDE DEF l
  <2>2. b \in 0 .. t /\ b * l <= t /\ t < (b + 1) * l
    BY <2>1, InWindow
  <2> HIDE DEF b
  <2>3. (b + 1) * l = b * l + l /\ b * l \in Nat
    BY <2>1, <2>2
  <2> DEFINE k == b * l
             e == (b + 1) * l
  <2>4. e = k + l /\ k \in Nat /\ k <= t /\ t < e
    BY <2>2, <2>3
  <2> HIDE DEF k, e
  <2>5. t < e + Second /\ e + Second <= t + (l + Second)
    BY <2>1, <2>4
  <2>6. b \in 0 .. FixedMaxTime
    BY <2>1, <2>2
  <2> QED
    BY <2>5, <2>6 DEF e, b, l, Fixed!End, Fixed!Bucket, Fixed!Buckets, Fixed!TimeToLive
<1> QED
  BY <1>1, <1>2, <1>3

\* What a call has added to a counter, and what of it nothing speaks against yet.
AddedBy(w, b, c) ==
  IF c.step \in w + 1 .. 2 * Fixed!N + w /\ Fixed!Bucket(w, c.at) = b THEN c.score ELSE 0

PromisedTo(w, b, c) ==
  IF c.step \in w + 1 .. 2 * Fixed!N /\ ~c.over /\ Fixed!Bucket(w, c.at) = b THEN c.score ELSE 0

Promised(w, b) == SumOf([p \in Slots |-> PromisedTo(w, b, pending[p])], Slots)

\* One of them is about to give the counter a time to live.
Expiring(w, b) ==
  \E p \in Slots : Fixed!Bucket(w, pending[p].at) = b /\ pending[p].step \in w + 1 .. Fixed!N + w

\* As long as a counter does not expire it holds what was accepted and is under
\* way, the calls that can still be accepted fit into what is left, and those
\* that have added to it can rely on it.
CounterInv(w, b) ==
  /\ counters[w][b] >= accepted[w][b] + Fixed!InFlight(w, b)
  /\ lapses = 0 => counters[w][b] = accepted[w][b] + Fixed!InFlight(w, b)
  /\ accepted[w][b] + Promised(w, b) <= Limit[w]
  /\ \A p \in Slots :
       pending[p].step > w /\ Fixed!Bucket(w, pending[p].at) = b => expiry[w][b] # Fixed!Gone
  /\ lapses = 0 /\ expiry[w][b] = Fixed!Never => Expiring(w, b)

\* No counter expires before a second after the end of its window.
WindowInv(w, b) ==
  /\ accepted[w][b] <= Limit[w]
  /\ expiry[w][b] \in {Fixed!Never, Fixed!Gone} \/ expiry[w][b] >= Fixed!End(w, b)
  /\ Fixed!Live(w, b) => CounterInv(w, b)

FixedInv ==
  /\ Fixed!TypeOK
  /\ \A p \in Slots : pending[p].at <= time
  /\ \A w \in Fixed!Windows, b \in Fixed!Buckets : WindowInv(w, b)

\* Numbers of windows and times, and what calls have under way.
LEMMA AmountsAreNatural ==
  ASSUME Fixed!ConstantsAssumption, NEW w \in Fixed!Windows, NEW b, NEW c \in Fixed!Calls
  PROVE  /\ Fixed!N \in Nat \ {0} /\ w \in 1 .. Fixed!N
         /\ c.at \in Fixed!Buckets /\ c.score \in Nat /\ c.step \in 0 .. 3 * Fixed!N
         /\ AddedBy(w, b, c) \in Nat /\ PromisedTo(w, b, c) \in Nat
         /\ PromisedTo(w, b, c) <= AddedBy(w, b, c)
<1>1. Fixed!N \in Nat \ {0} /\ w \in 1 .. Fixed!N
  BY DEF Fixed!ConstantsAssumption, Fixed!N, Fixed!Windows
<1>2. c.at \in Fixed!Buckets /\ c.score \in Nat /\ c.step \in 0 .. 3 * Fixed!N
  <2>1. Scores \cup {0} \subseteq Nat
    BY DEF Fixed!ConstantsAssumption
  <2> QED
    BY <2>1 DEF Fixed!Calls
<1> QED
  BY <1>1, <1>2 DEF AddedBy, PromisedTo

\* There are finitely many calls.
LEMMA FiniteSlots ==
  ASSUME Fixed!ConstantsAssumption
  PROVE  IsFiniteSet(Slots)
BY DEF Fixed!ConstantsAssumption, Fixed!IsFiniteSet, IsFiniteSet

\* Both are sums over the calls.
LEMMA SumsOfCalls ==
  ASSUME Fixed!ConstantsAssumption, Fixed!TypeOK, NEW w \in Fixed!Windows, NEW b
  PROVE  /\ Fixed!InFlight(w, b) = SumOf([p \in Slots |-> AddedBy(w, b, pending[p])], Slots)
         /\ Fixed!InFlight(w, b) \in Nat /\ Promised(w, b) \in Nat
         /\ Promised(w, b) <= Fixed!InFlight(w, b)
<1> DEFINE f == [p \in Slots |-> AddedBy(w, b, pending[p])]
           g == [p \in Slots |-> PromisedTo(w, b, pending[p])]
<1>1. Fixed!Added(w, b) = f
  BY DEF Fixed!Added, AddedBy
<1>2. Fixed!InFlight(w, b) = SumOf(Fixed!Added(w, b), Slots)
  BY DEF Fixed!InFlight, SumOf, MapThenSumSet, MapThenFoldSet, Fixed!MapThenSumSet,
     Fixed!MapThenFoldSet
<1>3. \A p \in Slots : f[p] \in Nat /\ g[p] \in Nat /\ g[p] <= f[p]
  BY AmountsAreNatural DEF Fixed!TypeOK
<1>4. Promised(w, b) = SumOf(g, Slots) /\ IsFiniteSet(Slots)
  BY FiniteSlots DEF Promised
<1> HIDE DEF f, g
<1>5. SumOf(f, Slots) \in Nat /\ SumOf(g, Slots) \in Nat
  BY <1>3, <1>4, SumNat
<1>6. SumOf(g, Slots) <= SumOf(f, Slots)
  <2>1. \A p \in Slots : f[p] \in Int /\ g[p] \in Int /\ g[p] <= f[p]
    BY <1>3
  <2> QED
    BY <1>4, <2>1, SumLe
<1> QED
  BY <1>1, <1>2, <1>4, <1>5, <1>6 DEF f

\* A call that moves on changes both by what it has itself.
LEMMA CallMoves ==
  ASSUME Fixed!ConstantsAssumption, Fixed!TypeOK, NEW p \in Slots, NEW c \in Fixed!Calls,
         pending' = [pending EXCEPT ![p] = c], NEW w \in Fixed!Windows, NEW b
  PROVE  /\ Fixed!InFlight(w, b)' =
              Fixed!InFlight(w, b) + AddedBy(w, b, c) - AddedBy(w, b, pending[p])
         /\ Promised(w, b)' = Promised(w, b) + PromisedTo(w, b, c) - PromisedTo(w, b, pending[p])
         /\ Promised(w, b)' <= Fixed!InFlight(w, b)'
<1> DEFINE f == [q \in Slots |-> AddedBy(w, b, pending[q])]
           g == [q \in Slots |-> PromisedTo(w, b, pending[q])]
           h == [q \in Slots |-> AddedBy(w, b, pending'[q])]
           k == [q \in Slots |-> PromisedTo(w, b, pending'[q])]
<1>1. \A q \in Slots : pending[q] \in Fixed!Calls /\ pending'[q] \in Fixed!Calls
  BY DEF Fixed!TypeOK
<1>2. pending'[p] = c /\ \A q \in Slots \ {p} : pending'[q] = pending[q]
  BY DEF Fixed!TypeOK
<1>3. /\ \A q \in Slots : f[q] \in Int /\ g[q] \in Int /\ h[q] \in Int /\ k[q] \in Int
      /\ \A q \in Slots \ {p} : h[q] = f[q] /\ k[q] = g[q]
      /\ f[p] = AddedBy(w, b, pending[p]) /\ h[p] = AddedBy(w, b, c)
      /\ g[p] = PromisedTo(w, b, pending[p]) /\ k[p] = PromisedTo(w, b, c)
  BY <1>1, <1>2, AmountsAreNatural
<1>4. /\ Fixed!InFlight(w, b) = SumOf(f, Slots) /\ Fixed!InFlight(w, b)' = SumOf(h, Slots)
      /\ Promised(w, b) = SumOf(g, Slots) /\ Promised(w, b)' = SumOf(k, Slots)
  <2>1. Fixed!Added(w, b) = f /\ Fixed!Added(w, b)' = h
    BY DEF Fixed!Added, AddedBy
  <2>2. Fixed!InFlight(w, b) = SumOf(Fixed!Added(w, b), Slots)
    BY DEF Fixed!InFlight, SumOf, MapThenSumSet, MapThenFoldSet, Fixed!MapThenSumSet,
       Fixed!MapThenFoldSet
  <2>3. Fixed!InFlight(w, b)' = SumOf(Fixed!Added(w, b)', Slots)
    BY DEF Fixed!InFlight, SumOf, MapThenSumSet, MapThenFoldSet, Fixed!MapThenSumSet,
       Fixed!MapThenFoldSet
  <2>4. Promised(w, b) = SumOf(g, Slots) /\ Promised(w, b)' = SumOf(k, Slots)
    BY DEF Promised, PromisedTo
  <2> HIDE DEF f, g, h, k
  <2> QED
    BY <2>1, <2>2, <2>3, <2>4
<1>5. IsFiniteSet(Slots)
  BY FiniteSlots
<1> HIDE DEF f, g, h, k
<1>6. SumOf(h, Slots) = SumOf(f, Slots) + h[p] - f[p]
  <2>1. /\ \A q \in Slots : f[q] \in Int /\ h[q] \in Int
        /\ \A q \in Slots \ {p} : h[q] = f[q]
    BY <1>3
  <2> QED
    BY <1>5, <2>1, SumChanged
<1>7. SumOf(k, Slots) = SumOf(g, Slots) + k[p] - g[p]
  <2>1. /\ \A q \in Slots : g[q] \in Int /\ k[q] \in Int
        /\ \A q \in Slots \ {p} : k[q] = g[q]
    BY <1>3
  <2> QED
    BY <1>5, <2>1, SumChanged
<1>8. SumOf(k, Slots) <= SumOf(h, Slots)
  <2>1. \A q \in Slots : k[q] \in Int /\ h[q] \in Int /\ k[q] <= h[q]
    BY <1>1, <1>3, AmountsAreNatural DEF h, k
  <2> QED
    BY <1>5, <2>1, SumLe
<1> QED
  BY <1>3, <1>4, <1>6, <1>7, <1>8

\* What the calls can count on after a step.
LEMMA SumsAfterwards ==
  ASSUME Fixed!ConstantsAssumption, Fixed!TypeOK', NEW w \in Fixed!Windows, NEW b
  PROVE  Promised(w, b)' \in Nat
<1> DEFINE k == [q \in Slots |-> PromisedTo(w, b, pending'[q])]
<1>1. \A q \in Slots : pending'[q] \in Fixed!Calls
  BY DEF Fixed!TypeOK
<1>2. Promised(w, b)' = SumOf(k, Slots)
  BY DEF Promised, PromisedTo
<1>3. \A q \in Slots : k[q] \in Nat
  BY <1>1, AmountsAreNatural
<1> HIDE DEF k
<1> QED
  BY <1>2, <1>3, FiniteSlots, SumNat

\* What incrBy and decrBy do to the counters.
Adding(v, B, n) ==
  /\ counters' \in [Fixed!Windows -> [Fixed!Buckets -> Int]]
  /\ expiry' \in [Fixed!Windows -> [Fixed!Buckets -> Int]]
  /\ \A w \in Fixed!Windows, b \in Fixed!Buckets :
       IF w = v /\ b = B
       THEN /\ counters'[w][b] = counters[w][b] + n
            /\ expiry'[w][b] = IF expiry[w][b] = Fixed!Gone THEN Fixed!Never ELSE expiry[w][b]
       ELSE counters'[w][b] = counters[w][b] /\ expiry'[w][b] = expiry[w][b]

\* That is what they do.
LEMMA CounterAdds ==
  ASSUME Fixed!TypeOK, NEW p \in Slots, NEW w \in Fixed!Windows, NEW n \in Int,
         Fixed!Bucket(w, pending[p].at) \in Fixed!Buckets, Fixed!Add(p, w, n)
  PROVE  Adding(w, Fixed!Bucket(w, pending[p].at), n)
<1> DEFINE B == Fixed!Bucket(w, pending[p].at)
<1>1. /\ counters' = [counters EXCEPT ![w][B] = @ + n]
      /\ expiry' = [expiry EXCEPT ![w][B] = IF @ = Fixed!Gone THEN Fixed!Never ELSE @]
      /\ B \in Fixed!Buckets
  BY DEF Fixed!Add
<1>2. /\ counters \in [Fixed!Windows -> [Fixed!Buckets -> Int]]
      /\ expiry \in [Fixed!Windows -> [Fixed!Buckets -> Int]]
      /\ Fixed!Never \in Int
  BY DEF Fixed!TypeOK, Fixed!Never
<1> HIDE DEF B
<1>3. Adding(w, B, n)
  BY <1>1, <1>2 DEF Adding
<1> QED
  BY <1>3 DEF B

\* Who has added to a counter, and who is about to give it a time to live.
HasAdded(w, b, c) == c.step > w /\ Fixed!Bucket(w, c.at) = b
Renews(w, b, c) == c.step \in w + 1 .. Fixed!N + w /\ Fixed!Bucket(w, c.at) = b

\* A step of a call adds to a counter what it has under way and what was accepted,
\* leaves no less to those who can still be accepted, and looks after the time to
\* live.
Accounts(w, b, old, c) ==
  /\ lapses' >= lapses
  /\ LET added == accepted'[w][b] - accepted[w][b] + AddedBy(w, b, c) - AddedBy(w, b, old) IN
     /\ counters'[w][b] - counters[w][b] >= added
     /\ lapses' = 0 => counters'[w][b] - counters[w][b] = added
  /\ \/ accepted'[w][b] + PromisedTo(w, b, c) <= accepted[w][b] + PromisedTo(w, b, old)
     \/ counters'[w][b] <= Limit[w]
  /\ \/ expiry'[w][b] # Fixed!Gone
     \/ /\ expiry'[w][b] = expiry[w][b]
        /\ HasAdded(w, b, c) => HasAdded(w, b, old)
  /\ lapses' = 0 /\ expiry'[w][b] = Fixed!Never =>
       \/ Renews(w, b, c)
       \/ expiry[w][b] = Fixed!Never /\ ~Renews(w, b, old)

\* Then it keeps what the counter is about.
LEMMA StepKeepsCounter ==
  ASSUME Fixed!ConstantsAssumption, Fixed!TypeOK, Fixed!TypeOK', NEW p \in Slots,
         NEW c \in Fixed!Calls, pending' = [pending EXCEPT ![p] = c],
         NEW w \in Fixed!Windows, NEW b \in Fixed!Buckets, CounterInv(w, b),
         Accounts(w, b, pending[p], c)
  PROVE  CounterInv(w, b)'
<1>1. /\ Fixed!InFlight(w, b)' =
           Fixed!InFlight(w, b) + AddedBy(w, b, c) - AddedBy(w, b, pending[p])
      /\ Promised(w, b)' = Promised(w, b) + PromisedTo(w, b, c) - PromisedTo(w, b, pending[p])
  BY CallMoves
<1>2. /\ Fixed!InFlight(w, b) \in Nat /\ Promised(w, b) \in Nat
      /\ Promised(w, b) <= Fixed!InFlight(w, b)
  BY SumsOfCalls
<1>4. Promised(w, b)' <= Fixed!InFlight(w, b)'
  BY CallMoves
<1>5. /\ pending[p] \in Fixed!Calls /\ pending'[p] = c
      /\ \A q \in Slots \ {p} : pending'[q] = pending[q]
      /\ counters[w][b] \in Int /\ counters'[w][b] \in Int
      /\ accepted[w][b] \in Nat /\ accepted'[w][b] \in Nat
      /\ lapses \in Nat /\ lapses' \in Nat
  BY DEF Fixed!TypeOK, Fixed!ConstantsAssumption
<1>6. /\ AddedBy(w, b, c) \in Nat /\ AddedBy(w, b, pending[p]) \in Nat
      /\ PromisedTo(w, b, c) \in Nat /\ PromisedTo(w, b, pending[p]) \in Nat
      /\ Limit[w] \in Nat
  BY <1>5, AmountsAreNatural, WindowFacts
<1>7. /\ counters'[w][b] >= accepted'[w][b] + Fixed!InFlight(w, b)'
      /\ lapses' = 0 => counters'[w][b] = accepted'[w][b] + Fixed!InFlight(w, b)'
  <2>1. counters[w][b] >= accepted[w][b] + Fixed!InFlight(w, b)
    BY DEF CounterInv
  <2>2. lapses' = 0 => lapses = 0
    BY <1>5 DEF Accounts
  <2>3. lapses' = 0 => counters[w][b] = accepted[w][b] + Fixed!InFlight(w, b)
    BY <2>2 DEF CounterInv
  <2>4. counters'[w][b] >= accepted'[w][b] + Fixed!InFlight(w, b)'
    BY <1>1, <1>2, <1>5, <1>6, <2>1 DEF Accounts
  <2>5. ASSUME lapses' = 0
        PROVE  counters'[w][b] = accepted'[w][b] + Fixed!InFlight(w, b)'
    BY <1>1, <1>2, <1>5, <1>6, <2>3, <2>5 DEF Accounts
  <2> QED
    BY <2>4, <2>5
<1>8. accepted'[w][b] + Promised(w, b)' <= Limit[w]
  <2>1. CASE counters'[w][b] <= Limit[w]
    BY <1>1, <1>2, <1>4, <1>5, <1>6, <1>7, <2>1
  <2>2. CASE accepted'[w][b] + PromisedTo(w, b, c)
               <= accepted[w][b] + PromisedTo(w, b, pending[p])
    BY <1>1, <1>2, <1>5, <1>6, <2>2 DEF CounterInv
  <2> QED
    BY <2>1, <2>2 DEF Accounts
<1>9. ASSUME NEW q \in Slots, HasAdded(w, b, pending'[q])
      PROVE  expiry'[w][b] # Fixed!Gone
  <2>1. ASSUME HasAdded(w, b, pending[q]) 
        PROVE  expiry[w][b] # Fixed!Gone
    BY <2>1 DEF CounterInv, HasAdded
  <2> QED
    BY <1>5, <1>9, <2>1 DEF Accounts
<1>10. ASSUME lapses' = 0, expiry'[w][b] = Fixed!Never
       PROVE  \E q \in Slots : Renews(w, b, pending'[q])
  <2>1. CASE Renews(w, b, c)
    BY <1>5, <2>1
  <2>2. CASE expiry[w][b] = Fixed!Never /\ ~Renews(w, b, pending[p])
    <3>1. lapses = 0
      BY <1>5, <1>10 DEF Accounts
    <3>2. PICK q \in Slots : Renews(w, b, pending[q])
      BY <2>2, <3>1 DEF CounterInv, Expiring, Renews
    <3> QED
      BY <1>5, <2>2, <3>2
  <2> QED
    BY <1>10, <2>1, <2>2 DEF Accounts
<1>11. /\ \A q \in Slots : pending'[q].step > w /\ Fixed!Bucket(w, pending'[q].at) = b =>
                             expiry'[w][b] # Fixed!Gone
       /\ lapses' = 0 /\ expiry'[w][b] = Fixed!Never => Expiring(w, b)'
  BY <1>9, <1>10 DEF HasAdded, Renews, Expiring
<1> QED
  BY <1>7, <1>8, <1>11 DEF CounterInv, Fixed!Gone, Fixed!Never

\* Times, steps and windows of a call.
LEMMA CallFacts ==
  ASSUME Fixed!ConstantsAssumption, FixedInv, NEW p \in Slots
  PROVE  /\ Fixed!TypeOK /\ Fixed!N \in Nat \ {0} /\ Fixed!Windows = 1 .. Fixed!N
         /\ time \in Nat /\ time <= FixedMaxTime /\ FixedMaxTime \in Nat /\ MaxLapses \in Nat
         /\ pending[p] \in Fixed!Calls /\ pending[p].at \in Fixed!Buckets /\ pending[p].at <= time
         /\ pending[p].score \in Nat /\ pending[p].over \in BOOLEAN
         /\ pending[p].step \in 0 .. 3 * Fixed!N
         /\ Fixed!Idle \in Fixed!Calls /\ Fixed!Idle.step = 0 /\ Fixed!Idle.at = 0
         /\ lapses \in Nat
<1>1. /\ Fixed!TypeOK /\ Fixed!N \in Nat \ {0} /\ Fixed!Windows = 1 .. Fixed!N
      /\ FixedMaxTime \in Nat /\ MaxLapses \in Nat
  BY DEF FixedInv, Fixed!ConstantsAssumption, Fixed!N, Fixed!Windows
<1>2. /\ time \in Nat /\ time <= FixedMaxTime /\ lapses \in Nat
      /\ pending[p] \in Fixed!Calls /\ pending[p].at <= time
  BY <1>1 DEF Fixed!TypeOK, FixedInv
<1>3. /\ pending[p].at \in Fixed!Buckets /\ pending[p].over \in BOOLEAN
      /\ pending[p].score \in Nat /\ pending[p].step \in 0 .. 3 * Fixed!N
  <2>1. Scores \cup {0} \subseteq Nat
    BY DEF Fixed!ConstantsAssumption
  <2> QED
    BY <1>2, <2>1 DEF Fixed!Calls
<1>4. Fixed!Idle \in Fixed!Calls /\ Fixed!Idle.step = 0 /\ Fixed!Idle.at = 0
  BY <1>1 DEF Fixed!Idle, Fixed!Calls, Fixed!Buckets
<1> QED
  BY <1>1, <1>2, <1>3, <1>4

\* Fixed windows: a request that begins keeps the invariant.
LEMMA FixedRequest ==
  ASSUME Fixed!ConstantsAssumption, FixedInv, NEW p \in Slots, NEW score \in Scores,
         Fixed!request(p, score)
  PROVE  FixedInv'
<1> DEFINE c == [at |-> time, score |-> score, step |-> 1, over |-> FALSE]
<1>1. /\ pending[p].step = 0 /\ pending' = [pending EXCEPT ![p] = c]
      /\ UNCHANGED <<time, counters, expiry, accepted, lapses>>
  BY DEF Fixed!request
<1>2. /\ Fixed!TypeOK /\ Fixed!N \in Nat \ {0} /\ Fixed!Windows = 1 .. Fixed!N
      /\ time \in Nat /\ time <= FixedMaxTime /\ FixedMaxTime \in Nat /\ lapses \in Nat
  BY CallFacts
<1>3. /\ c \in Fixed!Calls /\ c.step = 1 /\ c.at = time
  BY <1>2 DEF Fixed!Calls, Fixed!Buckets
<1> HIDE DEF c
<1>4. Fixed!TypeOK'
  BY <1>1, <1>2, <1>3 DEF Fixed!TypeOK
<1>5. \A q \in Slots : pending'[q].at <= time'
  BY <1>1, <1>2, <1>3 DEF FixedInv, Fixed!TypeOK
<1>6. ASSUME NEW w \in Fixed!Windows, NEW b \in Fixed!Buckets
      PROVE  WindowInv(w, b)'
  <2>1. WindowInv(w, b) /\ w \in 1 .. Fixed!N
    BY <1>2 DEF FixedInv
  <2>2. /\ AddedBy(w, b, c) = 0 /\ AddedBy(w, b, pending[p]) = 0
        /\ PromisedTo(w, b, c) = 0 /\ PromisedTo(w, b, pending[p]) = 0
        /\ ~HasAdded(w, b, c) /\ ~Renews(w, b, pending[p])
    BY <1>1, <1>2, <1>3, <2>1 DEF AddedBy, PromisedTo, HasAdded, Renews
  <2>3. counters[w][b] \in Int /\ accepted[w][b] \in Nat
    BY <1>2 DEF Fixed!TypeOK
  <2>4. ASSUME CounterInv(w, b)
        PROVE  CounterInv(w, b)'
    <3>1. Accounts(w, b, pending[p], c)
      BY <1>1, <1>2, <2>2, <2>3 DEF Accounts
    <3> QED
      BY <1>1, <1>2, <1>3, <1>4, <2>4, <3>1, StepKeepsCounter
  <2> QED
    BY <1>1, <2>1, <2>4 DEF WindowInv, Fixed!Live, Fixed!End, Fixed!Never, Fixed!Gone
<1> QED
  BY <1>4, <1>5, <1>6 DEF FixedInv, Fixed!Windows, Fixed!Buckets

\* Fixed windows: a command that fails keeps it.
LEMMA FixedFail ==
  ASSUME Fixed!ConstantsAssumption, FixedInv, NEW p \in Slots, Fixed!Fail(p)
  PROVE  FixedInv'
<1> DEFINE c == Fixed!Idle
<1>1. /\ pending' = [pending EXCEPT ![p] = c]
      /\ lapses < MaxLapses /\ lapses' = lapses + 1
      /\ UNCHANGED <<time, counters, expiry, accepted>>
  BY DEF Fixed!Fail
<1>2. /\ Fixed!TypeOK /\ Fixed!N \in Nat \ {0} /\ Fixed!Windows = 1 .. Fixed!N
      /\ time \in Nat /\ lapses \in Nat /\ MaxLapses \in Nat
      /\ c \in Fixed!Calls /\ c.step = 0 /\ c.at = 0 /\ pending[p] \in Fixed!Calls
  BY CallFacts
<1> HIDE DEF c
<1>3. Fixed!TypeOK'
  BY <1>1, <1>2 DEF Fixed!TypeOK
<1>4. \A q \in Slots : pending'[q].at <= time'
  BY <1>1, <1>2 DEF FixedInv, Fixed!TypeOK
<1>5. ASSUME NEW w \in Fixed!Windows, NEW b \in Fixed!Buckets
      PROVE  WindowInv(w, b)'
  <2>1. WindowInv(w, b) /\ w \in 1 .. Fixed!N
    BY <1>2 DEF FixedInv
  <2>2. /\ AddedBy(w, b, c) = 0 /\ PromisedTo(w, b, c) = 0 /\ ~HasAdded(w, b, c)
    BY <1>2, <2>1 DEF AddedBy, PromisedTo, HasAdded
  <2>a. AddedBy(w, b, pending[p]) \in Nat /\ PromisedTo(w, b, pending[p]) \in Nat
    BY <1>2, AmountsAreNatural
  <2>3. counters[w][b] \in Int /\ accepted[w][b] \in Nat
    BY <1>2 DEF Fixed!TypeOK
  <2>4. ASSUME CounterInv(w, b)
        PROVE  CounterInv(w, b)'
    <3>1. Accounts(w, b, pending[p], c)
      <4>1. /\ counters'[w][b] = counters[w][b] /\ accepted'[w][b] = accepted[w][b]
            /\ expiry'[w][b] = expiry[w][b] /\ lapses' >= lapses /\ lapses' # 0
        BY <1>1, <1>2
      <4>2. /\ counters'[w][b] - counters[w][b] >=
                 accepted'[w][b] - accepted[w][b] + AddedBy(w, b, c) - AddedBy(w, b, pending[p])
            /\ accepted'[w][b] + PromisedTo(w, b, c)
                 <= accepted[w][b] + PromisedTo(w, b, pending[p])
        BY <2>2, <2>a, <2>3, <4>1
      <4> QED
        BY <2>2, <4>1, <4>2 DEF Accounts
    <3> QED
      BY <1>1, <1>2, <1>3, <2>4, <3>1, StepKeepsCounter
  <2> QED
    BY <1>1, <2>1, <2>4 DEF WindowInv, Fixed!Live, Fixed!End, Fixed!Never, Fixed!Gone
<1> QED
  BY <1>3, <1>4, <1>5 DEF FixedInv, Fixed!Windows, Fixed!Buckets

\* A call that goes on with its next command.
LEMMA NextStep ==
  ASSUME Fixed!ConstantsAssumption, NEW old \in Fixed!Calls, NEW over \in BOOLEAN,
         old.step < 3 * Fixed!N
  PROVE  LET c == [old EXCEPT !.step = old.step + 1, !.over = over] IN
         /\ c \in Fixed!Calls /\ c.step = old.step + 1 /\ c.over = over
         /\ c.at = old.at /\ c.score = old.score
<1>1. Fixed!N \in Nat \ {0}
  BY DEF Fixed!ConstantsAssumption, Fixed!N
<1>2. old.step \in 0 .. 3 * Fixed!N
  BY DEF Fixed!Calls
<1>3. old.step + 1 \in 0 .. 3 * Fixed!N
  BY <1>1, <1>2
<1> QED
  BY <1>3 DEF Fixed!Calls

\* Fixed windows: INCRBY keeps it.
LEMMA FixedIncrBy ==
  ASSUME Fixed!ConstantsAssumption, FixedInv, NEW p \in Slots, Fixed!IncrBy(p)
  PROVE  FixedInv'
<1>1. PICK v \in Fixed!Windows :
        /\ pending[p].step = v
        /\ Fixed!Add(p, v, pending[p].score)
        /\ pending' = [pending EXCEPT ![p].step = v + 1,
                                ![p].over = @ \/ Fixed!Mine(p, v) + pending[p].score > Limit[v]]
        /\ UNCHANGED <<time, accepted, lapses>>
  BY DEF Fixed!IncrBy
<1> DEFINE over == pending[p].over \/ Fixed!Mine(p, v) + pending[p].score > Limit[v]
           c == [pending[p] EXCEPT !.step = pending[p].step + 1, !.over = over]
           B == Fixed!Bucket(v, pending[p].at)
<1>2. /\ Fixed!TypeOK /\ Fixed!N \in Nat \ {0} /\ Fixed!Windows = 1 .. Fixed!N
      /\ time \in Nat /\ lapses \in Nat /\ pending[p] \in Fixed!Calls
      /\ pending[p].at \in Fixed!Buckets /\ pending[p].at <= time
      /\ pending[p].score \in Nat /\ pending[p].over \in BOOLEAN
      /\ pending[p].step \in 0 .. 3 * Fixed!N
  BY CallFacts
<1>3. pending' = [pending EXCEPT ![p] = c]
  BY <1>1, <1>2 DEF Fixed!TypeOK
<1>4. /\ c \in Fixed!Calls /\ c.step = v + 1 /\ c.at = pending[p].at /\ c.score = pending[p].score
      /\ pending[p].over => c.over
      /\ ~c.over => counters[v][B] + pending[p].score <= Limit[v]
  <2>1. over \in BOOLEAN /\ pending[p].step < 3 * Fixed!N
    BY <1>1, <1>2
  <2>2. counters[v][B] \in Int /\ Limit[v] \in Nat
    BY <1>1, <1>2, WindowFacts DEF Fixed!TypeOK
  <2>3. ~over => counters[v][B] + pending[p].score <= Limit[v]
    BY <1>2, <2>2 DEF Fixed!Mine
  <2> QED
    BY <1>1, <1>2, <2>1, <2>3, NextStep
<1>5. B \in Fixed!Buckets
  BY <1>1, <1>2, WindowFacts
<1> HIDE DEF c, over
<1>6. Adding(v, B, pending[p].score)
  BY <1>1, <1>2, <1>5, CounterAdds
<1> HIDE DEF B
<1>7. Fixed!TypeOK'
  <2>1. /\ counters' \in [Fixed!Windows -> [Fixed!Buckets -> Int]]
        /\ expiry' \in [Fixed!Windows -> [Fixed!Buckets -> Int]]
    BY <1>6 DEF Adding
  <2>2. ASSUME NEW w \in Fixed!Windows, NEW b \in Fixed!Buckets
        PROVE  expiry'[w][b] \in time' + 1 .. time' + Fixed!TimeToLive(w)'
                                     \cup {Fixed!Never, Fixed!Gone}
    <3>1. /\ expiry'[w][b] \in {expiry[w][b], Fixed!Never}
          /\ time' = time /\ Fixed!TimeToLive(w)' = Fixed!TimeToLive(w)
      BY <1>1, <1>6 DEF Adding, Fixed!TimeToLive
    <3> QED
      BY <1>2, <3>1 DEF Fixed!TypeOK
  <2>3. pending' \in [Slots -> Fixed!Calls]
    BY <1>2, <1>3, <1>4 DEF Fixed!TypeOK
  <2> QED
    BY <1>1, <1>2, <2>1, <2>2, <2>3 DEF Fixed!TypeOK, Fixed!Never, Fixed!Gone
<1>8. \A q \in Slots : pending'[q].at <= time'
  BY <1>1, <1>2, <1>3, <1>4 DEF FixedInv, Fixed!TypeOK
<1>9. ASSUME NEW w \in Fixed!Windows, NEW b \in Fixed!Buckets
      PROVE  WindowInv(w, b)'
  <2>1. WindowInv(w, b) /\ w \in 1 .. Fixed!N /\ v \in 1 .. Fixed!N
    BY <1>2 DEF FixedInv
  <2>2. /\ counters[w][b] \in Int /\ accepted[w][b] \in Nat /\ accepted'[w][b] = accepted[w][b]
        /\ lapses' = lapses
    BY <1>1, <1>2 DEF Fixed!TypeOK
  <2>3. ASSUME CounterInv(w, b)
        PROVE  CounterInv(w, b)'
    <3>1. CASE w = v /\ b = B
      <4>1. /\ AddedBy(w, b, c) = pending[p].score /\ AddedBy(w, b, pending[p]) = 0
            /\ PromisedTo(w, b, pending[p]) = 0 /\ (c.over => PromisedTo(w, b, c) = 0)
            /\ Renews(w, b, c)
        BY <1>1, <1>2, <1>4, <2>1, <3>1 DEF AddedBy, PromisedTo, Renews, B
      <4>2. expiry'[w][b] # Fixed!Gone
        BY <1>6, <3>1 DEF Adding, Fixed!Gone, Fixed!Never
      <4>3. /\ counters'[w][b] = counters[w][b] + pending[p].score
            /\ c.over \/ counters'[w][b] <= Limit[w]
        BY <1>4, <1>6, <3>1 DEF Adding
      <4>4. Accounts(w, b, pending[p], c)
        <5>1. /\ lapses' >= lapses
              /\ counters'[w][b] - counters[w][b] =
                   accepted'[w][b] - accepted[w][b] + AddedBy(w, b, c) - AddedBy(w, b, pending[p])
          BY <1>2, <2>2, <4>1, <4>3
        <5>2. \/ accepted'[w][b] + PromisedTo(w, b, c)
                   <= accepted[w][b] + PromisedTo(w, b, pending[p])
              \/ counters'[w][b] <= Limit[w]
          BY <2>2, <4>1, <4>3
        <5>3. /\ accepted'[w][b] - accepted[w][b] + AddedBy(w, b, c) - AddedBy(w, b, pending[p])
                   \in Int
              /\ counters'[w][b] - counters[w][b] \in Int
          <6>1. pending[p].score \in Int
            BY <1>2
          <6> QED
            BY <2>2, <4>1, <4>3, <6>1
        <5> QED
          BY <4>1, <4>2, <5>1, <5>2, <5>3 DEF Accounts
      <4> QED
        BY <1>2, <1>3, <1>4, <1>7, <2>3, <4>4, StepKeepsCounter
    <3>2. CASE ~(w = v /\ b = B)
      <4>1. /\ AddedBy(w, b, c) = AddedBy(w, b, pending[p])
            /\ PromisedTo(w, b, c) <= PromisedTo(w, b, pending[p])
            /\ PromisedTo(w, b, c) \in Nat /\ PromisedTo(w, b, pending[p]) \in Nat
            /\ AddedBy(w, b, c) \in Nat
        <5>1. \/ w # v
              \/ w = v /\ Fixed!Bucket(w, c.at) # b /\ Fixed!Bucket(w, pending[p].at) # b
          BY <1>4, <3>2 DEF B
        <5>2. CASE w # v
          <6>1. /\ c.step \in w + 1 .. 2 * Fixed!N + w
                     <=> pending[p].step \in w + 1 .. 2 * Fixed!N + w
                /\ c.step \in w + 1 .. 2 * Fixed!N <=> pending[p].step \in w + 1 .. 2 * Fixed!N
            BY SMTT(30), <1>1, <1>2, <1>4, <2>1, <5>2
          <6> QED
            BY <1>2, <1>4, <6>1 DEF AddedBy, PromisedTo
        <5>3. CASE Fixed!Bucket(w, c.at) # b /\ Fixed!Bucket(w, pending[p].at) # b
          BY <5>3 DEF AddedBy, PromisedTo
        <5> QED
          BY <5>1, <5>2, <5>3
      <4>2. /\ HasAdded(w, b, c) => HasAdded(w, b, pending[p])
            /\ Renews(w, b, pending[p]) => Renews(w, b, c)
        BY <1>1, <1>2, <1>4, <2>1, <3>2 DEF HasAdded, Renews, B
      <4>3. counters'[w][b] = counters[w][b] /\ expiry'[w][b] = expiry[w][b]
        BY <1>6, <3>2 DEF Adding
      <4>4. Accounts(w, b, pending[p], c)
        <5>1. /\ lapses' >= lapses
              /\ counters'[w][b] - counters[w][b] = 0
              /\ accepted'[w][b] - accepted[w][b] + AddedBy(w, b, c) - AddedBy(w, b, pending[p])
                   = 0
          BY SMTT(30), <1>2, <2>2, <4>1, <4>3
        <5>2. accepted'[w][b] + PromisedTo(w, b, c)
                <= accepted[w][b] + PromisedTo(w, b, pending[p])
          BY <2>2, <4>1
        <5>3. expiry'[w][b] = Fixed!Never =>
                \/ Renews(w, b, c)
                \/ expiry[w][b] = Fixed!Never /\ ~Renews(w, b, pending[p])
          BY <4>2, <4>3
        <5> QED
          BY <4>2, <4>3, <5>1, <5>2, <5>3 DEF Accounts
      <4> QED
        BY <1>2, <1>3, <1>4, <1>7, <2>3, <4>4, StepKeepsCounter
    <3> QED
      BY <3>1, <3>2
  <2>4. expiry'[w][b] \in {Fixed!Never, Fixed!Gone} \/ expiry'[w][b] >= Fixed!End(w, b)
    BY <1>6, <2>1 DEF Adding, WindowInv
  <2>5. accepted'[w][b] <= Limit[w] /\ (Fixed!Live(w, b)' => Fixed!Live(w, b))
    BY <1>1, <2>1, <2>2 DEF WindowInv, Fixed!Live, Fixed!End
  <2> QED
    BY <2>1, <2>3, <2>4, <2>5 DEF WindowInv, Fixed!End, Fixed!Never, Fixed!Gone
<1> QED
  BY <1>7, <1>8, <1>9 DEF FixedInv, Fixed!Windows, Fixed!Buckets

\* Fixed windows: DECRBY keeps it.
LEMMA FixedDecrBy ==
  ASSUME Fixed!ConstantsAssumption, FixedInv, NEW p \in Slots, Fixed!DecrBy(p)
  PROVE  FixedInv'
<1>1. PICK v \in Fixed!Windows :
        /\ pending[p].step = 2 * Fixed!N + v
        /\ Fixed!Add(p, v, -pending[p].score)
        /\ pending' = [pending EXCEPT ![p] = IF v = Fixed!N THEN Fixed!Idle
                                       ELSE [pending[p] EXCEPT !.step = @ + 1]]
        /\ UNCHANGED <<time, accepted, lapses>>
  BY DEF Fixed!DecrBy
<1> DEFINE c == IF v = Fixed!N
                THEN Fixed!Idle
                ELSE [pending[p] EXCEPT !.step = pending[p].step + 1]
           B == Fixed!Bucket(v, pending[p].at)
<1>2. /\ Fixed!TypeOK /\ Fixed!N \in Nat \ {0} /\ Fixed!Windows = 1 .. Fixed!N
      /\ time \in Nat /\ lapses \in Nat /\ pending[p] \in Fixed!Calls
      /\ pending[p].at \in Fixed!Buckets /\ pending[p].at <= time
      /\ pending[p].score \in Nat /\ pending[p].over \in BOOLEAN
      /\ pending[p].step \in 0 .. 3 * Fixed!N
      /\ Fixed!Idle \in Fixed!Calls /\ Fixed!Idle.step = 0 /\ Fixed!Idle.at = 0
  BY CallFacts
<1>3. pending' = [pending EXCEPT ![p] = c]
  <2>1. CASE v = Fixed!N
    BY <1>1, <2>1
  <2>2. CASE v # Fixed!N
    <3>1. pending' = [pending EXCEPT ![p] = [pending[p] EXCEPT !.step = pending[p].step + 1]]
      BY <1>1, <1>2, <2>2 DEF Fixed!TypeOK
    <3> QED
      BY <2>2, <3>1
  <2> QED
    BY <2>1, <2>2
<1>4. /\ c \in Fixed!Calls
      /\ IF v = Fixed!N THEN c.step = 0 /\ c.at = 0
         ELSE c.step = 2 * Fixed!N + v + 1 /\ c.at = pending[p].at /\ c.score = pending[p].score
  <2>1. CASE v = Fixed!N
    BY <1>2, <2>1
  <2>2. CASE v # Fixed!N
    <3>1. pending[p].step + 1 \in 0 .. 3 * Fixed!N /\ pending[p].step + 1 = 2 * Fixed!N + v + 1
      BY <1>1, <1>2, <2>2
    <3> QED
      BY <1>2, <2>2, <3>1 DEF Fixed!Calls
  <2> QED
    BY <2>1, <2>2
<1>5. B \in Fixed!Buckets
  BY <1>1, <1>2, WindowFacts
<1> HIDE DEF c
<1>6. Adding(v, B, -pending[p].score)
  BY <1>1, <1>2, <1>5, CounterAdds
<1> HIDE DEF B
<1>7. Fixed!TypeOK'
  <2>1. /\ counters' \in [Fixed!Windows -> [Fixed!Buckets -> Int]]
        /\ expiry' \in [Fixed!Windows -> [Fixed!Buckets -> Int]]
    BY <1>6 DEF Adding
  <2>2. ASSUME NEW w \in Fixed!Windows, NEW b \in Fixed!Buckets
        PROVE  expiry'[w][b] \in time' + 1 .. time' + Fixed!TimeToLive(w)'
                                     \cup {Fixed!Never, Fixed!Gone}
    <3>1. /\ expiry'[w][b] \in {expiry[w][b], Fixed!Never}
          /\ time' = time /\ Fixed!TimeToLive(w)' = Fixed!TimeToLive(w)
      BY <1>1, <1>6 DEF Adding, Fixed!TimeToLive
    <3> QED
      BY <1>2, <3>1 DEF Fixed!TypeOK
  <2>3. pending' \in [Slots -> Fixed!Calls]
    BY <1>2, <1>3, <1>4 DEF Fixed!TypeOK
  <2> QED
    BY <1>1, <1>2, <2>1, <2>2, <2>3 DEF Fixed!TypeOK, Fixed!Never, Fixed!Gone
<1>8. \A q \in Slots : pending'[q].at <= time'
  BY <1>1, <1>2, <1>3, <1>4 DEF FixedInv, Fixed!TypeOK
<1>9. ASSUME NEW w \in Fixed!Windows, NEW b \in Fixed!Buckets
      PROVE  WindowInv(w, b)'
  <2>1. WindowInv(w, b) /\ w \in 1 .. Fixed!N /\ v \in 1 .. Fixed!N
    BY <1>2 DEF FixedInv
  <2>2. /\ counters[w][b] \in Int /\ accepted[w][b] \in Nat /\ accepted'[w][b] = accepted[w][b]
        /\ lapses' = lapses
    BY <1>1, <1>2 DEF Fixed!TypeOK
  <2>3. /\ PromisedTo(w, b, c) = 0 /\ PromisedTo(w, b, pending[p]) = 0
        /\ ~Renews(w, b, pending[p])
        /\ HasAdded(w, b, c) => HasAdded(w, b, pending[p])
        /\ w = v /\ b = B =>
             AddedBy(w, b, c) = 0 /\ AddedBy(w, b, pending[p]) = pending[p].score
        /\ ~(w = v /\ b = B) => AddedBy(w, b, c) = AddedBy(w, b, pending[p])
        /\ AddedBy(w, b, pending[p]) \in Nat
    <3>1. CASE v = Fixed!N
      BY SMTT(30), <1>1, <1>2, <1>4, <2>1, <3>1 DEF AddedBy, PromisedTo, HasAdded, Renews, B
    <3>2. CASE v # Fixed!N
      <4>1. /\ c.step = pending[p].step + 1 /\ c.at = pending[p].at /\ c.score = pending[p].score
            /\ pending[p].step = 2 * Fixed!N + v /\ v + 1 <= Fixed!N
        BY <1>1, <1>2, <1>4, <2>1, <3>2
      <4>2. /\ PromisedTo(w, b, c) = 0 /\ PromisedTo(w, b, pending[p]) = 0
            /\ ~Renews(w, b, pending[p])
        BY <1>2, <2>1, <4>1 DEF PromisedTo, Renews
      <4>3. HasAdded(w, b, c) => HasAdded(w, b, pending[p])
        BY <1>2, <2>1, <4>1 DEF HasAdded
      <4>4. AddedBy(w, b, pending[p]) \in Nat
        BY <1>2 DEF AddedBy
      <4>5. ASSUME w = v, b = B
            PROVE  AddedBy(w, b, c) = 0 /\ AddedBy(w, b, pending[p]) = pending[p].score
        BY <1>2, <2>1, <4>1, <4>5 DEF AddedBy, B
      <4>6. ASSUME w # v
            PROVE  AddedBy(w, b, c) = AddedBy(w, b, pending[p])
        BY <1>2, <2>1, <4>1, <4>6 DEF AddedBy
      <4>7. ASSUME w = v, b # B
            PROVE  AddedBy(w, b, c) = AddedBy(w, b, pending[p])
        BY <4>1, <4>7 DEF AddedBy, B
      <4> QED
        BY <4>2, <4>3, <4>4, <4>5, <4>6, <4>7
    <3> QED
      BY <3>1, <3>2
  <2>4. ASSUME CounterInv(w, b)
        PROVE  CounterInv(w, b)'
    <3>1. /\ counters'[w][b] - counters[w][b] =
               accepted'[w][b] - accepted[w][b] + AddedBy(w, b, c) - AddedBy(w, b, pending[p])
          /\ accepted'[w][b] + PromisedTo(w, b, c)
               <= accepted[w][b] + PromisedTo(w, b, pending[p])
      <4>1. CASE w = v /\ b = B
        <5>1. counters'[w][b] = counters[w][b] + -pending[p].score
          BY <1>6, <4>1 DEF Adding
        <5> QED
          BY SMTT(30), <1>2, <2>2, <2>3, <4>1, <5>1
      <4>2. CASE ~(w = v /\ b = B)
        <5>1. counters'[w][b] = counters[w][b]
          BY <1>6, <4>2 DEF Adding
        <5> QED
          BY <1>2, <2>2, <2>3, <4>2, <5>1
      <4> QED
        BY <4>1, <4>2
    <3>2. HasAdded(w, b, pending[p]) => expiry[w][b] # Fixed!Gone
      BY <2>4 DEF CounterInv, HasAdded
    <3>3. w = v /\ b = B => HasAdded(w, b, pending[p])
      BY <1>1, <1>2, <2>1 DEF HasAdded, B
    <3>4. expiry'[w][b] = expiry[w][b]
      BY <1>6, <3>2, <3>3 DEF Adding
    <3>5. Accounts(w, b, pending[p], c)
      BY <1>2, <2>2, <2>3, <3>1, <3>4 DEF Accounts
    <3> QED
      BY <1>2, <1>3, <1>4, <1>7, <2>4, <3>5, StepKeepsCounter
  <2>5. expiry'[w][b] \in {Fixed!Never, Fixed!Gone} \/ expiry'[w][b] >= Fixed!End(w, b)
    BY <1>6, <2>1 DEF Adding, WindowInv
  <2>6. accepted'[w][b] <= Limit[w] /\ (Fixed!Live(w, b)' => Fixed!Live(w, b))
    BY <1>1, <2>1, <2>2 DEF WindowInv, Fixed!Live, Fixed!End
  <2> QED
    BY <2>1, <2>4, <2>5, <2>6 DEF WindowInv, Fixed!End, Fixed!Never, Fixed!Gone
<1> QED
  BY <1>7, <1>8, <1>9 DEF FixedInv, Fixed!Windows, Fixed!Buckets

\* Redis drops no counter that its window still needs.
LEMMA FixedTick ==
  ASSUME Fixed!ConstantsAssumption, FixedInv, Fixed!Tick
  PROVE  FixedInv'
<1>1. /\ time < FixedMaxTime /\ time' = time + 1 /\ UNCHANGED <<pending, accepted, lapses>>
      /\ counters' = [w \in Fixed!Windows |-> [b \in Fixed!Buckets |->
                       IF expiry[w][b] = time' THEN 0 ELSE counters[w][b]]]
      /\ expiry' = [w \in Fixed!Windows |-> [b \in Fixed!Buckets |->
                       IF expiry[w][b] = time' THEN Fixed!Gone ELSE expiry[w][b]]]
  BY DEF Fixed!Tick
<1>2. Fixed!TypeOK /\ time \in Nat /\ FixedMaxTime \in Nat
  BY DEF FixedInv, Fixed!TypeOK, Fixed!ConstantsAssumption
<1>3. ASSUME NEW w \in Fixed!Windows, NEW b \in Fixed!Buckets
      PROVE  /\ counters'[w][b] = (IF expiry[w][b] = time' THEN 0 ELSE counters[w][b])
             /\ expiry'[w][b] = (IF expiry[w][b] = time' THEN Fixed!Gone ELSE expiry[w][b])
             /\ counters[w][b] \in Int /\ counters'[w][b] \in Int
             /\ expiry[w][b] \in Int /\ expiry'[w][b] \in Int
             /\ expiry'[w][b] \in time' + 1 .. time' + Fixed!TimeToLive(w)
                                      \cup {Fixed!Never, Fixed!Gone}
  <2>1. /\ counters'[w][b] = (IF expiry[w][b] = time' THEN 0 ELSE counters[w][b])
        /\ expiry'[w][b] = (IF expiry[w][b] = time' THEN Fixed!Gone ELSE expiry[w][b])
    BY <1>1
  <2>2. /\ counters[w][b] \in Int /\ expiry[w][b] \in Int
        /\ expiry[w][b] \in time + 1 .. time + Fixed!TimeToLive(w) \cup {Fixed!Never, Fixed!Gone}
        /\ Fixed!TimeToLive(w) \in Nat
    BY <1>2, WindowFacts DEF Fixed!TypeOK, Fixed!TimeToLive
  <2>3. CASE expiry[w][b] = time'
    BY <2>1, <2>2, <2>3 DEF Fixed!Gone, Fixed!Never
  <2>4. CASE expiry[w][b] # time'
    <3>1. expiry'[w][b] = expiry[w][b] /\ counters'[w][b] = counters[w][b]
      BY <2>1, <2>4
    <3>2. expiry[w][b] \in time' + 1 .. time' + Fixed!TimeToLive(w) \cup {Fixed!Never, Fixed!Gone}
      <4>1. CASE expiry[w][b] \in {Fixed!Never, Fixed!Gone}
        BY <4>1
      <4>2. CASE expiry[w][b] \in time + 1 .. time + Fixed!TimeToLive(w)
        <5> DEFINE d == expiry[w][b]
                   ttl == Fixed!TimeToLive(w)
        <5>1. /\ d \in time + 1 .. time + ttl /\ d # time + 1 /\ time' = time + 1
              /\ time \in Nat /\ ttl \in Nat /\ d \in Int
          BY <1>1, <1>2, <2>2, <2>4, <4>2
        <5> HIDE DEF d, ttl
        <5>2. d \in (time + 1) + 1 .. (time + 1) + ttl
          BY <5>1
        <5>3. d \in time' + 1 .. time' + ttl
          BY <5>1, <5>2
        <5> QED
          BY <5>3 DEF d, ttl
      <4> QED
        BY <2>2, <4>1, <4>2
    <3> QED
      BY <2>1, <2>2, <2>4, <3>1, <3>2
  <2> QED
    BY <2>3, <2>4
<1>4. Fixed!TypeOK'
  <2>1. /\ counters' \in [Fixed!Windows -> [Fixed!Buckets -> Int]]
        /\ expiry' \in [Fixed!Windows -> [Fixed!Buckets -> Int]]
    <3>1. \A w \in Fixed!Windows : /\ counters'[w] \in [Fixed!Buckets -> Int]
                                   /\ expiry'[w] \in [Fixed!Buckets -> Int]
      BY <1>1, <1>2, <1>3 DEF Fixed!TypeOK, Fixed!Gone
    <3> QED
      BY <1>1, <3>1
  <2>2. time' \in 0 .. FixedMaxTime
    BY <1>1, <1>2
  <2>3. \A w : Fixed!TimeToLive(w)' = Fixed!TimeToLive(w)
    BY DEF Fixed!TimeToLive
  <2> QED
    BY <1>1, <1>2, <1>3, <2>1, <2>2, <2>3 DEF Fixed!TypeOK, Fixed!Never, Fixed!Gone
<1>5. \A q \in Slots : pending'[q].at <= time'
  <2>1. \A q \in Slots : pending[q].at \in Nat /\ pending[q].at <= time
    BY CallFacts DEF FixedInv, Fixed!Buckets
  <2> QED
    BY <1>1, <1>2, <2>1
<1>6. ASSUME NEW w \in Fixed!Windows, NEW b \in Fixed!Buckets
      PROVE  WindowInv(w, b)'
  <2>1. WindowInv(w, b) /\ Fixed!End(w, b) \in Nat
    BY WindowFacts DEF FixedInv
  <2>2. Fixed!End(w, b)' = Fixed!End(w, b)
    BY DEF Fixed!End
  <2>3. \/ expiry'[w][b] \in {Fixed!Never, Fixed!Gone}
        \/ expiry'[w][b] >= Fixed!End(w, b)
    BY <1>3, <2>1 DEF WindowInv
  <2>4. ASSUME Fixed!Live(w, b)'
        PROVE  CounterInv(w, b)'
    <3>1. time' < Fixed!End(w, b)
      BY <2>2, <2>4 DEF Fixed!Live
    <3>2. Fixed!Live(w, b)
      BY <1>1, <1>2, <2>1, <3>1 DEF Fixed!Live
    <3>3. expiry[w][b] # time'
      BY <1>1, <1>2, <1>3, <2>1, <3>1 DEF WindowInv, Fixed!Never, Fixed!Gone
    <3>4. counters'[w][b] = counters[w][b] /\ expiry'[w][b] = expiry[w][b]
      BY <1>3, <3>3
    <3>5. Fixed!InFlight(w, b)' = Fixed!InFlight(w, b) /\ Promised(w, b)' = Promised(w, b)
      <4>1. Fixed!Added(w, b)' = Fixed!Added(w, b)
        BY <1>1 DEF Fixed!Added, Fixed!Bucket
      <4>2. Fixed!InFlight(w, b) = SumOf(Fixed!Added(w, b), Slots)
        BY DEF Fixed!InFlight, SumOf, MapThenSumSet, MapThenFoldSet, Fixed!MapThenSumSet,
           Fixed!MapThenFoldSet
      <4>3. Fixed!InFlight(w, b)' = SumOf(Fixed!Added(w, b)', Slots)
        BY DEF Fixed!InFlight, SumOf, MapThenSumSet, MapThenFoldSet, Fixed!MapThenSumSet,
           Fixed!MapThenFoldSet
      <4>4. Promised(w, b)' = Promised(w, b)
        BY <1>1 DEF Promised, PromisedTo, Fixed!Bucket
      <4> QED
        BY <4>1, <4>2, <4>3, <4>4
    <3>6. CounterInv(w, b)
      BY <2>1, <3>2 DEF WindowInv
    <3> QED
      BY <1>1, <3>4, <3>5, <3>6
      DEF CounterInv, Expiring, Fixed!Bucket, Fixed!Gone, Fixed!Never
  <2> QED
    BY <1>1, <2>1, <2>2, <2>3, <2>4 DEF WindowInv, Fixed!Never, Fixed!Gone
<1> QED
  BY <1>4, <1>5, <1>6 DEF FixedInv, Fixed!Windows, Fixed!Buckets

\* The answer of an accepted request is given while its counters still say so, and
\* every counter it has added to outlives its window by a second.
LEMMA FixedExpire ==
  ASSUME Fixed!ConstantsAssumption, FixedInv, NEW p \in Slots, Fixed!Expire(p)
  PROVE  FixedInv'
<1>1. PICK v \in Fixed!Windows :
        /\ pending[p].step = Fixed!N + v
        /\ expiry' = [expiry EXCEPT ![v][Fixed!Bucket(v, pending[p].at)] =
                          IF @ = Fixed!Gone THEN Fixed!Gone ELSE time + Fixed!TimeToLive(v)]
        /\ Fixed!Answer(p)
        /\ UNCHANGED <<time, counters, lapses>>
  BY DEF Fixed!Expire
<1> DEFINE last == pending[p].step = 2 * Fixed!N /\ ~pending[p].over
           c == IF last THEN Fixed!Idle ELSE [pending[p] EXCEPT !.step = pending[p].step + 1]
           B == Fixed!Bucket(v, pending[p].at)
<1>2. /\ Fixed!TypeOK /\ Fixed!N \in Nat \ {0} /\ Fixed!Windows = 1 .. Fixed!N
      /\ time \in Nat /\ lapses \in Nat /\ pending[p] \in Fixed!Calls
      /\ pending[p].at \in Fixed!Buckets /\ pending[p].at <= time
      /\ pending[p].score \in Nat /\ pending[p].over \in BOOLEAN
      /\ pending[p].step \in 0 .. 3 * Fixed!N
      /\ Fixed!Idle \in Fixed!Calls /\ Fixed!Idle.step = 0 /\ Fixed!Idle.at = 0
  BY CallFacts
<1>3. pending' = [pending EXCEPT ![p] = c]
  BY <1>1, <1>2 DEF Fixed!Answer, Fixed!TypeOK
<1>4. /\ c \in Fixed!Calls
      /\ IF last THEN c.step = 0 /\ c.at = 0
         ELSE /\ c.step = Fixed!N + v + 1 /\ c.at = pending[p].at /\ c.score = pending[p].score
              /\ c.over = pending[p].over
  <2>1. CASE last
    BY <1>2, <2>1
  <2>2. CASE ~last
    <3>1. pending[p].step + 1 \in 0 .. 3 * Fixed!N /\ pending[p].step + 1 = Fixed!N + v + 1
      BY <1>1, <1>2
    <3> QED
      BY <1>2, <2>2, <3>1 DEF Fixed!Calls
  <2> QED
    BY <2>1, <2>2
<1>5. /\ B \in Fixed!Buckets /\ Fixed!TimeToLive(v) \in Nat \ {0}
      /\ time + Fixed!TimeToLive(v) \in Int
      /\ Fixed!End(v, B) <= time + Fixed!TimeToLive(v)
  <2>1. /\ B \in Fixed!Buckets /\ Fixed!End(v, B) <= pending[p].at + Fixed!TimeToLive(v)
        /\ FixedLength[v] \in Nat \ {0} /\ Second \in Nat \ {0}
    BY <1>1, <1>2, WindowFacts
  <2>2. Fixed!TimeToLive(v) \in Nat \ {0} /\ Fixed!End(v, B) \in Nat
    BY <2>1, WindowFacts DEF Fixed!TimeToLive
  <2>3. pending[p].at \in Nat
    BY <1>2 DEF Fixed!Buckets
  <2> QED
    BY SMTT(30), <1>2, <2>1, <2>2, <2>3
<1>6. /\ expiry' \in [Fixed!Windows -> [Fixed!Buckets -> Int]]
      /\ \A w \in Fixed!Windows, b \in Fixed!Buckets :
           expiry'[w][b] = IF w = v /\ b = B /\ expiry[w][b] # Fixed!Gone
                             THEN time + Fixed!TimeToLive(v) ELSE expiry[w][b]
  <2>1. expiry \in [Fixed!Windows -> [Fixed!Buckets -> Int]]
    BY <1>2 DEF Fixed!TypeOK
  <2>2. expiry' = [expiry EXCEPT ![v][B] =
                       IF @ = Fixed!Gone THEN Fixed!Gone ELSE time + Fixed!TimeToLive(v)]
    BY <1>1
  <2>3. Fixed!Gone \in Int
    BY DEF Fixed!Gone
  <2> HIDE DEF B
  <2> QED
    BY <1>5, <2>1, <2>2, <2>3
<1>7. /\ accepted' \in [Fixed!Windows -> [Fixed!Buckets -> Nat]]
      /\ \A w \in Fixed!Windows, b \in Fixed!Buckets :
           accepted'[w][b] = IF last /\ b = Fixed!Bucket(w, pending[p].at) /\ Fixed!Live(w, b)
                             THEN accepted[w][b] + pending[p].score ELSE accepted[w][b]
  <2>1. accepted \in [Fixed!Windows -> [Fixed!Buckets -> Nat]]
    BY <1>2 DEF Fixed!TypeOK
  <2>2. CASE last
    <3>1. accepted' = [w \in Fixed!Windows |->
                         IF Fixed!Live(w, Fixed!Bucket(w, pending[p].at))
                         THEN [accepted[w] EXCEPT ![Fixed!Bucket(w, pending[p].at)] =
                                @ + pending[p].score]
                         ELSE accepted[w]]
      BY <1>1, <2>2 DEF Fixed!Answer
    <3>2. \A w \in Fixed!Windows : accepted[w] \in [Fixed!Buckets -> Nat]
      BY <2>1
    <3> HIDE DEF last
    <3> QED
      <4>1. ASSUME NEW w \in Fixed!Windows
            PROVE  /\ accepted'[w] \in [Fixed!Buckets -> Nat]
                   /\ \A b \in Fixed!Buckets :
                        accepted'[w][b] =
                          IF b = Fixed!Bucket(w, pending[p].at) /\ Fixed!Live(w, b)
                          THEN accepted[w][b] + pending[p].score
                          ELSE accepted[w][b]
        <5> DEFINE A == Fixed!Bucket(w, pending[p].at)
        <5>1. accepted'[w] = IF Fixed!Live(w, A)
                             THEN [accepted[w] EXCEPT ![A] = @ + pending[p].score]
                             ELSE accepted[w]
          BY <3>1
        <5>2. accepted[w] \in [Fixed!Buckets -> Nat]
          BY <3>2
        <5> HIDE DEF A
        <5>3. /\ accepted'[w] \in [Fixed!Buckets -> Nat]
              /\ \A b \in Fixed!Buckets :
                   accepted'[w][b] = IF b = A /\ Fixed!Live(w, b)
                                     THEN accepted[w][b] + pending[p].score ELSE accepted[w][b]
          <6>1. CASE Fixed!Live(w, A)
            <7> DEFINE g == accepted[w]
                       h == accepted'[w]
                       n == pending[p].score
            <7>1. g \in [Fixed!Buckets -> Nat] /\ n \in Nat /\ h = [g EXCEPT ![A] = g[A] + n]
              BY <1>2, <5>1, <5>2, <6>1
            <7> HIDE DEF g, h, n
            <7>2. /\ h \in [Fixed!Buckets -> Nat]
                  /\ \A b \in Fixed!Buckets : h[b] = IF b = A THEN g[b] + n ELSE g[b]
              <8>1. \A b \in Fixed!Buckets : h[b] = IF b = A THEN g[A] + n ELSE g[b]
                BY <7>1
              <8>2. \A b \in Fixed!Buckets : g[b] \in Nat /\ h[b] \in Nat
                BY <7>1, <8>1
              <8>3. h \in [Fixed!Buckets -> Nat]
                BY <7>1, <8>2
              <8> QED
                BY <8>1, <8>3
            <7> QED
              BY <6>1, <7>2 DEF g, h, n
          <6>2. CASE ~Fixed!Live(w, A)
            BY <5>1, <5>2, <6>2
          <6> QED
            BY <6>1, <6>2
        <5> QED
          BY <5>3 DEF A
      <4> QED
        BY <2>2, <3>1, <4>1
  <2>3. CASE ~last
    BY <1>1, <2>1, <2>3 DEF Fixed!Answer
  <2> QED
    BY <2>2, <2>3
<1> HIDE DEF c
<1>8. Fixed!TypeOK'
  <2>1. ASSUME NEW w \in Fixed!Windows, NEW b \in Fixed!Buckets
        PROVE  expiry'[w][b] \in time' + 1 .. time' + Fixed!TimeToLive(w)'
                                     \cup {Fixed!Never, Fixed!Gone}
    <3>1. time' = time /\ Fixed!TimeToLive(w)' = Fixed!TimeToLive(w)
      BY <1>1 DEF Fixed!TimeToLive
    <3>2. expiry[w][b] \in time + 1 .. time + Fixed!TimeToLive(w) \cup {Fixed!Never, Fixed!Gone}
      BY <1>2 DEF Fixed!TypeOK
    <3>3. CASE w = v /\ b = B /\ expiry[w][b] # Fixed!Gone
      <4>1. expiry'[w][b] = time + Fixed!TimeToLive(w)
        BY <1>6, <3>3
      <4>2. time + Fixed!TimeToLive(w) \in time + 1 .. time + Fixed!TimeToLive(w)
        BY <1>2, <1>5, <3>3
      <4> QED
        BY <3>1, <4>1, <4>2
    <3>4. CASE ~(w = v /\ b = B /\ expiry[w][b] # Fixed!Gone)
      BY <1>6, <3>1, <3>2, <3>4
    <3> QED
      BY <3>3, <3>4
  <2>2. pending' \in [Slots -> Fixed!Calls]
    BY <1>2, <1>3, <1>4 DEF Fixed!TypeOK
  <2> QED
    BY <1>1, <1>2, <1>6, <1>7, <2>1, <2>2 DEF Fixed!TypeOK, Fixed!Never, Fixed!Gone
<1>9. \A q \in Slots : pending'[q].at <= time'
  <2>1. c.at <= time
    BY <1>2, <1>4
  <2> QED
    BY <1>1, <1>2, <1>3, <2>1 DEF FixedInv, Fixed!TypeOK
<1>10. ASSUME NEW w \in Fixed!Windows, NEW b \in Fixed!Buckets
       PROVE  WindowInv(w, b)'
  <2>1. WindowInv(w, b) /\ w \in 1 .. Fixed!N /\ v \in 1 .. Fixed!N
    BY <1>2 DEF FixedInv
  <2>2. /\ counters[w][b] \in Int /\ counters'[w][b] = counters[w][b] /\ lapses' = lapses
        /\ accepted[w][b] \in Nat /\ accepted'[w][b] \in Nat /\ Limit[w] \in Nat
    <3>1. counters[w][b] \in Int /\ accepted[w][b] \in Nat /\ Limit[w] \in Nat
      BY ZenonT(30), <1>2, WindowFacts DEF Fixed!TypeOK
    <3>2. accepted'[w][b] \in Nat
      BY <1>7
    <3> QED
      BY <1>1, <3>1, <3>2
  <2>3. /\ AddedBy(w, b, c) \in Nat /\ AddedBy(w, b, pending[p]) \in Nat
        /\ PromisedTo(w, b, c) \in Nat /\ PromisedTo(w, b, pending[p]) \in Nat
    BY <1>2, <1>4, AmountsAreNatural
  <2>4. ASSUME Fixed!Live(w, b)
        PROVE  /\ accepted'[w][b] - accepted[w][b] + AddedBy(w, b, c)
                    - AddedBy(w, b, pending[p]) = 0
               /\ accepted'[w][b] + PromisedTo(w, b, c)
                    <= accepted[w][b] + PromisedTo(w, b, pending[p])
               /\ HasAdded(w, b, c) => HasAdded(w, b, pending[p])
    <3>1. CASE last
      <4>1. AddedBy(w, b, c) = 0 /\ PromisedTo(w, b, c) = 0 /\ ~HasAdded(w, b, c)
        BY <1>2, <1>4, <2>1, <3>1 DEF AddedBy, PromisedTo, HasAdded
      <4>2. CASE b = Fixed!Bucket(w, pending[p].at)
        <5>1. /\ AddedBy(w, b, pending[p]) = pending[p].score
              /\ PromisedTo(w, b, pending[p]) = pending[p].score
          BY <1>2, <2>1, <3>1, <4>2 DEF AddedBy, PromisedTo
        <5>2. accepted'[w][b] = accepted[w][b] + pending[p].score
          BY <1>7, <2>4, <3>1, <4>2
        <5> QED
          BY SMTT(30), <1>2, <2>2, <4>1, <5>1, <5>2
      <4>3. CASE b # Fixed!Bucket(w, pending[p].at)
        <5>1. AddedBy(w, b, pending[p]) = 0 /\ PromisedTo(w, b, pending[p]) = 0
          BY <4>3 DEF AddedBy, PromisedTo
        <5>2. accepted'[w][b] = accepted[w][b]
          BY <1>7, <4>3
        <5> QED
          BY <2>2, <4>1, <5>1, <5>2
      <4> QED
        BY <4>2, <4>3
    <3>2. CASE ~last
      <4>1. accepted'[w][b] = accepted[w][b]
        BY <1>7, <3>2
      <4>2. /\ c.step = Fixed!N + v + 1 /\ c.at = pending[p].at /\ c.score = pending[p].score
            /\ c.over = pending[p].over /\ pending[p].step = Fixed!N + v
        BY <1>1, <1>4, <3>2
      <4>3. v = Fixed!N => pending[p].over
        BY <1>1, <1>2, <3>2
      <4>4. AddedBy(w, b, c) = AddedBy(w, b, pending[p])
        BY <1>2, <2>1, <4>2 DEF AddedBy
      <4>5. PromisedTo(w, b, c) <= PromisedTo(w, b, pending[p])
        BY <1>2, <2>1, <4>2, <4>3 DEF PromisedTo
      <4>6. HasAdded(w, b, c) => HasAdded(w, b, pending[p])
        BY <1>2, <2>1, <4>2 DEF HasAdded
      <4> QED
        BY <2>2, <2>3, <4>1, <4>4, <4>5, <4>6
    <3> QED
      BY <3>1, <3>2
  <2>5. ASSUME CounterInv(w, b), Fixed!Live(w, b)
        PROVE  CounterInv(w, b)'
    <3>1. HasAdded(w, b, pending[p]) => expiry[w][b] # Fixed!Gone
      BY <2>5 DEF CounterInv, HasAdded
    <3>2. \/ expiry'[w][b] # Fixed!Gone
          \/ /\ expiry'[w][b] = expiry[w][b]
             /\ HasAdded(w, b, c) => HasAdded(w, b, pending[p])
      <4>1. CASE w = v /\ b = B /\ expiry[w][b] # Fixed!Gone
        <5>1. expiry'[w][b] = time + Fixed!TimeToLive(v)
          BY <1>6, <4>1
        <5> QED
          BY <1>2, <1>5, <5>1 DEF Fixed!Gone
      <4>2. CASE ~(w = v /\ b = B /\ expiry[w][b] # Fixed!Gone)
        <5>1. expiry'[w][b] = expiry[w][b]
          BY <1>6, <4>2
        <5> QED
          BY <2>4, <2>5, <5>1
      <4> QED
        BY <4>1, <4>2
    <3>3. ASSUME lapses' = 0, expiry'[w][b] = Fixed!Never
          PROVE  Renews(w, b, c) \/ (expiry[w][b] = Fixed!Never /\ ~Renews(w, b, pending[p]))
      <4>1. ~(w = v /\ b = B)
        <5>1. CASE expiry[w][b] = Fixed!Gone
          BY <1>6, <3>3, <5>1 DEF Fixed!Gone, Fixed!Never
        <5>2. ASSUME w = v, b = B, expiry[w][b] # Fixed!Gone
              PROVE  FALSE
          <6>1. expiry'[w][b] = time + Fixed!TimeToLive(v)
            BY <1>6, <5>2
          <6> QED
            BY <1>2, <1>5, <3>3, <6>1 DEF Fixed!Never
        <5> QED
          BY <5>1, <5>2
      <4>2. expiry[w][b] = Fixed!Never
        BY <1>6, <3>3, <4>1
      <4>3. ASSUME Renews(w, b, pending[p])
            PROVE  Renews(w, b, c)
        <5>1. b = Fixed!Bucket(w, pending[p].at) /\ Fixed!N + v <= Fixed!N + w
          BY <1>1, <1>2, <4>3 DEF Renews
        <5>2. w # v /\ v < w
          BY <1>2, <2>1, <4>1, <5>1 DEF B
        <5>3. ~last
          BY <1>1, <1>2, <2>1, <5>2
        <5> QED
          BY <1>2, <1>4, <2>1, <5>1, <5>2, <5>3 DEF Renews
      <4> QED
        BY <4>2, <4>3
    <3>4. Accounts(w, b, pending[p], c)
      <4>1. /\ lapses' >= lapses
            /\ counters'[w][b] - counters[w][b] =
                 accepted'[w][b] - accepted[w][b] + AddedBy(w, b, c) - AddedBy(w, b, pending[p])
        BY SMTT(30), <1>2, <2>2, <2>4, <2>5
      <4>2. accepted'[w][b] + PromisedTo(w, b, c) <= accepted[w][b] + PromisedTo(w, b, pending[p])
        BY <2>4, <2>5
      <4>3. counters'[w][b] - counters[w][b] \in Int
        BY <2>2
      <4>4. counters'[w][b] - counters[w][b] >=
              accepted'[w][b] - accepted[w][b] + AddedBy(w, b, c) - AddedBy(w, b, pending[p])
        BY <4>1, <4>3
      <4> QED
        BY <3>2, <3>3, <4>1, <4>2, <4>4 DEF Accounts
    <3> QED
      BY <1>2, <1>3, <1>4, <1>8, <2>5, <3>4, StepKeepsCounter
  <2>6. expiry'[w][b] \in {Fixed!Never, Fixed!Gone} \/ expiry'[w][b] >= Fixed!End(w, b)
    BY <1>5, <1>6, <2>1 DEF WindowInv
  <2>7. Fixed!Live(w, b)' <=> Fixed!Live(w, b)
    BY <1>1 DEF Fixed!Live, Fixed!End
  <2>8. accepted'[w][b] <= Limit[w]
    <3>1. CASE Fixed!Live(w, b)
      <4>1. accepted[w][b] + Promised(w, b) <= Limit[w] /\ CounterInv(w, b)'
        BY <2>1, <2>5, <3>1 DEF WindowInv, CounterInv
      <4>2. accepted'[w][b] + Promised(w, b)' <= Limit[w]
        BY <4>1 DEF CounterInv
      <4>3. Promised(w, b)' \in Nat
        BY <1>8, SumsAfterwards
      <4> QED
        BY <2>2, <4>2, <4>3
    <3>2. CASE ~Fixed!Live(w, b)
      BY <1>7, <2>1, <3>2 DEF WindowInv
    <3> QED
      BY <3>1, <3>2
  <2> QED
    BY <2>1, <2>5, <2>6, <2>7, <2>8 DEF WindowInv, Fixed!End, Fixed!Never, Fixed!Gone
<1> QED
  BY <1>8, <1>9, <1>10 DEF FixedInv, Fixed!Windows, Fixed!Buckets

\* Fixed windows: the invariant holds at first.
LEMMA FixedInit ==
  ASSUME Fixed!ConstantsAssumption, Fixed!Init
  PROVE  FixedInv
<1>1. /\ time = 0 /\ lapses = 0 /\ counters = Fixed!Zero /\ accepted = Fixed!Zero
      /\ expiry = [w \in Fixed!Windows |-> [b \in Fixed!Buckets |-> Fixed!Gone]]
      /\ pending = [p \in Slots |-> Fixed!Idle]
  BY DEF Fixed!Init
<1>2. /\ Fixed!N \in Nat \ {0} /\ Fixed!Windows = 1 .. Fixed!N
      /\ FixedMaxTime \in Nat /\ MaxLapses \in Nat
  BY DEF Fixed!ConstantsAssumption, Fixed!N, Fixed!Windows
<1>3. Fixed!Idle \in Fixed!Calls /\ Fixed!Idle.step = 0 /\ Fixed!Idle.at = 0
  BY <1>2 DEF Fixed!Idle, Fixed!Calls, Fixed!Buckets
<1>4. Fixed!TypeOK
  <2>1. time \in 0 .. FixedMaxTime /\ lapses \in 0 .. MaxLapses
    BY <1>1, <1>2
  <2>2. /\ counters \in [Fixed!Windows -> [Fixed!Buckets -> Int]]
        /\ accepted \in [Fixed!Windows -> [Fixed!Buckets -> Nat]]
        /\ expiry \in [Fixed!Windows -> [Fixed!Buckets -> Int]]
    BY <1>1 DEF Fixed!Zero, Fixed!Gone
  <2>3. \A w \in Fixed!Windows, b \in Fixed!Buckets : expiry[w][b] = Fixed!Gone
    BY <1>1
  <2>4. pending \in [Slots -> Fixed!Calls]
    BY <1>1, <1>3
  <2> QED
    BY <2>1, <2>2, <2>3, <2>4 DEF Fixed!TypeOK
<1>5. \A q \in Slots : pending[q].at <= time
  BY <1>1, <1>3
<1>6. ASSUME NEW w \in Fixed!Windows, NEW b \in Fixed!Buckets
      PROVE  WindowInv(w, b)
  <2>1. /\ counters[w][b] = 0 /\ accepted[w][b] = 0 /\ expiry[w][b] = Fixed!Gone
        /\ Limit[w] \in Nat /\ w \in Nat
    BY <1>1, <1>2, WindowFacts DEF Fixed!Zero
  <2>2. Fixed!InFlight(w, b) = 0
    <3> DEFINE f == [p \in Slots |-> AddedBy(w, b, pending[p])]
    <3>1. \A p \in Slots : f[p] = 0
      BY <1>1, <1>2, <1>3, <2>1 DEF AddedBy
    <3>2. Fixed!InFlight(w, b) = SumOf(f, Slots) /\ IsFiniteSet(Slots)
      BY <1>4, SumsOfCalls, FiniteSlots
    <3> HIDE DEF f
    <3> QED
      BY <3>1, <3>2, SumOfZeros
  <2>3. Promised(w, b) = 0
    <3>1. Promised(w, b) \in Nat /\ Promised(w, b) <= Fixed!InFlight(w, b)
      BY <1>4, SumsOfCalls
    <3> QED
      BY <2>2, <3>1
  <2>4. \A p \in Slots : ~(pending[p].step > w)
    BY <1>1, <1>2, <1>3, <2>1
  <2> QED
    BY <2>1, <2>2, <2>3, <2>4 DEF WindowInv, CounterInv, Fixed!Gone, Fixed!Never
<1> QED
  BY <1>4, <1>5, <1>6 DEF FixedInv

\* Fixed windows: every step keeps it.
LEMMA FixedNext ==
  ASSUME Fixed!ConstantsAssumption, FixedInv, [Fixed!Next]_(Fixed!vars)
  PROVE  FixedInv'
<1>1. ASSUME NEW p \in Slots, NEW score \in Scores, Fixed!request(p, score)
      PROVE  FixedInv'
  BY <1>1, FixedRequest
<1>2. ASSUME NEW p \in Slots,
             Fixed!IncrBy(p) \/ Fixed!Expire(p) \/ Fixed!DecrBy(p) \/ Fixed!Fail(p)
      PROVE  FixedInv'
  BY <1>2, FixedIncrBy, FixedExpire, FixedDecrBy, FixedFail
<1>3. CASE Fixed!Tick
  BY <1>3, FixedTick
<1>4. CASE UNCHANGED Fixed!vars
  <2>1. UNCHANGED <<time, counters, expiry, pending, accepted, lapses>>
    BY <1>4 DEF Fixed!vars
  <2>2. ASSUME NEW w, NEW b
        PROVE  Fixed!InFlight(w, b)' = Fixed!InFlight(w, b) /\ Promised(w, b)' = Promised(w, b)
    <3>1. Fixed!Added(w, b)' = Fixed!Added(w, b)
      BY <2>1 DEF Fixed!Added, Fixed!Bucket
    <3>2. Fixed!InFlight(w, b) = SumOf(Fixed!Added(w, b), Slots)
      BY DEF Fixed!InFlight, SumOf, MapThenSumSet, MapThenFoldSet, Fixed!MapThenSumSet,
         Fixed!MapThenFoldSet
    <3>3. Fixed!InFlight(w, b)' = SumOf(Fixed!Added(w, b)', Slots)
      BY DEF Fixed!InFlight, SumOf, MapThenSumSet, MapThenFoldSet, Fixed!MapThenSumSet,
         Fixed!MapThenFoldSet
    <3>4. Promised(w, b)' = Promised(w, b)
      BY <2>1 DEF Promised, PromisedTo, Fixed!Bucket
    <3> QED
      BY <3>1, <3>2, <3>3, <3>4
  <2>3. Fixed!TypeOK'
    BY <2>1 DEF FixedInv, Fixed!TypeOK, Fixed!TimeToLive
  <2>4. ASSUME NEW w \in Fixed!Windows, NEW b \in Fixed!Buckets
        PROVE  WindowInv(w, b)'
    <3>1. WindowInv(w, b)
      BY DEF FixedInv
    <3> QED
      BY <2>1, <2>2, <3>1
      DEF WindowInv, CounterInv, Expiring, Fixed!Live, Fixed!End, Fixed!Bucket,
         Fixed!Gone, Fixed!Never
  <2> QED
    BY <2>1, <2>3, <2>4 DEF FixedInv, Fixed!Windows, Fixed!Buckets
<1> QED
  BY <1>1, <1>2, <1>3, <1>4 DEF Fixed!Next

\* The invariant says what the run checks.
LEMMA FixedInvariantSuffices ==
  ASSUME Fixed!ConstantsAssumption, FixedInv
  PROVE  Fixed!CountersAreAccounted
<1>1. Fixed!TypeOK
  BY DEF FixedInv
<1>2. Fixed!RejectsBeyondLimit
  BY DEF FixedInv, WindowInv, Fixed!RejectsBeyondLimit
<1>3. Fixed!CounterIsAccounted
  BY DEF FixedInv, WindowInv, CounterInv, Fixed!CounterIsAccounted
<1>4. Fixed!QuotaIsNotOverstated
  <2>1. SUFFICES ASSUME NEW w \in Fixed!Windows, NEW began \in 0 .. time,
                        Fixed!Live(w, Fixed!Bucket(w, began))
                 PROVE  Fixed!quota(w, began)
                          <= Limit[w] - accepted[w][Fixed!Bucket(w, began)]
    BY DEF Fixed!QuotaIsNotOverstated
  <2> DEFINE b == Fixed!Bucket(w, began)
  <2>2. began \in Fixed!Buckets
    BY <1>1 DEF Fixed!TypeOK, Fixed!Buckets, Fixed!ConstantsAssumption
  <2>3. b \in Fixed!Buckets /\ Fixed!Live(w, b) /\ Limit[w] \in Nat
    BY <2>1, <2>2, WindowFacts
  <2>4. Fixed!quota(w, began) = Limit[w] - counters[w][b]
    BY DEF Fixed!quota
  <2> HIDE DEF b
  <2>5. counters[w][b] >= accepted[w][b] + Fixed!InFlight(w, b)
    BY <1>3, <2>3 DEF Fixed!CounterIsAccounted
  <2>6. Fixed!InFlight(w, b) \in Nat /\ counters[w][b] \in Int /\ accepted[w][b] \in Nat
    BY <1>1, <2>3, SumsOfCalls DEF Fixed!TypeOK
  <2>7. Fixed!quota(w, began) <= Limit[w] - accepted[w][b]
    BY <2>3, <2>4, <2>5, <2>6
  <2> QED
    BY <2>7 DEF b
<1>5. Fixed!OnlyPastCountersStay
  BY DEF FixedInv, WindowInv, CounterInv, Expiring, Fixed!OnlyPastCountersStay
<1> QED
  BY <1>1, <1>2, <1>3, <1>4, <1>5 DEF Fixed!CountersAreAccounted

\* However the commands of the calls interleave, and whichever of them fail: no window
\* accepts more than its limit, a counter that is still read holds what was accepted
\* and what is under way, so that quota() promises no more than is left, and it has a
\* time to live.
THEOREM CountersAccounted ==
  ASSUME Fixed!ConstantsAssumption
  PROVE  Fixed!Spec => []CountersAreAccounted
<1>1. Fixed!Init => FixedInv
  BY FixedInit
<1>2. FixedInv /\ [Fixed!Next]_(Fixed!vars) => FixedInv'
  BY FixedNext
<1>3. FixedInv => CountersAreAccounted
  BY FixedInvariantSuffices DEF CountersAreAccounted
<1> QED
  BY <1>1, <1>2, <1>3, PTL DEF Fixed!Spec

-----------------------------------------------------------------------------
(* Sliding windows                                                         *)

\* The member of a request, and how far it is: it has added that to the set of a
\* window, has summed the set up, is about to renew its time to live.
Mine(c) == <<c.at, c.score>>

AddedTo(w, c) ==
  /\ c.kind = "request"
  /\ c.window > w \/ (c.window = w /\ c.cmd \in {"range", "expire"})

SummedUp(w, c) ==
  /\ c.kind = "request" /\ ~c.over
  /\ c.window > w \/ (c.window = w /\ c.cmd = "expire")

Renewing(w, c) == c.kind = "request" /\ c.window = w /\ c.cmd \in {"range", "expire"}

\* A member is in the set, too old for it, or expired with it.
Kept(w, m) == m \in members[w] \/ m \in lost[w] \/ m[1] <= now - Length[w]

\* The members that are accepted or may still be, as far as window w is concerned.
Passed(w) ==
  {m \in Sliding!Members :
     passed[m] > 0 \/ \E p \in Slots : SummedUp(w, call[p]) /\ m = Mine(call[p])}

Counting(w) == {m \in Passed(w) : m[1] > now - Length[w] /\ m \notin lost[w]}

\* Calls began in the past.
CallsInv ==
  \A p \in Slots : call[p].at <= now /\ (call[p].kind = "request" => call[p].score \in Scores)

\* What was added is kept, and what may be accepted fits into the window.
SetInv(w) ==
  /\ \A p \in Slots : AddedTo(w, call[p]) => Kept(w, Mine(call[p]))
  /\ \A m \in Sliding!Members : passed[m] > 0 => Kept(w, m)
  /\ Sliding!Sum(Counting(w)) <= Limit[w]

\* Nobody has renewed the time to live of the set since the member was added: its
\* request is about to, or failed before it did.
Unrenewed(w, m) ==
  m \in stranded[w] \/ \E p \in Slots : Renewing(w, call[p]) /\ m = Mine(call[p])

\* Any other member's request has made the set outlive the member's window, and
\* given it a time to live.
LifeInv(w) ==
  \A m \in members[w] :
    /\ m[1] <= now
    /\ deadline[w] >= m[1] + Sliding!TimeToLive(w) \/ Unrenewed(w, m)
    /\ deadline[w] = Sliding!Never => Unrenewed(w, m)

SlidingInv ==
  /\ Sliding!TypeOK
  /\ CallsInv
  /\ \A w \in Sliding!Windows : SetInv(w) /\ LifeInv(w)

Records ==
  [kind : {"idle", "request", "quota"}, at : Sliding!Times, score : Scores \cup {0},
   window : Sliding!Windows, cmd : {"rem", "add", "range", "expire"}, over : BOOLEAN]

-----------------------------------------------------------------------------
(* Numbers                                                                 *)

\* Sliding windows: limits, lengths and moments are numbers, and never is later than
\* any time to live lasts.
LEMMA SlidingNumbers ==
  ASSUME Sliding!ConstantsAssumption
  PROVE  /\ Sliding!N \in Nat \ {0} /\ Sliding!Windows = 1 .. Sliding!N
         /\ Sliding!Start \in Nat \ {0} /\ Sliding!Start \in Sliding!Times /\ MaxTime \in Nat
         /\ \A score \in Scores : score \in Nat \ {0} /\ score <= Sliding!Start
         /\ Sliding!Times \subseteq Nat
         /\ \A w \in Sliding!Windows : /\ Length[w] \in Nat \ {0} /\ Limit[w] \in Nat
                               /\ Sliding!TimeToLive(w) \in Nat
                               /\ Sliding!TimeToLive(w) > Length[w]
                               /\ MaxTime + Sliding!TimeToLive(w) < Sliding!Never
         /\ Sliding!Never \in Nat
<1>1. /\ Length \in Seq(Nat \ {0}) /\ Length # <<>> /\ Len(Length) \in Nat \ {0}
      /\ Sliding!N \in Nat \ {0} /\ Sliding!Windows = 1 .. Sliding!N /\ MaxTime \in Nat
      /\ Second \in Nat \ {0}
  BY DEF Sliding!ConstantsAssumption, Sliding!N, Sliding!Windows
<1>2. \A w \in Sliding!Windows : Length[w] \in Nat \ {0} /\ Limit[w] \in Nat
  BY <1>1 DEF Sliding!ConstantsAssumption, Sliding!Windows
<1>3. /\ Sliding!Start \in Scores
      /\ \A score \in Scores : score \in Nat \ {0} /\ score <= Sliding!Start
  <2>1. IsFiniteSet(Scores) /\ Scores # {} /\ Scores \subseteq Nat \ {0}
    BY DEF Sliding!ConstantsAssumption, Sliding!IsFiniteSet, IsFiniteSet
  <2>2. Scores \subseteq Int
    BY <2>1
  <2>3. Max(Scores) \in Scores /\ \A y \in Scores : Max(Scores) >= y
    BY <2>1, <2>2, MaxOf
  <2> QED
    BY <2>1, <2>3 DEF Sliding!Start, Sliding!Max, Max
<1>4. /\ Sliding!Start \in Nat \ {0} /\ Sliding!Start \in Sliding!Times
      /\ Sliding!Times \subseteq Nat
  BY <1>1, <1>3 DEF Sliding!Times, Sliding!ConstantsAssumption
<1> DEFINE Lengths == {Length[w] : w \in Sliding!Windows}
<1>5. Max(Lengths) \in Nat \ {0} /\ \A w \in Sliding!Windows : Length[w] <= Max(Lengths)
  <2>1. IsFiniteSet(Sliding!Windows)
    BY <1>1, FS_Interval
  <2>2. IsFiniteSet(Lengths)
    <3> DEFINE f == [w \in Sliding!Windows |-> Length[w]]
    <3>1. f \in Surjection(Sliding!Windows, Lengths)
      BY DEF Surjection
    <3> QED
      BY <2>1, <3>1, FS_Surjection
  <2>3. Lengths # {} /\ Lengths \subseteq Nat \ {0} /\ Lengths \subseteq Int
    BY <1>1, <1>2
  <2>4. \A w \in Sliding!Windows : Length[w] \in Lengths
    OBVIOUS
  <2> HIDE DEF Lengths
  <2>5. Max(Lengths) \in Lengths /\ \A y \in Lengths : Max(Lengths) >= y
    BY <2>2, <2>3, MaxOf
  <2> QED
    BY <1>2, <2>3, <2>4, <2>5
<1>6. Sliding!Never = MaxTime + Second + Max(Lengths) + 1
  BY DEF Sliding!Never, Sliding!Max, Max
<1> HIDE DEF Lengths
<1>7. \A w \in Sliding!Windows : /\ Sliding!TimeToLive(w) \in Nat
                                 /\ Sliding!TimeToLive(w) > Length[w]
                         /\ MaxTime + Sliding!TimeToLive(w) < Sliding!Never
  <2> SUFFICES ASSUME NEW w \in Sliding!Windows
               PROVE  /\ Sliding!TimeToLive(w) \in Nat /\ Sliding!TimeToLive(w) > Length[w]
                      /\ MaxTime + Sliding!TimeToLive(w) < Sliding!Never
    OBVIOUS
  <2> DEFINE m == Max(Lengths)
  <2>1. /\ Length[w] \in Nat /\ m \in Nat /\ Length[w] <= m /\ Second \in Nat \ {0}
        /\ MaxTime \in Nat /\ Sliding!Never = MaxTime + Second + m + 1
    BY <1>1, <1>2, <1>5, <1>6
  <2> HIDE DEF m
  <2> QED
    BY SMTT(30), <2>1 DEF Sliding!TimeToLive
<1>8. Sliding!Never \in Nat
  BY <1>1, <1>5, <1>6
<1> QED
  BY <1>1, <1>2, <1>3, <1>4, <1>7, <1>8

\* Sets of members are finite; what they sum up to is a number, and more of them
\* do not sum up to less.
LEMMA MembersSum ==
  ASSUME Sliding!ConstantsAssumption, NEW T \in SUBSET Sliding!Members
  PROVE  /\ IsFiniteSet(T) /\ Sliding!Sum(T) \in Nat /\ Sliding!SumOfTimes(T) \in Nat
         /\ \A S \in SUBSET T : Sliding!Sum(S) <= Sliding!Sum(T)
         /\ Sliding!Sum(T) <= Sliding!SumOfTimes(T)
<1> DEFINE f == [m \in Sliding!Members |-> m[2]]
           g == [m \in Sliding!Members |-> m[1]]
<1>1. IsFiniteSet(Sliding!Members)
  <2>1. IsFiniteSet(Sliding!Times)
    <3>1. Sliding!Start \in Int /\ MaxTime \in Int
      BY SlidingNumbers
    <3> QED
      BY <3>1, FS_Interval DEF Sliding!Times
  <2> QED
    <3>1. IsFiniteSet(Scores)
      BY DEF Sliding!ConstantsAssumption, Sliding!IsFiniteSet, IsFiniteSet
    <3> QED
      BY <2>1, <3>1, FS_Product DEF Sliding!Members
<1>2. \A m \in Sliding!Members : f[m] \in Nat /\ g[m] \in Nat /\ f[m] <= g[m]
  <2>1. \A m \in Sliding!Members : /\ m[1] \in Sliding!Times /\ m[2] \in Scores
                                   /\ m[1] \in Nat /\ m[2] \in Nat
    BY SlidingNumbers DEF Sliding!Members
  <2>2. \A m \in Sliding!Members : /\ m[2] <= Sliding!Start
                                   /\ Sliding!Start <= m[1] /\ Sliding!Start \in Nat
    BY <2>1, SlidingNumbers DEF Sliding!Times
  <2>3. \A m \in Sliding!Members : m[2] <= m[1]
    BY <2>1, <2>2
  <2> QED
    BY <2>1, <2>3
<1>3. \A S : Sliding!Sum(S) = SumOf(f, S) /\ Sliding!SumOfTimes(S) = SumOf(g, S)
  BY DEF Sliding!Sum, Sliding!SumOfTimes, Sliding!TotalOf, SumOf, MapThenSumSet,
         MapThenFoldSet, Sliding!MapThenSumSet, Sliding!MapThenFoldSet
<1>4. IsFiniteSet(T)
  BY <1>1, FS_Subset
<1> HIDE DEF f, g
<1>5. SumOf(f, T) \in Nat /\ SumOf(g, T) \in Nat
  BY <1>2, <1>4, SumNat
<1>6. \A S \in SUBSET T : SumOf(f, S) <= SumOf(f, T)
  BY <1>2, <1>4, SumSubset
<1>7. SumOf(f, T) <= SumOf(g, T)
  <2>1. \A x \in T : f[x] \in Int /\ g[x] \in Int /\ f[x] <= g[x]
    BY <1>2
  <2> QED
    BY <1>4, <2>1, SumLe
<1> QED
  BY <1>3, <1>4, <1>5, <1>6, <1>7

\* Who has summed up a set has added to it before.
LEMMA SummedIsAdded ==
  ASSUME NEW w, NEW c, SummedUp(w, c)
  PROVE  AddedTo(w, c)
BY DEF SummedUp, AddedTo

\* What counts are members.
LEMMA CountingMembers ==
  ASSUME NEW w
  PROVE  Counting(w) \in SUBSET Sliding!Members /\ Counting(w)' \in SUBSET Sliding!Members
BY DEF Counting, Passed

\* What a call may do to a window: what it has added is in the set, nothing is
\* dropped that is young enough, nobody is accepted who has not summed up, and who
\* sums up finds the set within the limit.
Respects(w, old, c) ==
  /\ AddedTo(w, c) => (AddedTo(w, old) /\ Mine(c) = Mine(old)) \/ Mine(c) \in members'[w]
  /\ \A m \in members[w] : m \in members'[w] \/ m[1] <= now - Length[w]
  /\ \A m \in Sliding!Members : passed'[m] > 0 =>
       passed[m] > 0 \/ (SummedUp(w, old) /\ m = Mine(old))
  /\ SummedUp(w, c) =>
       /\ Mine(c) = Mine(old)
       /\ SummedUp(w, old) \/ (AddedTo(w, old) /\ Sliding!Sum(members'[w]) <= Limit[w])

\* Then the window stays within its limit.
LEMMA SetKept ==
  ASSUME Sliding!ConstantsAssumption, Sliding!TypeOK, Sliding!TypeOK', NEW p \in Slots, NEW c,
         call' = [call EXCEPT ![p] = c], UNCHANGED <<now, lost>>,
         NEW w \in Sliding!Windows, SetInv(w), Respects(w, call[p], c)
  PROVE  SetInv(w)'
<1>0. /\ call'[p] = c /\ \A q \in Slots \ {p} : call'[q] = call[q]
      /\ call \in [Slots -> Records] /\ members'[w] \in SUBSET Sliding!Members
      /\ Limit[w] \in Nat
  BY SlidingNumbers DEF Sliding!TypeOK, Records
<1>1. \A m : Kept(w, m) => Kept(w, m)'
  BY DEF Respects, Kept
<1>2. \A q \in Slots : (AddedTo(w, call[q]) => Kept(w, Mine(call[q])))'
  <2>1. AddedTo(w, c) => Kept(w, Mine(c))'
    <3>1. CASE AddedTo(w, c) /\ AddedTo(w, call[p]) /\ Mine(c) = Mine(call[p])
      BY <1>1, <3>1 DEF SetInv
    <3>2. CASE Mine(c) \in members'[w]
      BY <3>2 DEF Kept
    <3> QED
      BY <3>1, <3>2 DEF Respects
  <2>2. \A q \in Slots \ {p} : AddedTo(w, call'[q]) => Kept(w, Mine(call[q]))
    BY <1>0 DEF SetInv
  <2>3. ASSUME NEW q \in Slots, AddedTo(w, call[q])'
        PROVE  Kept(w, Mine(call[q]))'
    <3>1. CASE q = p
      BY <1>0, <2>1, <2>3, <3>1 DEF Kept
    <3>2. CASE q # p
      BY <1>0, <1>1, <2>2, <2>3, <3>2 DEF Kept
    <3> QED
      BY <3>1, <3>2
  <2> QED
    BY <2>3
<1>3. \A m \in Sliding!Members : passed'[m] > 0 => Kept(w, m)'
  <2>1. SummedUp(w, call[p]) => Kept(w, Mine(call[p]))
    BY SummedIsAdded DEF SetInv
  <2> QED
    BY <1>1, <2>1 DEF Respects, SetInv
<1>4. CASE SummedUp(w, c) /\ ~SummedUp(w, call[p])
  <2>1. Sliding!Sum(members'[w]) <= Limit[w]
    BY <1>4 DEF Respects
  <2>2. \A m \in Passed(w)' : Kept(w, m)'
    <3>1. \A q \in Slots : (SummedUp(w, call[q]) => Kept(w, Mine(call[q])))'
      BY <1>2, SummedIsAdded
    <3> QED
      BY <1>3, <3>1 DEF Passed
  <2>3. Counting(w)' \subseteq members'[w]
    <3> SUFFICES ASSUME NEW m \in Counting(w)'
                 PROVE  m \in members'[w]
      OBVIOUS
    <3>1. m \in Passed(w)' /\ m[1] > now' - Length[w] /\ m \notin lost'[w] /\ m[1] \in Nat
      BY SlidingNumbers DEF Counting, Passed, Sliding!Members
    <3>2. now' \in Nat /\ Length[w] \in Nat
      BY SlidingNumbers DEF Sliding!TypeOK
    <3>3. ~(m[1] <= now' - Length[w])
      BY <3>1, <3>2
    <3> QED
      BY <2>2, <3>1, <3>3 DEF Kept
  <2>4. Sliding!Sum(Counting(w)') <= Sliding!Sum(members'[w]) /\ Sliding!Sum(members'[w]) \in Nat
        /\ Sliding!Sum(Counting(w)') \in Nat
    BY <1>0, <2>3, MembersSum, CountingMembers
  <2>5. Sliding!Sum(Counting(w)') <= Limit[w]
    <3> DEFINE a == Sliding!Sum(Counting(w)')
               b == Sliding!Sum(members'[w])
    <3>1. a <= b /\ b <= Limit[w] /\ a \in Nat /\ b \in Nat /\ Limit[w] \in Nat
      BY <1>0, <2>1, <2>4
    <3> HIDE DEF a, b
    <3>2. a <= Limit[w]
      BY <3>1
    <3> QED
      BY <3>2 DEF a
  <2> QED
    BY <1>2, <1>3, <2>5 DEF SetInv, Sliding!Sum
<1>5. CASE ~(SummedUp(w, c) /\ ~SummedUp(w, call[p]))
  <2>1. Passed(w)' \subseteq Passed(w)
    <3> SUFFICES ASSUME NEW m \in Passed(w)'
                 PROVE  m \in Passed(w)
      OBVIOUS
    <3>1. m \in Sliding!Members
      BY DEF Passed
    <3>2. CASE passed'[m] > 0
      BY <3>1, <3>2 DEF Passed, Respects
    <3>3. ASSUME NEW q \in Slots, SummedUp(w, call'[q]), m = Mine(call'[q])
          PROVE  m \in Passed(w)
      <4>1. CASE q = p
        <5>1. SummedUp(w, call[p]) /\ Mine(c) = Mine(call[p])
          BY <1>0, <1>5, <3>3, <4>1 DEF Respects
        <5> QED
          BY <1>0, <3>1, <3>3, <4>1, <5>1 DEF Passed
      <4>2. CASE q # p
        BY <1>0, <3>1, <3>3, <4>2 DEF Passed
      <4> QED
        BY <4>1, <4>2
    <3> QED
      BY <3>2, <3>3 DEF Passed
  <2>2. Counting(w)' \subseteq Counting(w)
    BY <2>1 DEF Counting
  <2>3. Sliding!Sum(Counting(w)') <= Sliding!Sum(Counting(w)) /\ Sliding!Sum(Counting(w)) \in Nat
        /\ Sliding!Sum(Counting(w)') \in Nat
    BY <2>2, MembersSum, CountingMembers
  <2>4. Sliding!Sum(Counting(w)') <= Limit[w]
    <3> DEFINE a == Sliding!Sum(Counting(w)')
               b == Sliding!Sum(Counting(w))
    <3>1. a <= b /\ b <= Limit[w] /\ a \in Nat /\ b \in Nat /\ Limit[w] \in Nat
      BY <1>0, <2>3 DEF SetInv
    <3> HIDE DEF a, b
    <3>2. a <= Limit[w]
      BY <3>1
    <3> QED
      BY <3>2 DEF a
  <2> QED
    BY <1>2, <1>3, <2>4 DEF SetInv, Sliding!Sum
<1> QED
  BY <1>4, <1>5

\* A set that is given all the time that a new one gets.
Renewed(w) ==
  /\ deadline'[w] >= now + Sliding!TimeToLive(w)
  /\ deadline'[w] = Sliding!Never => members'[w] = {}

\* What a call may do to the life of a set: it adds nothing but its own member,
\* leaves it no less time than it had or renews it, which it does before it is done
\* or fails, and leaves no set that has members without a time to live.
Prolongs(w, old, c) ==
  /\ \A m \in members'[w] : m \in members[w] \/ (m[1] <= now /\ Renewing(w, c) /\ m = Mine(c))
  /\ deadline'[w] >= deadline[w] \/ Renewed(w)
  /\ Renewing(w, old) =>
       (Renewing(w, c) /\ Mine(c) = Mine(old)) \/ Mine(old) \in stranded'[w] \/ Renewed(w)
  /\ stranded[w] \subseteq stranded'[w] \/ Renewed(w)
  /\ members'[w] # {} /\ deadline'[w] = Sliding!Never => deadline[w] = Sliding!Never

\* Then the set still lives long enough.
LEMMA LifeKept ==
  ASSUME Sliding!ConstantsAssumption, Sliding!TypeOK, Sliding!TypeOK', NEW p \in Slots, NEW c,
         call' = [call EXCEPT ![p] = c], now' = now,
         NEW w \in Sliding!Windows, LifeInv(w), Prolongs(w, call[p], c)
  PROVE  LifeInv(w)'
<1> DEFINE Waits(m) ==
             m \in stranded'[w] \/ \E q \in Slots : Renewing(w, call'[q]) /\ m = Mine(call'[q])
<1>0. /\ call'[p] = c /\ \A q \in Slots \ {p} : call'[q] = call[q]
      /\ deadline[w] \in Nat /\ deadline'[w] \in Nat /\ now \in Nat
      /\ Sliding!TimeToLive(w) \in Nat
      /\ \A m \in members'[w] : m[1] \in Nat
  <2>1. \A m \in members'[w] : m[1] \in Sliding!Times
    BY DEF Sliding!TypeOK, Sliding!Members
  <2>2. Sliding!Times \subseteq Nat /\ Sliding!TimeToLive(w) \in Nat
    BY SlidingNumbers
  <2>3. now \in Sliding!Times
    BY DEF Sliding!TypeOK
  <2> QED
    BY <2>1, <2>2, <2>3 DEF Sliding!TypeOK
<1>1. ASSUME NEW m \in members'[w]
      PROVE  /\ m[1] <= now
             /\ deadline'[w] >= m[1] + Sliding!TimeToLive(w) \/ Waits(m)
             /\ deadline'[w] = Sliding!Never => Waits(m)
  <2>1. CASE Renewing(w, c) /\ m = Mine(c) /\ m[1] <= now
    BY <1>0, <2>1
  <2>2. CASE m \in members[w] /\ Renewed(w)
    <3>1. m[1] <= now /\ m[1] \in Nat
      BY <1>0, <2>2 DEF LifeInv
    <3>2. deadline'[w] >= m[1] + Sliding!TimeToLive(w)
      BY <1>0, <2>2, <3>1 DEF Renewed
    <3> QED
      BY <2>2, <3>1, <3>2 DEF Renewed
  <2>3. CASE m \in members[w] /\ ~Renewed(w)
    <3>1. m[1] <= now /\ m[1] \in Nat /\ deadline'[w] >= deadline[w]
      BY <1>0, <2>3 DEF LifeInv, Prolongs
    <3>2. Unrenewed(w, m) => Waits(m)
      <4>1. m \in stranded[w] => m \in stranded'[w]
        BY <2>3 DEF Prolongs
      <4>2. ASSUME NEW q \in Slots, Renewing(w, call[q]), m = Mine(call[q])
            PROVE  Waits(m)
        <5>1. CASE q = p
          BY <1>0, <2>3, <4>2, <5>1 DEF Prolongs
        <5>2. CASE q # p
          BY <1>0, <4>2, <5>2
        <5> QED
          BY <5>1, <5>2
      <4> QED
        BY <4>1, <4>2 DEF Unrenewed
    <3>3. deadline'[w] >= m[1] + Sliding!TimeToLive(w) \/ Waits(m)
      <4>1. CASE deadline[w] >= m[1] + Sliding!TimeToLive(w)
        BY <1>0, <3>1, <4>1
      <4>2. CASE Unrenewed(w, m)
        BY <3>2, <4>2
      <4> QED
        BY <2>3, <4>1, <4>2 DEF LifeInv
    <3>4. deadline'[w] = Sliding!Never => Waits(m)
      BY <2>3, <3>2 DEF LifeInv, Prolongs
    <3> QED
      BY <3>1, <3>3, <3>4
  <2> QED
    BY <2>1, <2>2, <2>3 DEF Prolongs
<1> QED
  BY <1>0, <1>1 DEF LifeInv, Unrenewed, Sliding!TimeToLive, Sliding!Never

\* A call that does both, and no more, keeps the invariant.
LEMMA CallKeeps ==
  ASSUME Sliding!ConstantsAssumption, SlidingInv, Sliding!TypeOK', NEW p \in Slots, NEW c,
         call' = [call EXCEPT ![p] = c], UNCHANGED <<now, lost>>,
         c.at <= now, c.kind = "request" => c.score \in Scores,
         \A w \in Sliding!Windows : Respects(w, call[p], c) /\ Prolongs(w, call[p], c)
  PROVE  SlidingInv'
<1>1. /\ call'[p] = c /\ \A q \in Slots \ {p} : call'[q] = call[q]
  BY DEF SlidingInv, Sliding!TypeOK
<1>2. CallsInv'
  BY <1>1 DEF SlidingInv, CallsInv
<1> QED
  BY <1>2, SetKept, LifeKept DEF SlidingInv

\* Idle is a record of a call.
LEMMA IdleRecord ==
  ASSUME Sliding!ConstantsAssumption
  PROVE  /\ Sliding!Idle \in Records /\ Sliding!Idle.kind = "idle"
         /\ Sliding!Idle.at = Sliding!Start /\ Sliding!Idle.window = 1
         /\ Sliding!Idle.cmd = "rem" /\ Sliding!Idle.over = FALSE
BY SlidingNumbers DEF Sliding!Idle, Records

\* A step that leaves the sets as they are.
LEMMA QuietStep ==
  ASSUME Sliding!ConstantsAssumption, SlidingInv, Sliding!TypeOK', NEW p \in Slots, NEW c,
         call' = [call EXCEPT ![p] = c], UNCHANGED <<now, lost, members, deadline, passed>>,
         c.at <= now, c.kind = "request" => c.score \in Scores,
         \A w \in Sliding!Windows :
           /\ AddedTo(w, c) => AddedTo(w, call[p]) /\ Mine(c) = Mine(call[p])
           /\ SummedUp(w, c) => Mine(c) = Mine(call[p]) /\ AddedTo(w, call[p]) /\
                                 (SummedUp(w, call[p]) \/ Sliding!Sum(members[w]) <= Limit[w])
           /\ Renewing(w, call[p]) =>
                (Renewing(w, c) /\ Mine(c) = Mine(call[p])) \/ Mine(call[p]) \in stranded'[w]
           /\ stranded[w] \subseteq stranded'[w]
  PROVE  SlidingInv'
<1>1. ASSUME NEW w \in Sliding!Windows
      PROVE  Respects(w, call[p], c) /\ Prolongs(w, call[p], c)
  <2>1. Respects(w, call[p], c)
    BY DEF Respects
  <2>2. deadline[w] \in Nat
    BY DEF SlidingInv, Sliding!TypeOK
  <2>3. Prolongs(w, call[p], c)
    BY <2>2 DEF Prolongs
  <2> QED
    BY <2>1, <2>3
<1> QED
  BY <1>1, CallKeeps

-----------------------------------------------------------------------------
(* The steps                                                               *)

\* What is known of a call and of the numbers at each step.
LEMMA SlidingFacts ==
  ASSUME Sliding!ConstantsAssumption, SlidingInv, NEW p \in Slots
  PROVE  /\ call \in [Slots -> Records] /\ call[p] \in Records
         /\ call[p].window \in Sliding!Windows /\ call[p].at <= now
         /\ now \in Sliding!Times /\ now \in Nat
         /\ Sliding!N \in Nat \ {0} /\ Sliding!Windows = 1 .. Sliding!N
         /\ Sliding!Idle \in Records /\ Sliding!Idle.kind = "idle" /\ Sliding!Idle.at <= now
<1>1. call \in [Slots -> Records] /\ now \in Sliding!Times /\ call[p].at <= now
  BY DEF SlidingInv, Sliding!TypeOK, CallsInv, Records
<1>2. call[p] \in Records /\ call[p].window \in Sliding!Windows
  BY <1>1 DEF Records
<1>3. Sliding!Start <= now
  <2>1. Sliding!Start \in Nat /\ MaxTime \in Nat
    BY SlidingNumbers
  <2> QED
    BY <1>1, <2>1 DEF Sliding!Times
<1> QED
  BY <1>1, <1>2, <1>3, IdleRecord, SlidingNumbers

\* Sliding windows: a request that begins keeps the invariant.
LEMMA SlidingRequest ==
  ASSUME Sliding!ConstantsAssumption, SlidingInv, NEW p \in Slots, NEW score \in Scores,
         Sliding!request(p, score)
  PROVE  SlidingInv'
<1> DEFINE c == [Sliding!Idle EXCEPT !.kind = "request", !.at = now, !.score = score]
<1>1. /\ c \in Records /\ c.kind = "request" /\ c.at = now /\ c.score = score
      /\ c.window = 1 /\ c.cmd = "rem" /\ call[p].kind = "idle"
  BY IdleRecord, SlidingFacts DEF Sliding!request, Records
<1>2. /\ call' = [call EXCEPT ![p] = c]
      /\ UNCHANGED <<now, members, deadline, promised, passed, lost, stranded, errors>>
      /\ made' = made + 1 /\ made < MaxCalls
  BY DEF Sliding!request
<1> HIDE DEF c
<1>3. Sliding!TypeOK'
  <2>1. call' \in [Slots -> Records]
    BY <1>1, <1>2, SlidingFacts
  <2>2. made' \in 0 .. MaxCalls
    BY <1>2 DEF SlidingInv, Sliding!TypeOK, Sliding!ConstantsAssumption
  <2> QED
    BY <1>2, <2>1, <2>2 DEF SlidingInv, Sliding!TypeOK, Records
<1>4. \A w \in Sliding!Windows : ~AddedTo(w, c) /\ ~SummedUp(w, c) /\ ~Renewing(w, call[p])
  BY <1>1, SlidingNumbers DEF AddedTo, SummedUp, Renewing
<1>5. c.at <= now
  BY <1>1, SlidingFacts
<1> QED
  BY <1>1, <1>2, <1>3, <1>4, <1>5, QuietStep

\* Sliding windows: a quota that begins keeps it.
LEMMA SlidingQuota ==
  ASSUME Sliding!ConstantsAssumption, SlidingInv, NEW p \in Slots, Sliding!quota(p)
  PROVE  SlidingInv'
<1> DEFINE c == [Sliding!Idle EXCEPT !.kind = "quota", !.at = now]
<1>1. /\ c \in Records /\ c.kind = "quota" /\ c.at = now /\ call[p].kind = "idle"
  BY IdleRecord, SlidingFacts DEF Sliding!quota, Records
<1>2. /\ call' = [call EXCEPT ![p] = c]
      /\ UNCHANGED <<now, members, deadline, promised, passed, lost, stranded, errors>>
      /\ made' = made + 1 /\ made < MaxCalls
  BY DEF Sliding!quota
<1> HIDE DEF c
<1>3. Sliding!TypeOK'
  <2>1. call' \in [Slots -> Records]
    BY <1>1, <1>2, SlidingFacts
  <2>2. made' \in 0 .. MaxCalls
    BY <1>2 DEF SlidingInv, Sliding!TypeOK, Sliding!ConstantsAssumption
  <2> QED
    BY <1>2, <2>1, <2>2 DEF SlidingInv, Sliding!TypeOK, Records
<1>4. \A w \in Sliding!Windows : ~AddedTo(w, c) /\ ~SummedUp(w, c) /\ ~Renewing(w, call[p])
  BY <1>1 DEF AddedTo, SummedUp, Renewing
<1>5. c.at <= now
  BY <1>1, SlidingFacts
<1> QED
  BY <1>1, <1>2, <1>3, <1>4, <1>5, QuietStep

\* The next window, or the end.
LEMMA NextWindowMoves ==
  ASSUME Sliding!ConstantsAssumption, SlidingInv, NEW p \in Slots,
         NEW cmd \in {"rem", "add", "range", "expire"}, NEW last \in Records,
         Sliding!NextWindow(p, cmd, last)
  PROVE  \E c \in Records :
           /\ call' = [call EXCEPT ![p] = c]
           /\ \/ /\ call[p].window < Sliding!N
                 /\ c.kind = call[p].kind /\ c.at = call[p].at /\ c.score = call[p].score
                 /\ c.over = call[p].over /\ c.window = call[p].window + 1 /\ c.cmd = cmd
              \/ call[p].window = Sliding!N /\ c = last
<1> DEFINE d == [call[p] EXCEPT !.window = @ + 1, !.cmd = cmd]
<1>1. /\ call \in [Slots -> Records] /\ call[p] \in Records /\ call[p].window \in 1 .. Sliding!N
      /\ Sliding!N \in Nat \ {0} /\ Sliding!Windows = 1 .. Sliding!N
  BY SlidingFacts
<1>2. CASE call[p].window < Sliding!N
  <2>1. call' = [call EXCEPT ![p] = d]
    <3>1. call[p].window # Sliding!N
      BY <1>1, <1>2
    <3> QED
      BY <3>1 DEF Sliding!NextWindow
  <2>2. call[p].window + 1 \in Sliding!Windows
    BY <1>1, <1>2
  <2>3. /\ d \in Records /\ d.kind = call[p].kind /\ d.at = call[p].at
        /\ d.score = call[p].score /\ d.over = call[p].over
        /\ d.window = call[p].window + 1 /\ d.cmd = cmd
    BY <1>1, <2>2 DEF Records
  <2> HIDE DEF d
  <2> QED
    BY <1>2, <2>1, <2>3
<1>3. CASE call[p].window = Sliding!N
  <2>1. call' = [call EXCEPT ![p] = last]
    BY <1>1, <1>3 DEF Sliding!NextWindow
  <2> QED
    BY <1>3, <2>1
<1> QED
  BY <1>1, <1>2, <1>3

\* Times to live are shorter than for ever.
LEMMA Deadlines ==
  ASSUME Sliding!ConstantsAssumption, SlidingInv, NEW w \in Sliding!Windows
  PROVE  /\ deadline[w] \in Nat /\ Sliding!Never \in Nat /\ deadline[w] <= Sliding!Never
         /\ now \in Nat /\ Sliding!TimeToLive(w) \in Nat
         /\ now + Sliding!TimeToLive(w) < Sliding!Never
         /\ now + Sliding!TimeToLive(w) > now
<1>1. /\ now \in Sliding!Times /\ deadline[w] \in Nat
      /\ deadline[w] \in (now + 1 .. now + Sliding!TimeToLive(w)) \cup {Sliding!Never}
  BY DEF SlidingInv, Sliding!TypeOK
<1>2. /\ Sliding!TimeToLive(w) \in Nat /\ MaxTime + Sliding!TimeToLive(w) < Sliding!Never
      /\ Sliding!Never \in Nat
      /\ MaxTime \in Nat /\ Sliding!Start \in Nat /\ Sliding!TimeToLive(w) > Length[w]
      /\ Length[w] \in Nat
  BY SlidingNumbers
<1>3. now \in Nat /\ now <= MaxTime
  BY <1>1, <1>2 DEF Sliding!Times
<1> QED
  BY SMTT(30), <1>1, <1>2, <1>3

\* Sliding windows: ZREMRANGEBYSCORE keeps it.
LEMMA SlidingRem ==
  ASSUME Sliding!ConstantsAssumption, SlidingInv, NEW p \in Slots, Sliding!Rem(p)
  PROVE  SlidingInv'
<1> DEFINE v == call[p].window
           old == call[p]
<1>1. /\ v \in Sliding!Windows /\ old \in Records /\ old.at <= now /\ now \in Nat
      /\ old.at \in Nat
      /\ call \in [Slots -> Records] /\ old.kind \in {"request", "quota"} /\ old.cmd = "rem"
  <2>1. old \in Records /\ v \in Sliding!Windows /\ old.at <= now /\ now \in Nat
    BY SlidingFacts
  <2>2. old.at \in Sliding!Times /\ old.kind \in {"idle", "request", "quota"}
    BY <2>1 DEF Records
  <2> QED
    BY <2>1, <2>2, SlidingFacts, SlidingNumbers DEF Sliding!Rem
<1>2. /\ members' = [members EXCEPT ![v] = @ \ Sliding!TooOld(v, old.at)]
      /\ deadline' = IF members'[v] = {} THEN [deadline EXCEPT ![v] = Sliding!Never] ELSE deadline
      /\ UNCHANGED <<now, promised, made, passed, lost, stranded, errors>>
  BY DEF Sliding!Rem
<1>3. ASSUME NEW w \in Sliding!Windows
      PROVE  /\ members'[w] \subseteq members[w]
             /\ \A m \in members[w] : m \in members'[w] \/ m[1] <= now - Length[w]
             /\ deadline'[w] \in {deadline[w], Sliding!Never}
             /\ deadline'[w] >= deadline[w]
             /\ members'[w] # {} /\ deadline'[w] = Sliding!Never =>
                  members[w] # {} /\ deadline[w] = Sliding!Never
  <2>1. /\ members'[w] = IF w = v THEN members[w] \ Sliding!TooOld(v, old.at) ELSE members[w]
        /\ deadline'[w] = IF w = v /\ members'[v] = {} THEN Sliding!Never ELSE deadline[w]
    BY <1>2 DEF SlidingInv, Sliding!TypeOK
  <2>2. \A m \in Sliding!TooOld(w, old.at) : m[1] <= now - Length[w]
    <3> SUFFICES ASSUME NEW m \in Sliding!TooOld(w, old.at)
                 PROVE  m[1] <= now - Length[w]
      OBVIOUS
    <3>1. m[1] \in Nat /\ m[1] <= old.at - Length[w] /\ Length[w] \in Nat
      BY SlidingNumbers DEF Sliding!TooOld, Sliding!Members
    <3> HIDE DEF old
    <3> QED
      BY <1>1, <3>1
  <2>3. deadline[w] \in Nat /\ Sliding!Never \in Nat /\ deadline[w] <= Sliding!Never
    BY Deadlines
  <2> HIDE DEF v, old
  <2>4. members'[w] \subseteq members[w]
    BY <2>1
  <2>5. \A m \in members[w] : m \in members'[w] \/ m[1] <= now - Length[w]
    BY <2>1, <2>2
  <2>6. CASE w = v /\ members'[v] = {}
    BY <2>1, <2>3, <2>4, <2>5, <2>6
  <2>7. CASE ~(w = v /\ members'[v] = {})
    <3>1. deadline'[w] = deadline[w]
      BY <2>1, <2>7
    <3> QED
      BY <2>3, <2>4, <2>5, <3>1
  <2> QED
    BY <2>6, <2>7
<1>4. /\ members' \in [Sliding!Windows -> SUBSET Sliding!Members]
      /\ deadline' \in [Sliding!Windows -> Nat]
      /\ \A w \in Sliding!Windows :
           deadline'[w] \in (now' + 1 .. now' + Sliding!TimeToLive(w)) \cup {Sliding!Never}
  <2>1. members' \in [Sliding!Windows -> SUBSET Sliding!Members]
    BY <1>2 DEF SlidingInv, Sliding!TypeOK
  <2>2. deadline' \in [Sliding!Windows -> Nat]
    BY <1>2, SlidingNumbers DEF SlidingInv, Sliding!TypeOK
  <2>3. \A w \in Sliding!Windows :
          deadline'[w] \in (now' + 1 .. now' + Sliding!TimeToLive(w)) \cup {Sliding!Never}
    <3> SUFFICES ASSUME NEW w \in Sliding!Windows
                 PROVE  deadline'[w] \in (now' + 1 .. now' + Sliding!TimeToLive(w))
                                            \cup {Sliding!Never}
      OBVIOUS
    <3>1. deadline'[w] \in {deadline[w], Sliding!Never}
      BY <1>3
    <3> QED
      BY <1>2, <3>1 DEF SlidingInv, Sliding!TypeOK
  <2> QED
    BY <2>1, <2>2, <2>3
<1>5. PICK c \in Records :
        /\ call' = [call EXCEPT ![p] = c]
        /\ c.kind = old.kind /\ c.at = old.at /\ c.score = old.score
        /\ old.kind = "request" => c.window = old.window /\ c.cmd = "add" /\ c.over = old.over
  <2>1. CASE old.kind = "quota"
    <3> DEFINE last == [call[p] EXCEPT !.window = 1, !.cmd = "range"]
    <3>1. Sliding!NextWindow(p, "rem", last)
      BY <2>1 DEF Sliding!Rem
    <3>2. /\ last \in Records /\ last.kind = old.kind /\ last.at = old.at
          /\ last.score = old.score
      <4>1. 1 \in Sliding!Windows
        BY SlidingNumbers
      <4> QED
        BY <1>1, <4>1 DEF Records
    <3> HIDE DEF last
    <3>3. PICK c \in Records :
           /\ call' = [call EXCEPT ![p] = c]
           /\ \/ /\ call[p].window < Sliding!N
                 /\ c.kind = call[p].kind /\ c.at = call[p].at /\ c.score = call[p].score
                 /\ c.over = call[p].over /\ c.window = call[p].window + 1 /\ c.cmd = "rem"
              \/ call[p].window = Sliding!N /\ c = last
      BY <3>1, <3>2, NextWindowMoves
    <3> QED
      BY <2>1, <3>2, <3>3
  <2>2. CASE old.kind = "request"
    <3> DEFINE c == [old EXCEPT !.cmd = "add"]
    <3>1. call' = [call EXCEPT ![p] = c]
      BY <2>2 DEF Sliding!Rem
    <3>2. /\ c \in Records /\ c.kind = old.kind /\ c.at = old.at /\ c.score = old.score
          /\ c.window = old.window /\ c.cmd = "add" /\ c.over = old.over
      BY <1>1 DEF Records
    <3> HIDE DEF c
    <3> QED
      BY <3>1, <3>2
  <2> QED
    BY <1>1, <2>1, <2>2
<1>6. Sliding!TypeOK'
  <2>1. call' \in [Slots -> Records]
    BY <1>1, <1>5
  <2> QED
    BY <1>2, <1>4, <2>1 DEF SlidingInv, Sliding!TypeOK, Records
<1>7. ASSUME NEW w \in Sliding!Windows
      PROVE  Respects(w, old, c) /\ Prolongs(w, old, c)
  <2>1. /\ AddedTo(w, c) => AddedTo(w, old) /\ Mine(c) = Mine(old)
        /\ SummedUp(w, c) => SummedUp(w, old) /\ Mine(c) = Mine(old)
        /\ ~Renewing(w, old)
    BY <1>1, <1>5 DEF AddedTo, SummedUp, Mine, Renewing
  <2> HIDE DEF old
  <2>2. Respects(w, old, c)
    BY <1>2, <1>3, <2>1 DEF Respects
  <2>3. Prolongs(w, old, c)
    BY <1>2, <1>3, <2>1 DEF Prolongs
  <2> QED
    BY <2>2, <2>3
<1>8. c.at <= now /\ (c.kind = "request" => c.score \in Scores)
  BY <1>1, <1>5 DEF SlidingInv, CallsInv
<1> QED
  BY <1>2, <1>5, <1>6, <1>7, <1>8, CallKeeps

\* Sliding windows: ZADD keeps it.
LEMMA SlidingAdd ==
  ASSUME Sliding!ConstantsAssumption, SlidingInv, NEW p \in Slots, Sliding!Add(p)
  PROVE  SlidingInv'
<1> DEFINE v == call[p].window
           old == call[p]
           c == [old EXCEPT !.cmd = "range"]
<1>1. /\ v \in Sliding!Windows /\ old \in Records /\ old.at <= now
      /\ call \in [Slots -> Records] /\ old.kind = "request" /\ old.cmd = "add"
      /\ Mine(old) \in Sliding!Members
  <2>1. /\ old \in Records /\ v \in Sliding!Windows /\ old.at <= now /\ old.kind = "request"
        /\ old.cmd = "add"
    BY SlidingFacts DEF Sliding!Add, Sliding!At
  <2>2. old.at \in Sliding!Times /\ old.score \in Scores
    BY <2>1 DEF Records, SlidingInv, CallsInv
  <2> QED
    BY <2>1, <2>2, SlidingFacts DEF Mine, Sliding!Members
<1>2. /\ members' = [members EXCEPT ![v] = @ \cup {Mine(old)}]
      /\ call' = [call EXCEPT ![p] = c]
      /\ UNCHANGED <<now, deadline, promised, made, passed, lost, stranded, errors>>
  BY DEF Sliding!Add, Mine
<1>3. /\ c \in Records /\ c.kind = "request" /\ c.at = old.at /\ c.score = old.score
      /\ c.window = v /\ c.cmd = "range" /\ c.over = old.over
  BY <1>1 DEF Records
<1>4. Mine(c) = Mine(old) /\ Mine(old)[1] = old.at
  BY <1>3 DEF Mine
<1> HIDE DEF c
<1>5. Sliding!TypeOK'
  <2>1. call' \in [Slots -> Records]
    BY <1>1, <1>2, <1>3
  <2>2. members' \in [Sliding!Windows -> SUBSET Sliding!Members]
    BY <1>1, <1>2 DEF SlidingInv, Sliding!TypeOK
  <2> QED
    BY <1>2, <2>1, <2>2 DEF SlidingInv, Sliding!TypeOK, Records
<1>6. ASSUME NEW w \in Sliding!Windows
      PROVE  Respects(w, old, c) /\ Prolongs(w, old, c)
  <2>1. /\ members'[w] = IF w = v THEN members[w] \cup {Mine(old)} ELSE members[w]
        /\ deadline'[w] = deadline[w] /\ deadline[w] \in Nat
    BY <1>2 DEF SlidingInv, Sliding!TypeOK
  <2>2. /\ AddedTo(w, c) => AddedTo(w, old) \/ w = v
        /\ SummedUp(w, c) => SummedUp(w, old)
        /\ ~Renewing(w, old)
        /\ w = v => Renewing(w, c)
    BY <1>1, <1>3 DEF AddedTo, SummedUp, Renewing
  <2> HIDE DEF old, v
  <2>3. Respects(w, old, c)
    BY <1>2, <1>4, <2>1, <2>2 DEF Respects
  <2>4. Prolongs(w, old, c)
    <3>1. CASE w = v
      BY <1>1, <1>2, <1>4, <2>1, <2>2, <3>1 DEF Prolongs
    <3>2. CASE w # v
      BY <1>2, <2>1, <2>2, <3>2 DEF Prolongs
    <3> QED
      BY <3>1, <3>2
  <2> QED
    BY <2>3, <2>4
<1>7. c.at <= now /\ (c.kind = "request" => c.score \in Scores)
  BY <1>1, <1>3 DEF SlidingInv, CallsInv
<1> QED
  BY <1>2, <1>5, <1>6, <1>7, CallKeeps

\* Sliding windows: ZRANGE for a request keeps it.
LEMMA SlidingSumUp ==
  ASSUME Sliding!ConstantsAssumption, SlidingInv, NEW p \in Slots, Sliding!SumUp(p)
  PROVE  SlidingInv'
<1> DEFINE v == call[p].window
           old == call[p]
           b == old.over \/ Sliding!Sum(members[v]) > Limit[v]
           c == [old EXCEPT !.cmd = "expire", !.over = b]
<1>1. /\ v \in Sliding!Windows /\ old \in Records /\ old.at <= now
      /\ call \in [Slots -> Records] /\ old.kind = "request" /\ old.cmd = "range"
      /\ b \in BOOLEAN
  BY SlidingFacts DEF Sliding!SumUp, Sliding!At
<1>2. /\ call' = [call EXCEPT ![p] = c]
      /\ UNCHANGED <<now, members, deadline, promised, made, passed, lost, stranded, errors>>
  <2>1. call' = [call EXCEPT ![p].cmd = "expire", ![p].over = b]
    BY DEF Sliding!SumUp
  <2> HIDE DEF b
  <2> QED
    BY <1>1, <2>1 DEF Sliding!SumUp, Records
<1>3. /\ c \in Records /\ c.kind = "request" /\ c.at = old.at /\ c.score = old.score
      /\ c.window = v /\ c.cmd = "expire" /\ c.over = b
  <2> HIDE DEF b
  <2> QED
    BY <1>1 DEF Records
<1>4. Sliding!Sum(members[v]) \in Nat /\ Limit[v] \in Nat
  <2>1. members[v] \in SUBSET Sliding!Members
    BY <1>1 DEF SlidingInv, Sliding!TypeOK
  <2> QED
    BY <1>1, <2>1, MembersSum, SlidingNumbers
<1> HIDE DEF c
<1>5. Sliding!TypeOK'
  <2>1. call' \in [Slots -> Records]
    BY <1>1, <1>2, <1>3
  <2> QED
    BY <1>2, <2>1 DEF SlidingInv, Sliding!TypeOK, Records
<1>6. ASSUME NEW w \in Sliding!Windows
      PROVE  /\ AddedTo(w, c) => AddedTo(w, old) /\ Mine(c) = Mine(old)
             /\ SummedUp(w, c) => Mine(c) = Mine(old) /\ AddedTo(w, old) /\
                                   (SummedUp(w, old) \/ Sliding!Sum(members[w]) <= Limit[w])
             /\ Renewing(w, old) => Renewing(w, c) /\ Mine(c) = Mine(old)
  <2>1. Mine(c) = Mine(old)
    BY <1>3 DEF Mine
  <2>2. AddedTo(w, c) => AddedTo(w, old)
    BY <1>1, <1>3 DEF AddedTo
  <2>3. Renewing(w, old) => Renewing(w, c)
    BY <1>1, <1>3 DEF Renewing
  <2>4. SummedUp(w, c) =>
          AddedTo(w, old) /\ (SummedUp(w, old) \/ Sliding!Sum(members[w]) <= Limit[w])
    <3> SUFFICES ASSUME SummedUp(w, c)
                 PROVE  /\ AddedTo(w, old)
                        /\ SummedUp(w, old) \/ Sliding!Sum(members[w]) <= Limit[w]
      OBVIOUS
    <3>1. ~b /\ (v > w \/ v = w)
      BY <1>3 DEF SummedUp
    <3>2. CASE v > w
      BY <1>1, <3>1, <3>2 DEF AddedTo, SummedUp
    <3>3. CASE v = w
      <4>1. Sliding!Sum(members[w]) <= Limit[w]
        BY <1>4, <3>1, <3>3
      <4> QED
        BY <1>1, <3>3, <4>1 DEF AddedTo
    <3> QED
      BY <3>1, <3>2, <3>3
  <2> QED
    BY <2>1, <2>2, <2>3, <2>4
<1>7. c.at <= now /\ (c.kind = "request" => c.score \in Scores)
  BY <1>1, <1>3 DEF SlidingInv, CallsInv
<1> QED
  BY <1>2, <1>5, <1>6, <1>7, QuietStep

\* Sliding windows: ZRANGE for a quota keeps it.
LEMMA SlidingQuotaRange ==
  ASSUME Sliding!ConstantsAssumption, SlidingInv, NEW p \in Slots, Sliding!QuotaRange(p)
  PROVE  SlidingInv'
<1> DEFINE v == call[p].window
           n == Limit[v] - Sliding!SumOfTimes(members[v])
<1>1. /\ v \in Sliding!Windows /\ call[p] \in Records /\ call[p].at <= now
      /\ call \in [Slots -> Records] /\ call[p].kind = "quota" /\ Sliding!Idle \in Records
      /\ Sliding!Idle.kind = "idle" /\ Sliding!Idle.at <= now
  BY SlidingFacts DEF Sliding!QuotaRange, Sliding!At
<1>2. /\ promised' = [promised EXCEPT ![p][v] = n]
      /\ UNCHANGED <<now, members, deadline, made, passed, lost, stranded, errors>>
      /\ Sliding!NextWindow(p, "range", Sliding!Idle)
  BY DEF Sliding!QuotaRange
<1>3. n \in Int
  <2>1. members[v] \in SUBSET Sliding!Members
    BY <1>1 DEF SlidingInv, Sliding!TypeOK
  <2>2. Sliding!SumOfTimes(members[v]) \in Nat /\ Limit[v] \in Nat
    BY <1>1, <2>1, MembersSum, SlidingNumbers
  <2> QED
    BY <2>2
<1>4. PICK c \in Records :
        /\ call' = [call EXCEPT ![p] = c]
        /\ c.kind # "request" /\ c.at <= now
  <2>1. PICK c \in Records :
          /\ call' = [call EXCEPT ![p] = c]
          /\ \/ /\ call[p].window < Sliding!N
                /\ c.kind = call[p].kind /\ c.at = call[p].at /\ c.score = call[p].score
                /\ c.over = call[p].over /\ c.window = call[p].window + 1 /\ c.cmd = "range"
             \/ call[p].window = Sliding!N /\ c = Sliding!Idle
    BY <1>1, <1>2, NextWindowMoves
  <2> QED
    BY <1>1, <2>1
<1>5. Sliding!TypeOK'
  <2>1. call' \in [Slots -> Records]
    BY <1>1, <1>4
  <2> HIDE DEF n
  <2>2. promised' \in [Slots -> [Sliding!Windows -> Int]]
    BY <1>1, <1>2, <1>3 DEF SlidingInv, Sliding!TypeOK
  <2> QED
    BY <1>2, <2>1, <2>2 DEF SlidingInv, Sliding!TypeOK, Records
<1>6. \A w \in Sliding!Windows : ~AddedTo(w, c) /\ ~SummedUp(w, c) /\ ~Renewing(w, call[p])
  BY <1>1, <1>4 DEF AddedTo, SummedUp, Renewing
<1> QED
  BY <1>2, <1>4, <1>5, <1>6, QuietStep

\* Sliding windows: EXPIRE, and what it answers, keeps it.
LEMMA SlidingExpire ==
  ASSUME Sliding!ConstantsAssumption, SlidingInv, NEW p \in Slots, Sliding!Expire(p)
  PROVE  SlidingInv'
<1> DEFINE v == call[p].window
           old == call[p]
           t == IF members[v] = {} THEN Sliding!Never ELSE now + Sliding!TimeToLive(v)
<1>1. /\ v \in Sliding!Windows /\ old \in Records /\ old.at <= now /\ v \in 1 .. Sliding!N
      /\ Sliding!N \in Nat
      /\ call \in [Slots -> Records] /\ old.kind = "request" /\ old.cmd = "expire"
      /\ Mine(old) \in Sliding!Members /\ now \in Nat
      /\ Sliding!Idle \in Records /\ Sliding!Idle.kind = "idle" /\ Sliding!Idle.at <= now
  <2>1. /\ old \in Records /\ v \in Sliding!Windows /\ old.at <= now /\ old.kind = "request"
        /\ old.cmd = "expire"
    BY SlidingFacts DEF Sliding!Expire, Sliding!At
  <2>2. old.at \in Sliding!Times /\ old.score \in Scores
    BY <2>1 DEF Records, SlidingInv, CallsInv
  <2> QED
    BY <2>1, <2>2, SlidingFacts DEF Mine, Sliding!Members
<1>2. /\ deadline' = [deadline EXCEPT ![v] = t]
      /\ Sliding!NextWindow(p, "rem", Sliding!Idle)
      /\ passed' = IF v < Sliding!N \/ old.over THEN passed
                                                   ELSE [passed EXCEPT ![Mine(old)] = @ + 1]
      /\ stranded' = [stranded EXCEPT ![v] = {}]
      /\ UNCHANGED <<now, members, promised, made, lost, errors>>
  BY DEF Sliding!Expire, Mine
<1>3. /\ t \in Nat /\ t \in (now + 1 .. now + Sliding!TimeToLive(v)) \cup {Sliding!Never}
      /\ t >= now + Sliding!TimeToLive(v) /\ (t = Sliding!Never => members[v] = {})
  <2>1. /\ deadline[v] \in Nat /\ Sliding!Never \in Nat /\ now \in Nat
        /\ Sliding!TimeToLive(v) \in Nat
        /\ now + Sliding!TimeToLive(v) < Sliding!Never /\ now + Sliding!TimeToLive(v) > now
    BY <1>1, Deadlines
  <2>2. CASE members[v] = {}
    BY <2>1, <2>2
  <2>3. CASE members[v] # {}
    <3>1. t = now + Sliding!TimeToLive(v)
      BY <2>3
    <3> HIDE DEF t
    <3> QED
      BY <2>1, <3>1
  <2> QED
    BY <2>2, <2>3
<1> HIDE DEF t
<1>4. PICK c \in Records :
        /\ call' = [call EXCEPT ![p] = c]
        /\ \/ /\ v < Sliding!N
              /\ c.kind = "request" /\ c.at = old.at /\ c.score = old.score
              /\ c.over = old.over /\ c.window = v + 1 /\ c.cmd = "rem"
           \/ v = Sliding!N /\ c = Sliding!Idle
  BY <1>1, <1>2, NextWindowMoves
<1>5. Sliding!TypeOK'
  <2>1. call' \in [Slots -> Records]
    BY <1>1, <1>4
  <2>2. passed' \in [Sliding!Members -> Nat]
    BY <1>1, <1>2 DEF SlidingInv, Sliding!TypeOK
  <2>3. /\ deadline' \in [Sliding!Windows -> Nat]
        /\ \A w \in Sliding!Windows :
             deadline'[w] \in (now' + 1 .. now' + Sliding!TimeToLive(w)) \cup {Sliding!Never}
    BY <1>1, <1>2, <1>3 DEF SlidingInv, Sliding!TypeOK
  <2>4. stranded' \in [Sliding!Windows -> SUBSET Sliding!Members]
    BY <1>2 DEF SlidingInv, Sliding!TypeOK
  <2> QED
    BY <1>2, <2>1, <2>2, <2>3, <2>4 DEF SlidingInv, Sliding!TypeOK, Records
<1>6. ASSUME NEW w \in Sliding!Windows
      PROVE  Respects(w, old, c) /\ Prolongs(w, old, c)
  <2>1. members'[w] = members[w] /\ deadline[w] \in Nat /\ w \in Nat /\ w <= Sliding!N
        /\ deadline'[w] = IF w = v THEN t ELSE deadline[w]
    <3>1. w \in 1 .. Sliding!N /\ Sliding!N \in Nat
      BY SlidingNumbers
    <3>2. members'[w] = members[w] /\ deadline[w] \in Nat
      BY <1>2 DEF SlidingInv, Sliding!TypeOK
    <3>3. deadline'[w] = IF w = v THEN t ELSE deadline[w]
      BY <1>2 DEF SlidingInv, Sliding!TypeOK
    <3> QED
      BY <3>1, <3>2, <3>3
  <2>2. /\ AddedTo(w, c) => AddedTo(w, old) /\ Mine(c) = Mine(old)
        /\ SummedUp(w, c) => SummedUp(w, old) /\ Mine(c) = Mine(old)
    BY <1>1, <1>4, <2>1 DEF AddedTo, SummedUp, Mine
  <2>3. Renewing(w, old) <=> w = v
    BY <1>1 DEF Renewing
  <2>4. \A m \in Sliding!Members : passed'[m] > 0 =>
          passed[m] > 0 \/ (SummedUp(w, old) /\ m = Mine(old))
    <3>1. CASE v < Sliding!N \/ old.over
      BY <1>2, <3>1
    <3>2. CASE ~(v < Sliding!N \/ old.over)
      <4>1. SummedUp(w, old)
        BY <1>1, <2>1, <3>2 DEF SummedUp
      <4>2. \A m \in Sliding!Members : m # Mine(old) => passed'[m] = passed[m]
        BY <1>2, <3>2 DEF SlidingInv, Sliding!TypeOK
      <4> QED
        BY <4>1, <4>2
    <3> QED
      BY <3>1, <3>2
  <2> HIDE DEF old, v
  <2>5. Respects(w, old, c)
    BY <2>1, <2>2, <2>4 DEF Respects
  <2>6. Prolongs(w, old, c)
    <3>0. w # v => stranded'[w] = stranded[w]
      BY <1>2 DEF SlidingInv, Sliding!TypeOK
    <3>1. CASE w = v
      <4>1. Renewed(w)
        BY <1>3, <2>1, <3>1 DEF Renewed
      <4> QED
        BY <1>3, <2>1, <3>1, <4>1 DEF Prolongs
    <3>2. CASE w # v
      BY <2>1, <2>3, <3>0, <3>2 DEF Prolongs
    <3> QED
      BY <3>1, <3>2
  <2> QED
    BY <2>5, <2>6
<1>7. c.at <= now /\ (c.kind = "request" => c.score \in Scores)
  BY <1>1, <1>4 DEF SlidingInv, CallsInv
<1> QED
  BY <1>2, <1>4, <1>5, <1>6, <1>7, CallKeeps

\* Sliding windows: a command that fails, and the call with it, keeps it.
LEMMA SlidingFail ==
  ASSUME Sliding!ConstantsAssumption, SlidingInv, NEW p \in Slots, Sliding!Fail(p)
  PROVE  SlidingInv'
<1>1. /\ call[p] \in Records /\ call \in [Slots -> Records] /\ Sliding!Idle \in Records
      /\ Sliding!Idle.kind = "idle" /\ Sliding!Idle.at <= now
  BY SlidingFacts
<1>2. /\ call' = [call EXCEPT ![p] = Sliding!Idle]
      /\ errors' = errors + 1 /\ errors < MaxErrors
      /\ stranded' = [w \in Sliding!Windows |->
                        IF Renewing(w, call[p]) THEN stranded[w] \cup {Mine(call[p])}
                        ELSE stranded[w]]
      /\ UNCHANGED <<now, members, deadline, promised, made, passed, lost>>
  BY DEF Sliding!Fail, Sliding!Renewing, Renewing, Sliding!Mine, Mine
<1>3. \A w \in Sliding!Windows :
        /\ Renewing(w, call[p]) => Mine(call[p]) \in Sliding!Members
        /\ Renewing(w, call[p]) => Mine(call[p]) \in stranded'[w]
        /\ stranded[w] \subseteq stranded'[w]
  <2>1. call[p].kind = "request" => call[p].at \in Sliding!Times /\ call[p].score \in Scores
    BY <1>1 DEF Records, SlidingInv, CallsInv
  <2> QED
    BY <1>2, <2>1 DEF Renewing, Mine, Sliding!Members
<1>4. Sliding!TypeOK'
  <2>1. call' \in [Slots -> Records]
    BY <1>1, <1>2
  <2>2. errors' \in 0 .. MaxErrors
    BY <1>2 DEF SlidingInv, Sliding!TypeOK, Sliding!ConstantsAssumption
  <2>3. stranded' \in [Sliding!Windows -> SUBSET Sliding!Members]
    BY <1>2, <1>3 DEF SlidingInv, Sliding!TypeOK
  <2> QED
    BY <1>2, <2>1, <2>2, <2>3 DEF SlidingInv, Sliding!TypeOK, Records
<1>5. \A w \in Sliding!Windows : ~AddedTo(w, Sliding!Idle) /\ ~SummedUp(w, Sliding!Idle)
  BY <1>1 DEF AddedTo, SummedUp
<1> HIDE DEF Sliding!Idle
<1> QED
  BY <1>1, <1>2, <1>3, <1>4, <1>5, QuietStep

\* Sliding windows: time that passes, and sets that expire, keep it.
LEMMA SlidingTick ==
  ASSUME Sliding!ConstantsAssumption, SlidingInv, Sliding!Tick
  PROVE  SlidingInv'
<1>1. /\ now' = now + 1 /\ now < MaxTime /\ UNCHANGED <<call, promised, made, passed, stranded, errors>>
      /\ members' = [w \in Sliding!Windows |-> IF deadline[w] = now' THEN {} ELSE members[w]]
      /\ deadline' = [w \in Sliding!Windows |->
                        IF deadline[w] = now' THEN Sliding!Never ELSE deadline[w]]
      /\ lost' = [w \in Sliding!Windows |->
                    IF deadline[w] = now' THEN lost[w] \cup (members[w] \ Sliding!TooOld(w, now'))
                    ELSE lost[w]]
  BY DEF Sliding!Tick
<1>2. now \in Nat /\ now' \in Sliding!Times /\ now' \in Nat
  <2>1. Sliding!Start \in Nat /\ MaxTime \in Nat /\ now \in Sliding!Times
    BY SlidingNumbers DEF SlidingInv, Sliding!TypeOK
  <2> QED
    BY <1>1, <2>1 DEF Sliding!Times
<1>3. ASSUME NEW w \in Sliding!Windows
      PROVE  /\ members[w] \in SUBSET Sliding!Members /\ deadline[w] \in Nat
             /\ deadline'[w] \in Nat
             /\ deadline'[w] \in (now' + 1 .. now' + Sliding!TimeToLive(w)) \cup {Sliding!Never}
             /\ \/ deadline[w] = now' /\ deadline'[w] = Sliding!Never /\ members'[w] = {}
                   /\ lost'[w] = lost[w] \cup (members[w] \ Sliding!TooOld(w, now'))
                \/ deadline'[w] = deadline[w] /\ members'[w] = members[w] /\ lost'[w] = lost[w]
             /\ Length[w] \in Nat
  <2>1. /\ members[w] \in SUBSET Sliding!Members /\ deadline[w] \in Nat
        /\ deadline[w] \in (now + 1 .. now + Sliding!TimeToLive(w)) \cup {Sliding!Never}
    BY DEF SlidingInv, Sliding!TypeOK
  <2>2. Sliding!TimeToLive(w) \in Nat /\ Sliding!Never \in Nat /\ Length[w] \in Nat
    BY SlidingNumbers
  <2>3. CASE deadline[w] = now'
    BY <1>1, <2>1, <2>2, <2>3
  <2>4. CASE deadline[w] # now'
    <3>1. deadline'[w] = deadline[w] /\ members'[w] = members[w] /\ lost'[w] = lost[w]
      BY <1>1, <2>4
    <3>2. deadline[w] \in (now' + 1 .. now' + Sliding!TimeToLive(w)) \cup {Sliding!Never}
      BY SMTT(30), <1>1, <1>2, <2>1, <2>2, <2>4
    <3> QED
      BY <2>1, <2>2, <3>1, <3>2
  <2> QED
    BY <2>3, <2>4
<1>4. Sliding!TypeOK'
  <2>1. /\ members' \in [Sliding!Windows -> SUBSET Sliding!Members]
        /\ deadline' \in [Sliding!Windows -> Nat]
    BY <1>1, <1>3
  <2>2. lost' \in [Sliding!Windows -> SUBSET Sliding!Members]
    BY <1>1, <1>3 DEF SlidingInv, Sliding!TypeOK
  <2> QED
    BY <1>1, <1>2, <1>3, <2>1, <2>2 DEF SlidingInv, Sliding!TypeOK
<1>5. CallsInv'
  <2>1. \A p \in Slots : call[p].at \in Nat
    BY SlidingNumbers DEF SlidingInv, Sliding!TypeOK
  <2> QED
    BY <1>1, <1>2, <2>1 DEF SlidingInv, CallsInv
<1>6. ASSUME NEW w \in Sliding!Windows
      PROVE  SetInv(w)'
  <2>1. SetInv(w)
    BY DEF SlidingInv
  <2>2. ASSUME NEW m \in Sliding!Members, Kept(w, m)
        PROVE  Kept(w, m)'
    <3>1. m[1] \in Nat
      BY SlidingNumbers DEF Sliding!Members
    <3>2. CASE m[1] <= now - Length[w]
      <4>1. m[1] <= now' - Length[w]
        <5>1. Length[w] \in Nat /\ now' = now + 1 /\ now \in Nat
          BY <1>1, <1>2, <1>3
        <5> QED
          BY <3>1, <3>2, <5>1
      <4> QED
        BY <4>1 DEF Kept
    <3>3. CASE m \in lost[w]
      BY <1>3, <3>3 DEF Kept
    <3>4. CASE m \in members[w]
      <4>1. m \in Sliding!TooOld(w, now') => m[1] <= now' - Length[w]
        BY DEF Sliding!TooOld
      <4> QED
        BY <1>3, <3>4, <4>1 DEF Kept
    <3> QED
      BY <2>2, <3>2, <3>3, <3>4 DEF Kept
  <2>3. \A p \in Slots : AddedTo(w, call[p]) => Mine(call[p]) \in Sliding!Members
    BY DEF AddedTo, Mine, Sliding!Members, SlidingInv, CallsInv, Sliding!TypeOK
  <2>4. Counting(w)' \subseteq Counting(w)
    <3>1. Passed(w)' = Passed(w)
      BY <1>1 DEF Passed
    <3> SUFFICES ASSUME NEW m \in Counting(w)'
                 PROVE  m \in Counting(w)
      OBVIOUS
    <3>2. m \in Passed(w) /\ m[1] > now' - Length[w] /\ m \notin lost'[w]
      BY <3>1 DEF Counting
    <3>3. m[1] \in Nat
      BY <3>2, SlidingNumbers DEF Passed, Sliding!Members
    <3>4. m[1] > now - Length[w] /\ m \notin lost[w]
      <4>1. Length[w] \in Nat
        BY <1>3
      <4>2. m[1] > now - Length[w]
        BY <1>1, <1>2, <3>2, <3>3, <4>1
      <4>3. m \notin lost[w]
        BY <1>3, <3>2
      <4> QED
        BY <4>2, <4>3
    <3> QED
      BY <3>2, <3>4 DEF Counting
  <2>5. Sliding!Sum(Counting(w)') <= Limit[w]
    <3> DEFINE a == Sliding!Sum(Counting(w)')
               b == Sliding!Sum(Counting(w))
    <3>1. a <= b /\ b <= Limit[w] /\ a \in Nat /\ b \in Nat /\ Limit[w] \in Nat
      BY <2>1, <2>4, MembersSum, CountingMembers, SlidingNumbers DEF SetInv
    <3> HIDE DEF a, b
    <3>2. a <= Limit[w]
      BY <3>1
    <3> QED
      BY <3>2 DEF a
  <2>6. \A m \in Sliding!Members : passed'[m] > 0 => Kept(w, m)'
    BY <1>1, <2>1, <2>2 DEF SetInv
  <2>7. ASSUME NEW p \in Slots, AddedTo(w, call[p])'
        PROVE  Kept(w, Mine(call[p]))'
    <3>1. call'[p] = call[p] /\ AddedTo(w, call[p])
      BY <1>1, <2>7
    <3>2. PICK m \in Sliding!Members : m = Mine(call[p])
      BY <2>3, <3>1
    <3>3. Kept(w, m)'
      BY <2>1, <2>2, <3>1, <3>2 DEF SetInv
    <3> QED
      BY <3>1, <3>2, <3>3 DEF Kept
  <2> QED
    BY <2>5, <2>6, <2>7 DEF SetInv, Sliding!Sum
<1>7. ASSUME NEW w \in Sliding!Windows
      PROVE  LifeInv(w)'
  <2>1. LifeInv(w)
    BY DEF SlidingInv
  <2>2. CASE members'[w] = {}
    BY <2>2 DEF LifeInv
  <2>3. CASE deadline'[w] = deadline[w] /\ members'[w] = members[w]
    <3>1. \A m \in members[w] : m[1] <= now => m[1] <= now'
      <4>1. \A m \in members[w] : m[1] \in Nat
        BY <1>3, SlidingNumbers DEF Sliding!Members
      <4> QED
        BY <1>1, <1>2, <4>1
    <3> QED
      BY <1>1, <2>1, <2>3, <3>1 DEF LifeInv, Unrenewed, Sliding!TimeToLive, Sliding!Never
  <2> QED
    BY <1>3, <2>2, <2>3
<1> QED
  BY <1>4, <1>5, <1>6, <1>7 DEF SlidingInv

\* Sliding windows: the invariant holds at first.
LEMMA SlidingInit ==
  ASSUME Sliding!ConstantsAssumption, Sliding!Init
  PROVE  SlidingInv
<1>1. /\ Sliding!Idle \in Records /\ Sliding!Idle.kind = "idle"
      /\ Sliding!Idle.at = Sliding!Start /\ Sliding!Start \in Sliding!Times
      /\ Sliding!Never \in Nat /\ \A p \in Slots : call[p] = Sliding!Idle
  BY IdleRecord, SlidingNumbers DEF Sliding!Init
<1>2. Sliding!TypeOK
  <2>1. call \in [Slots -> Records]
    BY <1>1 DEF Sliding!Init
  <2>2. made \in 0 .. MaxCalls
    BY DEF Sliding!Init, Sliding!ConstantsAssumption
  <2>3. /\ members \in [Sliding!Windows -> SUBSET Sliding!Members]
        /\ lost \in [Sliding!Windows -> SUBSET Sliding!Members]
        /\ deadline \in [Sliding!Windows -> Nat]
        /\ \A w \in Sliding!Windows : deadline[w] = Sliding!Never
    BY <1>1 DEF Sliding!Init
  <2>4. promised \in [Slots -> [Sliding!Windows -> Int]] /\ passed \in [Sliding!Members -> Nat]
    BY DEF Sliding!Init
  <2>5. now \in Sliding!Times
    BY <1>1 DEF Sliding!Init
  <2>6. stranded \in [Sliding!Windows -> SUBSET Sliding!Members] /\ errors \in 0 .. MaxErrors
    BY DEF Sliding!Init, Sliding!ConstantsAssumption
  <2> QED
    BY <2>1, <2>2, <2>3, <2>4, <2>5, <2>6 DEF Sliding!TypeOK, Records
<1>3. CallsInv
  <2>1. Sliding!Start \in Nat
    BY SlidingNumbers
  <2> QED
    BY <1>1, <2>1 DEF Sliding!Init, CallsInv
<1>4. ASSUME NEW w \in Sliding!Windows
      PROVE  SetInv(w) /\ LifeInv(w)
  <2>1. \A p \in Slots : ~AddedTo(w, call[p]) /\ ~SummedUp(w, call[p])
    BY <1>1 DEF AddedTo, SummedUp
  <2>2. \A m \in Sliding!Members : ~(passed[m] > 0)
    BY DEF Sliding!Init
  <2>3. Counting(w) = {}
    BY <2>1, <2>2 DEF Counting, Passed
  <2>4. Sliding!Sum({}) = 0
    <3> DEFINE f == [m \in Sliding!Members |-> m[2]]
    <3>1. Sliding!Sum({}) = SumOf(f, {})
      BY DEF Sliding!Sum, Sliding!TotalOf, SumOf, MapThenSumSet, MapThenFoldSet,
             Sliding!MapThenSumSet, Sliding!MapThenFoldSet
    <3> QED
      BY <3>1, SumEmpty
  <2>5. Limit[w] \in Nat /\ members[w] = {}
    BY SlidingNumbers DEF Sliding!Init
  <2> QED
    BY <2>1, <2>2, <2>3, <2>4, <2>5 DEF SetInv, LifeInv
<1> QED
  BY <1>2, <1>3, <1>4 DEF SlidingInv

\* Sliding windows: every step keeps it.
LEMMA SlidingNext ==
  ASSUME Sliding!ConstantsAssumption, SlidingInv, [Sliding!Next]_(Sliding!vars)
  PROVE  SlidingInv'
<1>1. CASE UNCHANGED Sliding!vars
  <2>1. Sliding!TypeOK' /\ CallsInv'
    BY <1>1 DEF Sliding!vars, SlidingInv, Sliding!TypeOK, CallsInv
  <2>2. ASSUME NEW w \in Sliding!Windows
        PROVE  SetInv(w)' /\ LifeInv(w)'
    <3>1. SetInv(w) /\ LifeInv(w)
      BY DEF SlidingInv
    <3>2. Counting(w)' = Counting(w)
      BY <1>1 DEF Sliding!vars, Counting, Passed
    <3>3. SetInv(w)'
      BY <1>1, <3>1, <3>2 DEF Sliding!vars, SetInv, Kept
    <3>4. LifeInv(w)'
      BY <1>1, <3>1 DEF Sliding!vars, LifeInv, Unrenewed
    <3> QED
      BY <3>3, <3>4
  <2> QED
    BY <2>1, <2>2 DEF SlidingInv
<1> QED
  BY <1>1, SlidingRequest, SlidingQuota, SlidingRem, SlidingAdd, SlidingSumUp,
     SlidingQuotaRange,
     SlidingExpire, SlidingFail, SlidingTick
  DEF Sliding!Next

\* Of the accepted members that a window reaches back to and that did not expire,
\* all count.
LEMMA AcceptedCount ==
  ASSUME Sliding!ConstantsAssumption, SlidingInv, NEW w \in Sliding!Windows
  PROVE  /\ Sliding!Accepted(w, now) \ lost[w] \in SUBSET (members[w] \cap Counting(w))
         /\ Sliding!Sum(Sliding!Accepted(w, now) \ lost[w]) <= Sliding!Sum(Counting(w))
         /\ Sliding!Sum(Sliding!Accepted(w, now) \ lost[w]) <= Limit[w]
         /\ Sliding!Sum(Sliding!Accepted(w, now) \ lost[w]) <= Sliding!Sum(members[w])
<1> DEFINE A == Sliding!Accepted(w, now) \ lost[w]
<1>1. ASSUME NEW m \in A
      PROVE  m \in members[w] /\ m \in Counting(w)
  <2>1. /\ m \in Sliding!Members /\ passed[m] > 0 /\ m \notin Sliding!TooOld(w, now)
        /\ m \notin lost[w]
    BY DEF Sliding!Accepted
  <2>2. m[1] \in Nat /\ now \in Nat /\ Length[w] \in Nat
    BY <2>1, SlidingNumbers DEF Sliding!Members, SlidingInv, Sliding!TypeOK
  <2>3. ~(m[1] <= now - Length[w]) /\ m[1] > now - Length[w]
    BY <2>1, <2>2 DEF Sliding!TooOld
  <2>4. Kept(w, m)
    BY <2>1 DEF SlidingInv, SetInv
  <2> QED
    BY <2>1, <2>3, <2>4 DEF Kept, Counting, Passed
<1>2. A \in SUBSET (members[w] \cap Counting(w))
  BY <1>1
<1> HIDE DEF A
<1>3. members[w] \in SUBSET Sliding!Members /\ Counting(w) \in SUBSET Sliding!Members
  BY CountingMembers DEF SlidingInv, Sliding!TypeOK
<1>4. Sliding!Sum(A) <= Sliding!Sum(Counting(w)) /\ Sliding!Sum(A) <= Sliding!Sum(members[w])
  BY <1>2, <1>3, MembersSum
<1>5. Sliding!Sum(A) \in Nat /\ Sliding!Sum(Counting(w)) \in Nat /\ Limit[w] \in Nat
      /\ Sliding!Sum(Counting(w)) <= Limit[w]
  BY <1>2, <1>3, MembersSum, SlidingNumbers DEF SlidingInv, SetInv
<1>6. Sliding!Sum(A) <= Limit[w]
  BY <1>4, <1>5
<1> QED
  BY <1>2, <1>4, <1>6 DEF A

\* Hence no interleaving of requests accepts members beyond a limit, and a set stays
\* in redis for ever only where requests failed.
THEOREM SetsAccounted ==
  ASSUME Sliding!ConstantsAssumption
  PROVE  Sliding!Spec => []SetsAreAccounted
<1>1. Sliding!Init => SlidingInv
  BY SlidingInit
<1>2. SlidingInv /\ [Sliding!Next]_(Sliding!vars) => SlidingInv'
  BY SlidingNext
<1>3. SlidingInv => SetsAreAccounted
  BY AcceptedCount
  DEF SlidingInv, SetsAreAccounted, Sliding!SetsAreAccounted, Sliding!MembersStayWithinLimit,
      Sliding!EverySetExpires, LifeInv, Unrenewed, Renewing, Mine, Sliding!Renewing,
      Sliding!Mine
<1> QED
  BY <1>1, <1>2, <1>3, PTL DEF Sliding!Spec

\* A set does not expire under a member that still counts, unless its request has
\* not renewed the time to live yet or failed before it did.
THEOREM OnlyNewLost ==
  ASSUME Sliding!ConstantsAssumption
  PROVE  Sliding!Spec => OnlyNewMembersAreLost
<1> DEFINE A == \A w \in Sliding!Windows : \A m \in lost'[w] \ lost[w] :
                  m \in stranded[w] \/
                    \E p \in Slots : Sliding!Renewing(p, w) /\ m = Sliding!Mine(p)
<1>1. Sliding!Init => SlidingInv
  BY SlidingInit
<1>2. SlidingInv /\ [Sliding!Next]_(Sliding!vars) => SlidingInv'
  BY SlidingNext
<1>3. SlidingInv /\ [Sliding!Next]_(Sliding!vars) => [A]_(Sliding!vars)
  <2>1. ASSUME SlidingInv, Sliding!Tick
        PROVE  A
    <3> SUFFICES ASSUME NEW w \in Sliding!Windows, NEW m \in lost'[w] \ lost[w]
                 PROVE  Unrenewed(w, m)
      BY DEF Unrenewed, Renewing, Mine, Sliding!Renewing, Sliding!Mine
    <3>1. /\ now' = now + 1 /\ deadline[w] = now' /\ m \in members[w]
          /\ m \notin Sliding!TooOld(w, now') /\ m \in Sliding!Members
      BY <2>1 DEF Sliding!Tick, SlidingInv, Sliding!TypeOK
    <3>2. /\ m[1] \in Nat /\ now \in Nat /\ Length[w] \in Nat /\ Second \in Nat
          /\ Sliding!TimeToLive(w) = Length[w] + Second
      BY <2>1, <3>1, SlidingNumbers
      DEF Sliding!Members, SlidingInv, Sliding!TypeOK, Sliding!TimeToLive,
          Sliding!ConstantsAssumption
    <3>3. m[1] > now' - Length[w]
      BY <3>1, <3>2 DEF Sliding!TooOld
    <3>4. ~(deadline[w] >= m[1] + Sliding!TimeToLive(w))
      BY <3>1, <3>2, <3>3
    <3> QED
      BY <2>1, <3>1, <3>4 DEF SlidingInv, LifeInv
  <2>2. ASSUME Sliding!Next, ~Sliding!Tick
        PROVE  lost' = lost
    BY <2>2
    DEF Sliding!Next, Sliding!request, Sliding!quota, Sliding!Rem, Sliding!Add,
        Sliding!SumUp, Sliding!QuotaRange, Sliding!Expire, Sliding!Fail
  <2>3. lost' = lost => A
    OBVIOUS
  <2> QED
    BY <2>1, <2>2, <2>3
<1> QED
  BY <1>1, <1>2, <1>3, PTL DEF Sliding!Spec, OnlyNewMembersAreLost, Sliding!OnlyNewMembersAreLost

\* quota() never says that there is more left than there is.
THEOREM QuotaNotOverstated ==
  ASSUME Sliding!ConstantsAssumption
  PROVE  Sliding!Spec => QuotaIsNotOverstated
<1> DEFINE A == \A p \in Slots, w \in Sliding!Windows :
                  Sliding!QuotaRange(p) /\ call[p].window = w =>
                    promised'[p][w] <= Limit[w] - Sliding!Sum(Sliding!Accepted(w, now) \ lost[w])
<1>1. Sliding!Init => SlidingInv
  BY SlidingInit
<1>2. SlidingInv /\ [Sliding!Next]_(Sliding!vars) => SlidingInv'
  BY SlidingNext
<1>3. SlidingInv => A
  <2> SUFFICES ASSUME SlidingInv, NEW p \in Slots, NEW w \in Sliding!Windows,
                      Sliding!QuotaRange(p),
                      call[p].window = w
               PROVE  promised'[p][w]
                        <= Limit[w] - Sliding!Sum(Sliding!Accepted(w, now) \ lost[w])
    OBVIOUS
  <2> DEFINE a == Sliding!Sum(Sliding!Accepted(w, now) \ lost[w])
             b == Sliding!Sum(members[w])
             n == Sliding!SumOfTimes(members[w])
  <2>1. promised'[p][w] = Limit[w] - n
    BY DEF Sliding!QuotaRange, SlidingInv, Sliding!TypeOK
  <2>2. /\ members[w] \in SUBSET Sliding!Members
        /\ Sliding!Accepted(w, now) \ lost[w] \in SUBSET Sliding!Members
    BY DEF SlidingInv, Sliding!TypeOK, Sliding!Accepted
  <2>3. a \in Nat /\ b \in Nat /\ n \in Nat /\ b <= n /\ a <= b /\ Limit[w] \in Nat
    BY <2>2, MembersSum, AcceptedCount, SlidingNumbers
  <2> HIDE DEF a, b, n
  <2>4. Limit[w] - n <= Limit[w] - a
    BY <2>3
  <2> QED
    BY <2>1, <2>4 DEF a
<1> QED
  BY <1>1, <1>2, <1>3, PTL DEF Sliding!Spec, QuotaIsNotOverstated, Sliding!QuotaIsNotOverstated

=============================================================================
