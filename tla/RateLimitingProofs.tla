------------------------ MODULE RateLimitingProofs -------------------------
(***************************************************************************)
(* Proofs about three parts of rate limiting: the leaky bucket, for any    *)
(* keys, capacity, leaks per second and number of requests; the limits of  *)
(* the users' quotas, for any users, managers, calls and limits; and the   *)
(* cache they are kept in, for any keys, values, lifetimes and callers.    *)
(***************************************************************************)
EXTENDS RateLimits, FiniteSetTheorems, TLAPS

-----------------------------------------------------------------------------
(* Leaky bucket                                                            *)

\* A queue holds pending requests of its key, in the order they came.
QueuesInv ==
  \A k \in Keys :
    /\ \A i \in DOMAIN map[k] : /\ map[k][i] <= requested
                                /\ key[map[k][i]] = k
                                /\ result[map[k][i]] = "pending"
    /\ \A i, j \in DOMAIN map[k] : i < j => map[k][i] < map[k][j]

\* Requests that were not made yet have no result and no history.
FreshInv ==
  \A r \in Requests : r > requested => result[r] = "none" /\ seconds[r] = 0

BucketInv == TypeOK /\ QueuesInv /\ FreshInv /\ WaitIsBounded

-----------------------------------------------------------------------------
(* What the actions do to the queues                                       *)

\* A request that finds room goes to the end of its queue.
LEMMA Enqueued ==
  ASSUME TypeOK, NEW k \in Keys, request(k)
  PROVE  /\ requested + 1 \in Requests
         /\ \A q \in Keys \ {k} : map'[q] = map[q]
         /\ IF Full(k) THEN map'[k] = map[k]
            ELSE /\ Len(map[k]) < capacity
                 /\ map'[k] \in Seq(Requests)
                 /\ Len(map'[k]) = Len(map[k]) + 1
                 /\ \A i \in DOMAIN map[k] : map'[k][i] = map[k][i]
                 /\ map'[k][Len(map[k]) + 1] = requested + 1
<1>. USE ConstantsAssumption DEF TypeOK
<1>1. requested + 1 \in Requests
  BY DEF request, Requests
<1>2. CASE Full(k)
  BY <1>1, <1>2 DEF request
<1>3. CASE ~Full(k)
  <2>1. map'[k] = Append(map[k], requested + 1)
    BY <1>3 DEF request
  <2>2. map[k] \in Seq(Requests) /\ Len(map[k]) < capacity
    BY <1>3 DEF Full
  <2>3. QED
    BY SMTT(30), <1>1, <1>3, <2>1, <2>2 DEF request
<1>4. QED
  BY <1>2, <1>3

\* As many pass as the queue has and may, and all of them if they are fewer.
LEMMA PassedRequests ==
  ASSUME TypeOK, NEW k \in Keys
  PROVE  /\ passedRequests(k) \in 0 .. Len(map[k])
         /\ passedRequests(k) <= leaksPerSecond
         /\ passedRequests(k) < Len(map[k]) => passedRequests(k) = leaksPerSecond
         /\ passedRequests(k) < leaksPerSecond => passedRequests(k) = Len(map[k])
BY ConstantsAssumption DEF passedRequests, TypeOK

\* What does not pass moves up.
LEMMA Sliced ==
  ASSUME TypeOK, handler, NEW k \in Keys
  PROVE  /\ map'[k] \in Seq(Requests)
         /\ Len(map'[k]) = Len(map[k]) - passedRequests(k)
         /\ \A i \in DOMAIN map'[k] :
              /\ i + passedRequests(k) \in DOMAIN map[k]
              /\ map'[k][i] = map[k][i + passedRequests(k)]
<1>. DEFINE n == passedRequests(k)
<1>1. map[k] \in Seq(Requests) /\ n \in 0 .. Len(map[k])
  BY PassedRequests DEF TypeOK
<1>2. map'[k] = SubSeq(map[k], n + 1, Len(map[k]))
  BY DEF handler
<1>. HIDE DEF n
<1>3. /\ map'[k] \in Seq(Requests)
      /\ Len(map'[k]) = Len(map[k]) - n
      /\ \A i \in DOMAIN map'[k] : i + n \in DOMAIN map[k] /\ map'[k][i] = map[k][i + n]
  BY <1>1, <1>2
<1>4. QED
  BY <1>3 DEF n

-----------------------------------------------------------------------------
(* Type correctness                                                        *)

\* Leaky bucket: every step keeps the types.
LEMMA TypeStep == TypeOK /\ [Next]_vars => TypeOK'
<1>. USE ConstantsAssumption
<1>. SUFFICES ASSUME TypeOK, [Next]_vars PROVE TypeOK'
  OBVIOUS
<1>1. ASSUME NEW k \in Keys, request(k)
      PROVE  TypeOK'
  <2>1. requested' \in 0 .. MaxRequests
    BY <1>1 DEF request, TypeOK
  <2>2. map' \in [Keys -> Seq(Requests)]
    BY <1>1, Enqueued DEF request, TypeOK
  <2>3. ASSUME NEW q \in Keys
        PROVE  Len(map'[q]) <= capacity
    <3>1. Len(map[q]) \in Nat /\ Len(map[q]) <= capacity
      BY DEF TypeOK
    <3>2. CASE q = k
      BY <1>1, <3>1, <3>2, Enqueued
    <3>3. CASE q # k
      BY <1>1, <3>1, <3>3, Enqueued
    <3>4. QED
      BY <3>2, <3>3
  <2>4. result' \in [Requests -> {"none", "pending", "rejected", "passed"}]
    BY <1>1 DEF request, TypeOK
  <2>5. QED
    BY <1>1, <2>1, <2>2, <2>3, <2>4 DEF request, TypeOK
<1>2. CASE handler
  <2>1. map' \in [Keys -> Seq(Requests)]
    BY <1>2, Sliced DEF handler
  <2>2. \A q \in Keys : Len(map'[q]) <= capacity
    BY <1>2, Sliced, PassedRequests DEF TypeOK
  <2>3. result' \in [Requests -> {"none", "pending", "rejected", "passed"}]
    BY <1>2 DEF handler, TypeOK
  <2>4. told' \in [Requests -> Int]
    <3>1. \A k \in Keys : calculateRemaining(k) \in Int
      BY DEF calculateRemaining, TypeOK
    <3>2. ASSUME NEW r \in Requests, \E i \in DOMAIN map[key[r]] : Passes(r, i)
          PROVE  (CHOOSE i \in DOMAIN map[key[r]] : Passes(r, i)) \in Int
      BY <3>2 DEF TypeOK
    <3>3. ASSUME NEW r \in Requests
          PROVE  told'[r] \in Int
      <4>1. key[r] \in Keys /\ told[r] \in Int
        BY DEF TypeOK
      <4>2. told'[r] = IF \E i \in DOMAIN map[key[r]] : Passes(r, i)
                       THEN calculateRemaining(key[r])
                              + CHOOSE i \in DOMAIN map[key[r]] : Passes(r, i)
                       ELSE told[r]
        BY <1>2 DEF handler
      <4>. DEFINE c == CHOOSE i \in DOMAIN map[key[r]] : Passes(r, i)
      <4>3. CASE \E i \in DOMAIN map[key[r]] : Passes(r, i)
        <5>1. told'[r] = calculateRemaining(key[r]) + c
          BY <4>2, <4>3
        <5>2. c \in Int
          BY <3>2, <4>3
        <5>. HIDE DEF c
        <5>3. QED
          BY <3>1, <4>1, <5>1, <5>2
      <4>4. QED
        BY <4>1, <4>2, <4>3
    <3>4. QED
      BY <1>2, <3>3 DEF handler
  <2>5. seconds' \in [Requests -> Nat]
    BY <1>2 DEF handler, TypeOK
  <2>6. QED
    BY <1>2, <2>1, <2>2, <2>3, <2>4, <2>5 DEF handler, TypeOK
<1>3. CASE stop
  <2>1. map' \in [Keys -> Seq(Requests)]
    BY <1>3 DEF stop
  <2>2. \A k \in Keys : Len(map'[k]) <= capacity
    <3>1. capacity \in Nat
      OBVIOUS
    <3>2. \A k \in Keys : Len(map'[k]) = 0
      BY <1>3 DEF stop
    <3>3. QED
      BY <3>1, <3>2
  <2>3. running' \in BOOLEAN
    BY <1>3 DEF stop
  <2>4. QED
    BY <1>3, <2>1, <2>2, <2>3 DEF stop, TypeOK
<1>4. CASE UNCHANGED vars
  BY <1>4 DEF vars, TypeOK
<1>5. QED
  BY <1>1, <1>2, <1>3, <1>4 DEF Next

\* The variables keep their types and no queue outgrows the capacity.
THEOREM TypeCorrect == Spec => []TypeOK
<1>1. Init => TypeOK
  BY ConstantsAssumption DEF Init, TypeOK
<1>2. QED
  BY <1>1, TypeStep, PTL DEF Spec

-----------------------------------------------------------------------------
(* The inductive invariant                                                 *)

\* Leaky bucket: the invariant holds at first.
LEMMA InvInit == Init => BucketInv
<1>. USE ConstantsAssumption
<1>1. Init => TypeOK
  BY DEF Init, TypeOK
<1>2. Init => QueuesInv /\ FreshInv /\ WaitIsBounded
  BY DEF Init, QueuesInv, FreshInv, WaitIsBounded, Requests
<1>3. QED
  BY <1>1, <1>2 DEF BucketInv

\* Leaky bucket: every step keeps what the queues say of the callers.
LEMMA QueuesStep == BucketInv /\ [Next]_vars => QueuesInv'
<1>. SUFFICES ASSUME BucketInv, [Next]_vars PROVE QueuesInv'
  OBVIOUS
<1>. USE ConstantsAssumption DEF BucketInv
<1>1. ASSUME NEW k \in Keys, request(k)
      PROVE  QueuesInv'
  <2>1. /\ requested' = requested + 1 /\ requested \in Nat /\ requested + 1 \in Requests
        /\ key' = key /\ key[requested + 1] = k
        /\ \A r \in Requests : r # requested + 1 => result'[r] = result[r]
        /\ (~Full(k) => result'[requested + 1] = "pending")
    <3>1. requested' = requested + 1 /\ key' = key /\ key[requested + 1] = k
      BY <1>1 DEF request
    <3>2. requested \in Nat
      BY DEF TypeOK
    <3>3. requested + 1 \in Requests
      BY <1>1, Enqueued
    <3>4. /\ \A r \in Requests : r # requested + 1 => result'[r] = result[r]
          /\ (~Full(k) => result'[requested + 1] = "pending")
      BY <1>1, <3>3 DEF request, TypeOK
    <3>5. QED
      BY <3>1, <3>2, <3>3, <3>4
  <2>. SUFFICES ASSUME NEW q \in Keys
                PROVE  /\ \A i \in DOMAIN map'[q] : /\ map'[q][i] <= requested'
                                                    /\ key'[map'[q][i]] = q
                                                    /\ result'[map'[q][i]] = "pending"
                       /\ \A i, j \in DOMAIN map'[q] : i < j => map'[q][i] < map'[q][j]
    BY DEF QueuesInv
  <2>2. /\ map[q] \in Seq(Requests)
        /\ \A i \in DOMAIN map[q] : /\ map[q][i] \in Requests
                                    /\ map[q][i] \in Nat
                                    /\ map[q][i] <= requested
                                    /\ map[q][i] # requested + 1
                                    /\ key[map[q][i]] = q
                                    /\ result[map[q][i]] = "pending"
        /\ \A i, j \in DOMAIN map[q] : i < j => map[q][i] < map[q][j]
    <3>1. map[q] \in Seq(Requests)
      BY DEF TypeOK
    <3>2. \A i, j \in DOMAIN map[q] : i < j => map[q][i] < map[q][j]
      BY DEF QueuesInv
    <3>3. ASSUME NEW i \in DOMAIN map[q]
          PROVE  /\ map[q][i] \in Requests
                 /\ map[q][i] <= requested
                 /\ key[map[q][i]] = q
                 /\ result[map[q][i]] = "pending"
      BY <3>1 DEF QueuesInv
    <3>4. \A r \in Requests : r \in Nat /\ (r <= requested => r # requested + 1)
      BY <2>1 DEF Requests
    <3>5. QED
      BY <3>1, <3>2, <3>3, <3>4
  <2>3. CASE map'[q] = map[q]
    BY <2>1, <2>2, <2>3
  <2>4. CASE q = k /\ ~Full(k)
    <3>1. /\ DOMAIN map'[q] = DOMAIN map[q] \cup {Len(map[q]) + 1}
          /\ \A i \in DOMAIN map[q] : map'[q][i] = map[q][i] /\ i \in Nat /\ i <= Len(map[q])
          /\ map'[q][Len(map[q]) + 1] = requested + 1
          /\ Len(map[q]) \in Nat
      BY <1>1, <2>2, <2>4, Enqueued
    <3>2. \A i \in DOMAIN map'[q] : /\ map'[q][i] <= requested'
                                    /\ key'[map'[q][i]] = q
                                    /\ result'[map'[q][i]] = "pending"
      BY SMTT(30), <2>1, <2>2, <2>4, <3>1
    <3>3. \A i, j \in DOMAIN map'[q] : i < j => map'[q][i] < map'[q][j]
      BY <2>1, <2>2, <3>1
    <3>4. QED
      BY <3>2, <3>3
  <2>5. QED
    BY <1>1, <2>3, <2>4, Enqueued
<1>2. CASE handler
  <2>1. key' = key /\ requested' = requested
    BY <1>2 DEF handler
  <2>. SUFFICES ASSUME NEW q \in Keys
                PROVE  /\ \A i \in DOMAIN map'[q] : /\ map'[q][i] <= requested'
                                                    /\ key'[map'[q][i]] = q
                                                    /\ result'[map'[q][i]] = "pending"
                       /\ \A i, j \in DOMAIN map'[q] : i < j => map'[q][i] < map'[q][j]
    BY DEF QueuesInv
  <2>. DEFINE n == passedRequests(q)
  <2>2. /\ n \in Nat /\ map[q] \in Seq(Requests) /\ map'[q] \in Seq(Requests)
        /\ \A i \in DOMAIN map'[q] : i \in Nat \ {0} /\ i + n \in DOMAIN map[q]
                                     /\ map'[q][i] = map[q][i + n]
    <3>1. map[q] \in Seq(Requests)
      BY DEF TypeOK
    <3>2. n \in 0 .. Len(map[q])
      BY PassedRequests
    <3>3. /\ map'[q] \in Seq(Requests)
          /\ \A i \in DOMAIN map'[q] : i + n \in DOMAIN map[q] /\ map'[q][i] = map[q][i + n]
      BY <1>2, Sliced
    <3>. HIDE DEF n
    <3>4. \A i \in DOMAIN map'[q] : i \in Nat \ {0}
      BY <3>3
    <3>5. QED
      BY <3>1, <3>2, <3>3, <3>4
  <2>3. ASSUME NEW i \in DOMAIN map'[q]
        PROVE  result'[map'[q][i]] = "pending"
    <3>. DEFINE r == map[q][i + n]
    <3>1. /\ r \in Requests /\ key[r] = q /\ result[r] = "pending"
          /\ i + n \in DOMAIN map[q] /\ i \in Nat \ {0}
          /\ \A j \in DOMAIN map[q] : j < i + n => map[q][j] < r
      BY <2>2, <2>3 DEF QueuesInv
    <3>2. \A j \in DOMAIN map[q] : j <= n => map[q][j] # r
      <4>1. ASSUME NEW j \in DOMAIN map[q], j <= n
            PROVE  map[q][j] # r
        <5>. HIDE DEF n
        <5>1. n \in Nat /\ i \in Nat \ {0} /\ map[q] \in Seq(Requests) /\ j \in Nat
          BY <2>2, <3>1, <4>1
        <5>2. j < i + n
          BY <5>1, <4>1
        <5>3. map[q][j] < r /\ map[q][j] \in Requests
          BY <3>1, <4>1, <5>1, <5>2
        <5>. HIDE DEF r
        <5>4. QED
          BY <3>1, <5>3 DEF Requests
      <4>2. QED
        BY <4>1
    <3>. HIDE DEF r
    <3>3. ~\E j \in DOMAIN map[key[r]] : Passes(r, j)
      BY <3>1, <3>2 DEF Passes
    <3>4. result'[r] = "pending"
      BY <1>2, <3>1, <3>3 DEF handler
    <3>5. QED
      BY <2>2, <3>4 DEF r
  <2>. HIDE DEF n
  <2>4. \A i \in DOMAIN map'[q] : map'[q][i] <= requested' /\ key'[map'[q][i]] = q
    BY <2>1, <2>2 DEF QueuesInv
  <2>5. ASSUME NEW i \in DOMAIN map'[q], NEW j \in DOMAIN map'[q], i < j
        PROVE  map'[q][i] < map'[q][j]
    <3>1. /\ i \in Nat /\ j \in Nat /\ i + n \in DOMAIN map[q] /\ j + n \in DOMAIN map[q]
          /\ map'[q][i] = map[q][i + n] /\ map'[q][j] = map[q][j + n]
      BY <2>2
    <3>2. i + n < j + n
      BY <2>2, <2>5, <3>1
    <3>3. QED
      BY <3>1, <3>2 DEF QueuesInv
  <2>6. QED
    BY <2>3, <2>4, <2>5
<1>3. CASE stop
  BY <1>3 DEF stop, QueuesInv
<1>4. CASE UNCHANGED vars
  BY <1>4 DEF vars, QueuesInv
<1>5. QED
  BY <1>1, <1>2, <1>3, <1>4 DEF Next

\* Leaky bucket: every step leaves requests not made yet without a history.
LEMMA FreshStep == BucketInv /\ [Next]_vars => FreshInv'
<1>. SUFFICES ASSUME BucketInv, [Next]_vars PROVE FreshInv'
  OBVIOUS
<1>. USE DEF BucketInv
<1>1. ASSUME NEW k \in Keys, request(k)
      PROVE  FreshInv'
  BY <1>1, Enqueued DEF request, FreshInv, TypeOK, Requests
<1>2. CASE handler
  <2>. SUFFICES ASSUME NEW r \in Requests, r > requested
                PROVE  result'[r] = "none" /\ seconds'[r] = 0
    BY <1>2 DEF FreshInv, handler
  <2>1. key[r] \in Keys /\ result[r] = "none" /\ seconds[r] = 0
    BY DEF TypeOK, FreshInv
  <2>2. ~\E i \in DOMAIN map[key[r]] : Passes(r, i)
    BY <2>1 DEF Passes, QueuesInv
  <2>3. QED
    BY <1>2, <2>1, <2>2 DEF handler
<1>3. CASE stop
  BY <1>3 DEF stop, FreshInv
<1>4. CASE UNCHANGED vars
  BY <1>4 DEF vars, FreshInv
<1>5. QED
  BY <1>1, <1>2, <1>3, <1>4 DEF Next

\* Leaky bucket: every step keeps the bound on who waits.
LEMMA WaitStep == BucketInv /\ [Next]_vars => WaitIsBounded'
<1>. SUFFICES ASSUME BucketInv, [Next]_vars PROVE WaitIsBounded'
  OBVIOUS
<1>. USE ConstantsAssumption DEF BucketInv
<1>1. ASSUME NEW k \in Keys, request(k)
      PROVE  WaitIsBounded'
  <2>. SUFFICES ASSUME NEW q \in Keys, NEW i \in DOMAIN map'[q]
                PROVE  i + leaksPerSecond * seconds[map'[q][i]] <= capacity
    BY <1>1 DEF WaitIsBounded, request
  <2>1. CASE i \in DOMAIN map[q] /\ map'[q][i] = map[q][i]
    BY <2>1 DEF WaitIsBounded
  <2>2. CASE i <= capacity /\ i \in Nat /\ map'[q][i] = requested + 1
    <3>1. requested + 1 \in Requests /\ requested + 1 > requested
      BY <1>1, Enqueued DEF TypeOK
    <3>2. seconds[map'[q][i]] = 0
      BY <2>2, <3>1 DEF FreshInv
    <3>3. leaksPerSecond * seconds[map'[q][i]] = 0
      BY <3>2
    <3>4. QED
      BY <2>2, <3>3
  <2>3. QED
    <3>1. map[q] \in Seq(Requests) /\ Len(map[q]) \in Nat
      BY DEF TypeOK
    <3>2. CASE q # k \/ Full(k)
      BY <1>1, <2>1, <3>2, Enqueued
    <3>3. CASE q = k /\ ~Full(k)
      <4>1. /\ map'[k] \in Seq(Requests) /\ Len(map'[k]) = Len(map[k]) + 1
            /\ Len(map[k]) < capacity
            /\ \A j \in DOMAIN map[k] : map'[k][j] = map[k][j]
            /\ map'[k][Len(map[k]) + 1] = requested + 1
        BY <1>1, <3>3, Enqueued
      <4>2. i \in DOMAIN map[k] \/ i = Len(map[k]) + 1
        BY <3>1, <3>3, <4>1
      <4>3. QED
        BY <2>1, <2>2, <3>1, <3>3, <4>1, <4>2
    <3>4. QED
      BY <3>2, <3>3
<1>2. CASE handler
  <2>. SUFFICES ASSUME NEW q \in Keys, NEW i \in DOMAIN map'[q]
                PROVE  i + leaksPerSecond * seconds'[map'[q][i]] <= capacity
    BY DEF WaitIsBounded
  <2>. DEFINE n == passedRequests(q)
              r == map[q][i + n]
  <2>1. /\ i \in Nat \ {0} /\ n \in Nat /\ i + n \in DOMAIN map[q] /\ map'[q][i] = r
        /\ n < Len(map[q])
    <3>1. map[q] \in Seq(Requests) /\ map'[q] \in Seq(Requests)
      BY <1>2, Sliced DEF TypeOK
    <3>2. n \in 0 .. Len(map[q])
      BY PassedRequests
    <3>3. i + n \in DOMAIN map[q] /\ map'[q][i] = r
      BY <1>2, Sliced
    <3>. HIDE DEF n, r
    <3>4. i \in Nat \ {0}
      BY <3>1
    <3>5. n < Len(map[q])
      BY <3>1, <3>2, <3>3, <3>4
    <3>6. QED
      BY <3>2, <3>3, <3>4, <3>5
  <2>2. n = leaksPerSecond
    BY <2>1, PassedRequests
  <2>3. r \in Requests /\ result[r] = "pending" /\ seconds[r] \in Nat
    BY <2>1 DEF QueuesInv, TypeOK
  <2>4. i + n + leaksPerSecond * seconds[r] <= capacity
    BY <2>1 DEF WaitIsBounded
  <2>. HIDE DEF n, r
  <2>5. seconds'[r] = seconds[r] + 1 \/ seconds'[r] = seconds[r]
    BY <1>2, <2>3 DEF handler
  <2>6. leaksPerSecond * (seconds[r] + 1) = leaksPerSecond * seconds[r] + leaksPerSecond
    BY <2>3
  <2>7. leaksPerSecond * seconds[r] \in Nat
    BY <2>3
  <2>8. QED
    BY <2>1, <2>2, <2>4, <2>5, <2>6, <2>7
<1>3. CASE stop
  BY <1>3 DEF stop, WaitIsBounded
<1>4. CASE UNCHANGED vars
  BY <1>4 DEF vars, WaitIsBounded
<1>5. QED
  BY <1>1, <1>2, <1>3, <1>4 DEF Next

\* Leaky bucket: the invariant holds in every reachable state.
LEMMA Invariance == Spec => []BucketInv
<1>1. BucketInv /\ [Next]_vars => BucketInv'
  BY TypeStep, QueuesStep, FreshStep, WaitStep DEF BucketInv
<1>2. QED
  BY <1>1, InvInit, PTL DEF Spec

\* Nobody waits for longer than the capacity takes to leak, for any capacity and
\* number of leaks, however many keys and requests there are.
THEOREM WaitBounded == Spec => []WaitIsBounded
<1>1. BucketInv => WaitIsBounded
  BY DEF BucketInv
<1>2. QED
  BY <1>1, Invariance, PTL

\* What a request is told when it passes is there: what the queue it leaves behind
\* leaves of the quota is no less, unless a colon was in its key.
THEOREM ToldQuotaReal == Spec => ToldQuotaIsReal
<1> DEFINE Real(r) ==
      result'[r] = "passed" /\ result[r] # "passed" /\ key[r] \notin Colon
        => told'[r] \in 1 .. capacity - Len(map'[key[r]])
<1>1. ASSUME TypeOK, [Next]_vars, NEW r \in Requests,
             result'[r] = "passed", result[r] # "passed", key[r] \notin Colon
      PROVE  told'[r] \in 1 .. capacity - Len(map'[key[r]])
  <2> DEFINE i == CHOOSE j \in DOMAIN map[key[r]] : Passes(r, j)
  <2>1. ~\E k \in Keys : request(k)
    BY <1>1 DEF request, TypeOK
  <2>2. handler
    BY <1>1, <2>1 DEF Next, stop, vars
  <2>3. \E j \in DOMAIN map[key[r]] : Passes(r, j)
    BY <1>1, <2>2 DEF handler
  <2>4. i \in DOMAIN map[key[r]] /\ Passes(r, i)
    BY <2>3
  <2>5. told'[r] = calculateRemaining(key[r]) + i
    BY <2>2, <2>3 DEF handler
  <2>6. told'[r] = capacity - Len(map[key[r]]) + i
    BY <1>1, <2>5 DEF calculateRemaining
  <2> HIDE DEF i
  <2>7. /\ key[r] \in Keys
        /\ Len(map[key[r]]) \in 0 .. capacity
        /\ i \in 1 .. passedRequests(key[r])
    BY <1>1, <2>4, ConstantsAssumption DEF TypeOK, Passes
  <2>8. Len(map'[key[r]]) = Len(map[key[r]]) - passedRequests(key[r])
    BY <1>1, <2>2, <2>7, Sliced
  <2>9. passedRequests(key[r]) \in Nat
    BY <1>1, <2>7, PassedRequests
  <2>10. \A n \in 0 .. capacity, m \in Nat : \A j \in 1 .. m :
            capacity - n + j \in 1 .. capacity - (n - m)
    BY ConstantsAssumption
  <2> QED
    BY <2>6, <2>7, <2>8, <2>9, <2>10
<1>2. TypeOK /\ [Next]_vars => [\A r \in Requests : Real(r)]_vars
  BY <1>1
<1> QED
  BY <1>2, TypeCorrect, PTL DEF Spec, ToldQuotaIsReal

-----------------------------------------------------------------------------
(* The queues implement the abstract throttle                              *)

\* The first requests of a queue, as a set.
First(k, n) == {map[k][i] : i \in 1 .. n}

\* There are as many of them as there are places.
LEMMA CountFirst ==
  ASSUME BucketInv, NEW k \in Keys, NEW n \in 0 .. Len(map[k])
  PROVE  /\ IsFiniteSet(First(k, n)) /\ Cardinality(First(k, n)) = n
         /\ First(k, n) \subseteq Requests
<1>1. /\ map[k] \in Seq(Requests) /\ n \in Nat /\ n <= Len(map[k])
      /\ \A i, j \in DOMAIN map[k] : i < j => map[k][i] < map[k][j]
  BY DEF BucketInv, TypeOK, QueuesInv
<1>2. \A i \in 1 .. n :
        i \in DOMAIN map[k] /\ i \in Nat /\ map[k][i] \in Requests /\ map[k][i] \in Nat
  <2>1. Requests \subseteq Nat
    BY DEF Requests
  <2>2. ASSUME NEW i \in 1 .. n
        PROVE  i \in DOMAIN map[k] /\ i \in Nat /\ map[k][i] \in Requests
    BY <1>1
  <2> QED
    BY <2>1, <2>2
<1> DEFINE f == [i \in 1 .. n |-> map[k][i]]
<1>3. ASSUME NEW i \in 1 .. n, NEW j \in 1 .. n, f[i] = f[j]
      PROVE  i = j
  <2>1. ~(i < j) /\ ~(j < i)
    BY <1>1, <1>2, <1>3
  <2> QED
    BY <1>2, <2>1
<1>4. f \in Bijection(1 .. n, First(k, n))
  BY <1>3 DEF Bijection, Injection, Surjection, IsInjective, First
<1>5. IsFiniteSet(1 .. n) /\ Cardinality(1 .. n) = n
  BY <1>1, FS_Interval
<1>6. IsFiniteSet(First(k, n)) /\ Cardinality(First(k, n)) = n
  BY <1>4, <1>5, FS_Bijection DEF ExistsBijection
<1> QED
  BY <1>2, <1>6 DEF First

\* The waiting requests of a key are those in its queue.
LEMMA WaitingAreQueued ==
  ASSUME BucketInv
  PROVE  /\ \A r \in Requests :
              State(r) = "waiting" <=> \E i \in DOMAIN map[key[r]] : map[key[r]][i] = r
         /\ \A k \in Keys : Abstract!Waiting(k) = First(k, Len(map[k]))
<1>1. ASSUME NEW r \in Requests
      PROVE  State(r) = "waiting" <=> \E i \in DOMAIN map[key[r]] : map[key[r]][i] = r
  <2>1. key[r] \in Keys /\ result[r] \in {"none", "pending", "rejected", "passed"}
    BY DEF BucketInv, TypeOK
  <2>2. ASSUME Queued(r)
        PROVE  result[r] = "pending"
    BY <2>1, <2>2 DEF Queued, BucketInv, QueuesInv
  <2> QED
    BY <2>1, <2>2 DEF State, Queued
<1>2. ASSUME NEW k \in Keys
      PROVE  Abstract!Waiting(k) = First(k, Len(map[k]))
  <2>1. Abstract!Waiting(k) = {r \in Requests : State(r) = "waiting" /\ key[r] = k}
    BY DEF Abstract!Waiting, Abstract!Requests, Requests
  <2>2. map[k] \in Seq(Requests) /\ DOMAIN map[k] = 1 .. Len(map[k])
    BY DEF BucketInv, TypeOK
  <2>3. \A i \in DOMAIN map[k] : map[k][i] \in Requests /\ key[map[k][i]] = k
    BY <2>2 DEF BucketInv, QueuesInv
  <2> QED
    BY <1>1, <2>1, <2>2, <2>3 DEF First
<1> QED
  BY <1>1, <1>2

\* Cardinality is the same for both.
LEMMA SameCardinality == \A S : Abstract!Cardinality(S) = Cardinality(S)
BY DEF Abstract!Cardinality, Cardinality

\* Leaky bucket: a request is a request of the throttle, turned away or not.
LEMMA RequestRefines ==
  ASSUME BucketInv, NEW k \in Keys, request(k)
  PROVE  Abstract!Request
<1>1. /\ requested < MaxRequests /\ key[requested + 1] = k /\ requested' = requested + 1
      /\ result' = [result EXCEPT ![requested + 1] = IF Full(k) THEN "rejected" ELSE "pending"]
      /\ key' = key /\ running' = running
  BY DEF request
<1>2. /\ requested + 1 \in Requests /\ requested \in Nat
      /\ \A q \in Keys \ {k} : map'[q] = map[q]
      /\ IF Full(k) THEN map'[k] = map[k]
         ELSE /\ map'[k] \in Seq(Requests)
              /\ Len(map'[k]) = Len(map[k]) + 1
              /\ \A i \in DOMAIN map[k] : map'[k][i] = map[k][i]
              /\ map'[k][Len(map[k]) + 1] = requested + 1
  BY SMTT(30), Enqueued DEF BucketInv, TypeOK
<1>3. /\ map[k] \in Seq(Requests) /\ capacity \in Nat /\ Len(map[k]) \in Nat
      /\ result \in [Requests -> {"none", "pending", "rejected", "passed"}]
      /\ key \in [Requests -> Keys]
  BY ConstantsAssumption DEF BucketInv, TypeOK
<1>a. PICK R \in Requests : R = requested + 1
  BY <1>2
<1>4. Cardinality(Abstract!Waiting(k)) = Len(map[k])
  BY <1>3, WaitingAreQueued, CountFirst
<1>5. State(R)' = IF Full(k) THEN "rejected" ELSE "waiting"
  <2>1. result'[R] = (IF Full(k) THEN "rejected" ELSE "pending") /\ key'[R] = k
    BY <1>1, <1>a, <1>3
  <2>2. ~Full(k) => Len(map[k]) + 1 \in DOMAIN map'[k]
    BY <1>2, <1>3
  <2> QED
    <3>1. CASE Full(k)
      BY <2>1, <3>1 DEF State
    <3>2. CASE ~Full(k)
      <4>1. Queued(R)'
        BY <1>2, <1>a, <2>1, <2>2, <3>2 DEF Queued
      <4> QED
        BY <2>1, <3>2, <4>1 DEF State
    <3> QED
      BY <3>1, <3>2
<1>6. ASSUME NEW r \in Requests, r # R
      PROVE  State(r)' = State(r)
  <2>1. result'[r] = result[r] /\ key'[r] = key[r] /\ key[r] \in Keys
    BY <1>1, <1>a, <1>3, <1>6
  <2>2. Queued(r)' <=> Queued(r)
    <3>1. CASE key[r] # k \/ Full(k)
      BY <1>1, <1>2, <2>1, <3>1 DEF Queued
    <3>2. CASE key[r] = k /\ ~Full(k)
      <4>1. DOMAIN map'[k] = DOMAIN map[k] \cup {Len(map[k]) + 1}
        BY <1>2, <1>3, <3>2
      <4>2. \A i \in DOMAIN map[k] : map'[k][i] = map[k][i]
        BY <1>2, <3>2
      <4>3. map'[k][Len(map[k]) + 1] # r
        BY <1>2, <1>a, <1>6, <3>2
      <4> QED
        BY <2>1, <3>2, <4>1, <4>2, <4>3 DEF Queued
    <3> QED
      BY <3>1, <3>2
  <2> QED
    BY <2>1, <2>2 DEF State
<1>7. Full(k) <=> ~(Cardinality(Abstract!Waiting(k)) < capacity)
  BY <1>3, <1>4 DEF Full
<1>8. [r \in Requests |-> State(r)]' = [[r \in Requests |-> State(r)] EXCEPT ![R] =
        IF Cardinality(Abstract!Waiting(key[R])) < capacity THEN "waiting" ELSE "rejected"]
  <2> DEFINE v == IF Cardinality(Abstract!Waiting(key[R])) < capacity
                 THEN "waiting"
                 ELSE "rejected"
  <2>1. State(R)' = v
    BY <1>1, <1>a, <1>5, <1>7
  <2>2. [r \in Requests |-> State(r)]' = [r \in Requests |-> State(r)']
    BY DEF Requests
  <2> HIDE DEF v
  <2>3. [r \in Requests |-> State(r)'] = [[r \in Requests |-> State(r)] EXCEPT ![R] = v]
    <3>1. \A r \in Requests : State(r)' = IF r = R THEN v ELSE State(r)
      BY <1>6, <2>1
    <3> QED
      BY <3>1
  <2> QED
    BY <2>2, <2>3 DEF v
<1> QED
  BY <1>1, <1>a, <1>8, SameCardinality DEF Abstract!Request

\* Leaky bucket: the interval's handler is a tick of the throttle.
LEMMA HandlerRefines ==
  ASSUME BucketInv, handler
  PROVE  Abstract!Leak
<1>1. running /\ running' = running /\ key' = key /\ requested' = requested
  BY DEF handler
<1>2. /\ result \in [Requests -> {"none", "pending", "rejected", "passed"}]
      /\ key \in [Requests -> Keys]
      /\ \A k \in Keys : map[k] \in Seq(Requests)
  BY DEF BucketInv, TypeOK
<1> DEFINE Now(r) == \E i \in DOMAIN map[key[r]] : Passes(r, i)
           passing == {r \in Requests : Now(r)}
<1>3. ASSUME NEW r \in Requests
      PROVE  State(r)' = IF r \in passing THEN "passed" ELSE State(r)
  <2>1. result'[r] = IF Now(r) THEN "passed" ELSE result[r]
    BY DEF handler
  <2>2. CASE Now(r)
    BY <2>1, <2>2 DEF State
  <2>3. CASE ~Now(r)
    <3> DEFINE k == key[r]
               n == passedRequests(k)
    <3>1. /\ k \in Keys /\ map[k] \in Seq(Requests) /\ n \in 0 .. Len(map[k])
          /\ map'[k] \in Seq(Requests) /\ Len(map'[k]) = Len(map[k]) - n
          /\ \A i \in DOMAIN map'[k] : i + n \in DOMAIN map[k] /\ map'[k][i] = map[k][i + n]
      BY <1>2, PassedRequests, Sliced DEF BucketInv
    <3>2. \A i \in DOMAIN map[k] : map[k][i] = r => ~(i <= n)
      BY <2>3 DEF Passes
    <3> HIDE DEF k, n
    <3>3. ASSUME NEW i \in DOMAIN map[k], map[k][i] = r
          PROVE  i - n \in DOMAIN map'[k] /\ map'[k][i - n] = r
      <4>1. i \in Nat /\ i <= Len(map[k]) /\ n \in Nat /\ i > n
        BY <3>1, <3>2, <3>3
      <4>2. i - n \in 1 .. Len(map'[k]) /\ (i - n) + n = i
        BY <3>1, <4>1
      <4> QED
        BY <3>1, <3>3, <4>2
    <3>4. (\E i \in DOMAIN map'[k] : map'[k][i] = r) <=> (\E i \in DOMAIN map[k] : map[k][i] = r)
      BY <3>1, <3>3
    <3>5. Queued(r)' <=> Queued(r)
      BY <1>1, <3>4 DEF Queued, k
    <3> QED
      BY <2>1, <2>3, <3>5 DEF State
  <2> QED
    BY <2>2, <2>3
<1>4. passing \in SUBSET {r \in Requests : State(r) = "waiting"}
  BY <1>2, WaitingAreQueued DEF Passes
<1>5. ASSUME NEW k \in Keys
      PROVE  Abstract!Passes({r \in passing : key[r] = k}, Abstract!Waiting(k))
  <2> DEFINE n == passedRequests(k)
  <2>1. /\ n \in 0 .. Len(map[k]) /\ n <= leaksPerSecond /\ n \in Nat
        /\ n < leaksPerSecond => n = Len(map[k])
        /\ map[k] \in Seq(Requests) /\ Len(map[k]) \in Nat
    BY <1>2, PassedRequests DEF BucketInv
  <2>2. {r \in passing : key[r] = k} = First(k, n)
    <3>1. ASSUME NEW r \in passing, key[r] = k
          PROVE  r \in First(k, n)
      <4>1. PICK i \in DOMAIN map[k] : i <= n /\ map[k][i] = r
        BY <3>1 DEF Passes
      <4>2. i \in 1 .. n
        BY <2>1, <4>1
      <4> QED
        BY <4>1, <4>2 DEF First
    <3>2. ASSUME NEW r \in First(k, n)
          PROVE  r \in passing /\ key[r] = k
      <4>1. PICK i \in 1 .. n : map[k][i] = r
        BY <3>2 DEF First
      <4>2. i \in DOMAIN map[k] /\ i <= n
        BY <2>1, <4>1
      <4>3. key[r] = k /\ r \in Requests
        BY <2>1, <4>1, <4>2 DEF BucketInv, QueuesInv
      <4> QED
        BY <4>1, <4>2, <4>3 DEF Passes
    <3> QED
      BY <3>1, <3>2
  <2> HIDE DEF n, passing
  <2>3. Cardinality(First(k, n)) = n
    BY <2>1, CountFirst
  <2>4. First(k, n) \subseteq First(k, Len(map[k]))
    BY <2>1 DEF First
  <2>5. ASSUME NEW r \in First(k, n), NEW s \in First(k, Len(map[k])), s < r
        PROVE  s \in First(k, n)
    <3>1. PICK i \in 1 .. n : map[k][i] = r
      BY DEF First
    <3>2. PICK j \in 1 .. Len(map[k]) : map[k][j] = s
      BY DEF First
    <3>3. i \in DOMAIN map[k] /\ j \in DOMAIN map[k] /\ i \in Nat /\ j \in Nat
      BY <2>1, <3>1, <3>2
    <3>4. r \in Nat /\ s \in Nat
      <4>1. r \in Requests /\ s \in Requests
        BY <2>1, <3>1, <3>2, <3>3
      <4> QED
        BY <4>1 DEF Requests
    <3>5. ~(i < j)
      BY <2>5, <3>1, <3>2, <3>3, <3>4 DEF BucketInv, QueuesInv
    <3>6. j \in 1 .. n
      BY <2>1, <3>3, <3>5
    <3> QED
      BY <3>2, <3>6 DEF First
  <2>6. Abstract!Waiting(k) = First(k, Len(map[k]))
    BY WaitingAreQueued
  <2>7. n < leaksPerSecond => First(k, n) = First(k, Len(map[k]))
    BY <2>1
  <2> QED
    BY <2>1, <2>2, <2>3, <2>4, <2>5, <2>6, <2>7, SameCardinality DEF Abstract!Passes
<1>6. [r \in Requests |-> State(r)]' =
        [r \in Requests |-> IF r \in passing THEN "passed" ELSE [q \in Requests |-> State(q)][r]]
  <2>1. [r \in Requests |-> State(r)]' = [r \in Requests |-> State(r)']
    BY DEF Requests
  <2> HIDE DEF passing
  <2> QED
    BY <1>3, <2>1
<1> HIDE DEF passing
<1> QED
  BY <1>1, <1>4, <1>5, <1>6 DEF Abstract!Leak, Abstract!Requests, Requests

\* Leaky bucket: stop closes the throttle, and leaves who waits without an answer.
LEMMA StopRefines ==
  ASSUME BucketInv, stop
  PROVE  Abstract!Close
<1>1. /\ running' = FALSE /\ key' = key /\ requested' = requested /\ result' = result
      /\ map' = [k \in Keys |-> <<>>]
  BY DEF stop
<1>2. ASSUME NEW r \in Requests
      PROVE  State(r)' = IF State(r) = "waiting" THEN "abandoned" ELSE State(r)
  <2>1. key[r] \in Keys /\ result[r] \in {"none", "pending", "rejected", "passed"}
    BY DEF BucketInv, TypeOK
  <2>2. ~Queued(r)'
    BY <1>1, <2>1 DEF Queued
  <2> QED
    BY <1>1, <2>1, <2>2 DEF State
<1>3. [r \in Requests |-> State(r)]' = [r \in Requests |-> State(r)']
  BY DEF Requests
<1> QED
  BY <1>1, <1>2, <1>3 DEF Abstract!Close, Abstract!Requests, Requests

\* Leaky bucket: it starts as the throttle does.
LEMMA InitRefines ==
  ASSUME Init
  PROVE  Abstract!Init
<1>1. \A r \in Requests : State(r) = "none"
  BY DEF Init, State
<1> QED
  BY <1>1 DEF Init, Abstract!Init, Abstract!Requests, Requests

\* Whatever is requested, and whenever the interval fires or is cleared, callers see
\* the throttle: a request is turned away only when capacity of its key wait, and
\* the arrays that are sliced let the oldest pass, as many as may.
THEOREM ThrottleImplemented == Spec => ImplementsThrottle
<1>1. Init => Abstract!Init
  BY InitRefines
<1>2. ASSUME BucketInv, [Next]_vars
      PROVE  [Abstract!Next]_(Abstract!vars)
  <2>1. CASE \E k \in Keys : request(k)
    BY <1>2, <2>1, RequestRefines DEF Abstract!Next
  <2>2. CASE handler
    BY <1>2, <2>2, HandlerRefines DEF Abstract!Next
  <2>3. CASE stop
    BY <1>2, <2>3, StopRefines DEF Abstract!Next
  <2>4. CASE UNCHANGED vars
    BY <2>4 DEF vars, Abstract!vars, State, Queued, Requests
  <2> QED
    BY <1>2, <2>1, <2>2, <2>3, <2>4 DEF Next
<1> QED
  BY <1>1, <1>2, Invariance, PTL DEF Spec, Abstract!Spec, ImplementsThrottle

-----------------------------------------------------------------------------
(* Quota limits                                                            *)

\* What calls that no update overtook are about to do: a read puts what the
\* repository still has into the cache, an update what was given last.  While
\* such a read is under way no update is, and none was for a day.  All calls
\* are of managers that are handed out.
CallsInv ==
  \A c \in Calls : \A s \in calls[c] :
    /\ s.manager \in managers
    /\ s.at # "missed" => s.limits # None
    /\ s.at = "read" /\ ~s.overtaken => s.limits = stored[s.manager][s.user]
    /\ s.at = "stored" /\ ~s.overtaken => s.limits = latest[s.user]
    /\ s.at # "stored" /\ ~s.overtaken => ~Quota!BeingUpdated(s.user) /\ since[s.user] > Day

\* An entry is no older than the update that was cached last.
AgeInv ==
  \A u \in Users : since[u] <= Day => cached[u] # None /\ cached[u].age <= since[u]

\* The repository of the only manager that is handed out has what each user was
\* given last.
StoreInv ==
  Quota!OneManager => \A m \in managers, u \in Users : stored[m][u] = latest[u]

QuotaInv == Quota!LimitsAreFresh /\ CallsInv /\ AgeInv /\ StoreInv

\* Quota limits: the invariant holds at first.
LEMMA QuotaInit ==
  ASSUME Quota!ConstantsAssumption, Quota!Init
  PROVE  QuotaInv
<1>1. Quota!TypeOK
  BY DEF Quota!ConstantsAssumption, Quota!Init, Quota!TypeOK, Quota!Ages
<1>2. CallsInv /\ StoreInv
  BY DEF Quota!Init, CallsInv, StoreInv
<1>3. \A u \in Users : since[u] = Day + 1 /\ cached[u] = None
  BY DEF Quota!Init
<1>4. AgeInv /\ Quota!ChangeHoldsForADay /\ Quota!StaleOnlyIfOvertaken
  BY <1>3 DEF Quota!ConstantsAssumption, AgeInv, Quota!ChangeHoldsForADay,
     Quota!StaleOnlyIfOvertaken, Quota!Live
<1> QED
  BY <1>1, <1>2, <1>4 DEF QuotaInv, Quota!LimitsAreFresh

\* What a call awaits replaces what it awaited.
LEMMA Awaited ==
  ASSUME Quota!TypeOK, NEW c \in Calls, NEW S \in SUBSET Quota!CallStates,
         S = {} \/ \E s : S = {s}, calls' = [calls EXCEPT ![c] = S]
  PROVE  /\ calls' \in [Calls -> SUBSET Quota!CallStates]
         /\ \A d \in Calls : \A s, t \in calls'[d] : s = t
         /\ calls'[c] = S
         /\ \A d \in Calls \ {c} : calls'[d] = calls[d]
BY DEF Quota!TypeOK

\* Only an update that is stored, or cached, changes who is being updated.
LEMMA UpdatesStay ==
  ASSUME Quota!TypeOK, NEW c \in Calls, NEW S \in SUBSET Quota!CallStates,
         calls' = [calls EXCEPT ![c] = S], NEW u,
         \A s \in calls[c] : s.at # "stored" \/ s.user # u,
         \A s \in S : s.at # "stored" \/ s.user # u
  PROVE  Quota!BeingUpdated(u)' <=> Quota!BeingUpdated(u)
BY DEF Quota!TypeOK, Quota!BeingUpdated

\* Quota limits: a miss of the cache keeps it.
LEMMA QuotaMiss ==
  ASSUME Quota!ConstantsAssumption, QuotaInv,
         NEW c \in Calls, NEW m \in managers, NEW u \in Users, Quota!GetMiss(c, m, u)
  PROVE  QuotaInv'
<1> DEFINE s == [at |-> "missed", manager |-> m, user |-> u, limits |-> None,
                 overtaken |-> Quota!BeingUpdated(u)]
<1>1. calls' = [calls EXCEPT ![c] = {s}] /\ calls[c] = {}
  BY DEF Quota!GetMiss, Quota!Await
<1>3. Quota!TypeOK
  BY DEF QuotaInv, Quota!LimitsAreFresh
<1>2. {s} \in SUBSET Quota!CallStates
  BY <1>3 DEF Quota!CallStates, Quota!BeingUpdated, Quota!TypeOK
<1>4. /\ s.at = "missed" /\ s.user = u /\ s.overtaken = Quota!BeingUpdated(u)
      /\ s.manager \in managers
  OBVIOUS
<1> HIDE DEF s
<1>5. /\ calls' \in [Calls -> SUBSET Quota!CallStates]
      /\ \A d \in Calls : \A x, y \in calls'[d] : x = y
      /\ calls'[c] = {s}
      /\ \A d \in Calls \ {c} : calls'[d] = calls[d]
  BY <1>1, <1>2, <1>3, Awaited
<1>6. \A v : Quota!BeingUpdated(v)' <=> Quota!BeingUpdated(v)
  BY <1>1, <1>2, <1>3, <1>4, UpdatesStay
<1>7. /\ ~Quota!Live(u)
      /\ cached' = [cached EXCEPT ![u] = None]
      /\ UNCHANGED <<managers, stored, updates, latest, since, mixed>>
  BY DEF Quota!GetMiss
<1>8. since[u] > Day
  BY <1>3, <1>7 DEF QuotaInv, AgeInv, Quota!Live, Quota!TypeOK, Quota!Ages,
                    Quota!ConstantsAssumption
<1>9. Quota!TypeOK'
  BY <1>3, <1>5, <1>7 DEF Quota!TypeOK
<1>10. CallsInv'
  BY <1>4, <1>5, <1>6, <1>7, <1>8 DEF QuotaInv, CallsInv
<1>11. AgeInv' /\ StoreInv'
  BY <1>3, <1>7, <1>8 DEF QuotaInv, AgeInv, StoreInv, Quota!OneManager, Quota!TypeOK,
     Quota!Ages, Quota!ConstantsAssumption
<1>12. Quota!StaleOnlyIfOvertaken' /\ Quota!ChangeHoldsForADay'
  BY <1>3, <1>6, <1>7, <1>8 DEF QuotaInv, Quota!LimitsAreFresh, Quota!StaleOnlyIfOvertaken,
     Quota!ChangeHoldsForADay, Quota!OneManager, Quota!Live, Quota!TypeOK,
     Quota!Ages, Quota!ConstantsAssumption
<1> QED
  BY <1>9, <1>10, <1>11, <1>12 DEF QuotaInv, Quota!LimitsAreFresh

\* Quota limits: reading a service that has no limits keeps it.
LEMMA QuotaReadNothing ==
  ASSUME Quota!ConstantsAssumption, QuotaInv,
         NEW c \in Calls, NEW s \in calls[c], Quota!ReadNothing(c, s)
  PROVE  QuotaInv'
<1>1. /\ calls' = [calls EXCEPT ![c] = {}] /\ calls[c] = {s} /\ s.at = "missed"
      /\ UNCHANGED <<managers, stored, cached, updates, latest, since, mixed>>
  BY DEF Quota!ReadNothing, Quota!Done
<1>2. Quota!TypeOK
  BY DEF QuotaInv, Quota!LimitsAreFresh
<1>3. /\ calls' \in [Calls -> SUBSET Quota!CallStates]
      /\ \A d \in Calls : \A x, y \in calls'[d] : x = y
      /\ calls'[c] = {}
      /\ \A d \in Calls \ {c} : calls'[d] = calls[d]
  <2>1. {} \in SUBSET Quota!CallStates
    OBVIOUS
  <2> QED
    BY <1>1, <1>2, <2>1, Awaited
<1>4. \A v : Quota!BeingUpdated(v)' <=> Quota!BeingUpdated(v)
  <2>1. /\ \A x \in calls[c] : x.at # "stored"
        /\ {} \in SUBSET Quota!CallStates /\ \A x \in {} : x.at # "stored"
    BY <1>1
  <2> QED
    BY <1>1, <1>2, <2>1, UpdatesStay
<1>5. Quota!TypeOK' /\ AgeInv' /\ StoreInv'
  BY <1>1, <1>2, <1>3 DEF QuotaInv, Quota!TypeOK, AgeInv, StoreInv, Quota!OneManager
<1>6. CallsInv'
  BY <1>1, <1>3, <1>4 DEF QuotaInv, CallsInv
<1>7. Quota!StaleOnlyIfOvertaken' /\ Quota!ChangeHoldsForADay'
  BY <1>1, <1>4 DEF QuotaInv, Quota!LimitsAreFresh, Quota!StaleOnlyIfOvertaken,
     Quota!ChangeHoldsForADay, Quota!OneManager, Quota!Live
<1> QED
  BY <1>5, <1>6, <1>7 DEF QuotaInv, Quota!LimitsAreFresh

\* Quota limits: reading the limits of a service keeps it.
LEMMA QuotaReadLimits ==
  ASSUME Quota!ConstantsAssumption, QuotaInv,
         NEW c \in Calls, NEW s \in calls[c], Quota!ReadLimits(c, s)
  PROVE  QuotaInv'
<1> DEFINE t == [s EXCEPT !.at = "read", !.limits = stored[s.manager][s.user]]
<1>1. /\ calls' = [calls EXCEPT ![c] = {t}] /\ calls[c] = {s} /\ s.at = "missed"
      /\ stored[s.manager][s.user] # None
      /\ UNCHANGED <<managers, stored, cached, updates, latest, since, mixed>>
  BY DEF Quota!ReadLimits, Quota!Await
<1>2. Quota!TypeOK
  BY DEF QuotaInv, Quota!LimitsAreFresh
<1>3. s \in Quota!CallStates
  BY <1>2 DEF Quota!TypeOK
<1>a. stored[s.manager][s.user] \in Quota!AcceptedLimits \cup {None}
  BY <1>2, <1>3 DEF Quota!TypeOK, Quota!CallStates
<1>4. /\ t \in Quota!CallStates /\ t.at = "read" /\ t.limits = stored[s.manager][s.user]
      /\ t.manager = s.manager /\ t.user = s.user /\ t.overtaken = s.overtaken
  BY <1>3, <1>a DEF Quota!CallStates
<1> HIDE DEF t
<1>5. /\ calls' \in [Calls -> SUBSET Quota!CallStates]
      /\ \A d \in Calls : \A x, y \in calls'[d] : x = y
      /\ calls'[c] = {t}
      /\ \A d \in Calls \ {c} : calls'[d] = calls[d]
  <2>1. {t} \in SUBSET Quota!CallStates
    BY <1>4
  <2> QED
    BY <1>1, <1>2, <2>1, Awaited
<1>6. \A v : Quota!BeingUpdated(v)' <=> Quota!BeingUpdated(v)
  <2>1. /\ \A x \in calls[c] : x.at # "stored"
        /\ {t} \in SUBSET Quota!CallStates /\ \A x \in {t} : x.at # "stored"
    BY <1>1, <1>4
  <2> QED
    BY <1>1, <1>2, <1>4, <2>1, UpdatesStay
<1>7. Quota!TypeOK' /\ AgeInv' /\ StoreInv'
  BY <1>1, <1>2, <1>5 DEF QuotaInv, Quota!TypeOK, AgeInv, StoreInv, Quota!OneManager
<1>8. CallsInv'
  BY <1>1, <1>4, <1>5, <1>6 DEF QuotaInv, CallsInv
<1>9. Quota!StaleOnlyIfOvertaken' /\ Quota!ChangeHoldsForADay'
  BY <1>1, <1>6 DEF QuotaInv, Quota!LimitsAreFresh, Quota!StaleOnlyIfOvertaken,
     Quota!ChangeHoldsForADay, Quota!OneManager, Quota!Live
<1> QED
  BY <1>7, <1>8, <1>9 DEF QuotaInv, Quota!LimitsAreFresh

\* What a call that no update overtook puts into the cache may be older than what
\* was given last only if another manager's repository had it, a day after the
\* last update.
LEMMA QuotaFill ==
  ASSUME Quota!ConstantsAssumption, QuotaInv,
         NEW c \in Calls, NEW s \in calls[c], Quota!Fill(c, s)
  PROVE  QuotaInv'
<1>1. /\ calls' = [calls EXCEPT ![c] = {}] /\ calls[c] = {s} /\ s.at = "read"
      /\ cached' = [cached EXCEPT ![s.user] = [limits |-> s.limits, age |-> 0]]
      /\ mixed' = IF s.overtaken THEN mixed \cup {s.user} ELSE mixed \ {s.user}
      /\ UNCHANGED <<managers, stored, updates, latest, since>>
  BY DEF Quota!Fill, Quota!Done, Quota!PutInCache
<1>2. Quota!TypeOK
  BY DEF QuotaInv, Quota!LimitsAreFresh
<1>3. s \in Quota!CallStates
  BY <1>2 DEF Quota!TypeOK
<1>4. s.user \in Users /\ s.manager \in Managers /\ s.limits \in Quota!AcceptedLimits
  BY <1>1, <1>3 DEF Quota!CallStates, QuotaInv, CallsInv
<1>5. /\ calls' \in [Calls -> SUBSET Quota!CallStates]
      /\ \A d \in Calls : \A x, y \in calls'[d] : x = y
      /\ calls'[c] = {}
      /\ \A d \in Calls \ {c} : calls'[d] = calls[d]
  <2>1. {} \in SUBSET Quota!CallStates
    OBVIOUS
  <2> QED
    BY <1>1, <1>2, <2>1, Awaited
<1>6. \A v : Quota!BeingUpdated(v)' <=> Quota!BeingUpdated(v)
  <2>1. /\ \A x \in calls[c] : x.at # "stored"
        /\ {} \in SUBSET Quota!CallStates /\ \A x \in {} : x.at # "stored"
    BY <1>1
  <2> QED
    BY <1>1, <1>2, <2>1, UpdatesStay
<1>7. /\ \A u \in Users \ {s.user} : cached'[u] = cached[u] /\ (u \in mixed' <=> u \in mixed)
      /\ cached'[s.user] = [limits |-> s.limits, age |-> 0]
      /\ s.user \in mixed' <=> s.overtaken
  <2>1. s.user \in mixed' <=> s.overtaken
    BY <1>1, <1>3 DEF Quota!CallStates
  <2>2. ASSUME NEW u \in Users \ {s.user}
        PROVE  cached'[u] = cached[u] /\ (u \in mixed' <=> u \in mixed)
    BY <1>1, <1>2
  <2>3. s.user \in DOMAIN cached
    BY <1>2, <1>4 DEF Quota!TypeOK
  <2> QED
    BY <1>1, <2>1, <2>2, <2>3
<1>8. Quota!TypeOK'
  BY <1>1, <1>2, <1>4, <1>5, <1>7 DEF Quota!TypeOK, Quota!Ages, Quota!ConstantsAssumption
<1>9. CallsInv'
  BY <1>1, <1>5, <1>6 DEF QuotaInv, CallsInv
<1>a. cached'[s.user] # None /\ cached'[s.user].age = 0
  BY <1>4, <1>7 DEF Quota!ConstantsAssumption, Quota!AcceptedLimits
<1>b. \A u \in Users : since[u] \in Nat
  BY <1>2 DEF Quota!TypeOK, Quota!Ages
<1>10. AgeInv' /\ StoreInv'
  <2>1. StoreInv'
    BY <1>1 DEF QuotaInv, StoreInv, Quota!OneManager
  <2>2. ASSUME NEW u \in Users, since'[u] <= Day
        PROVE  cached'[u] # None /\ cached'[u].age <= since'[u]
    <3>1. CASE u = s.user
      BY <1>1, <1>7, <1>a, <1>b, <3>1
    <3>2. CASE u # s.user
      BY <1>1, <1>7, <2>2, <3>2 DEF QuotaInv, AgeInv
    <3> QED
      BY <3>1, <3>2
  <2> QED
    BY <2>1, <2>2 DEF AgeInv
<1>11. Quota!StaleOnlyIfOvertaken'
  BY <1>1, <1>4, <1>6, <1>7 DEF QuotaInv, CallsInv, StoreInv, Quota!LimitsAreFresh,
     Quota!StaleOnlyIfOvertaken, Quota!OneManager, Quota!Live
<1>12. Quota!ChangeHoldsForADay'
  <2>1. ~s.overtaken => since[s.user] > Day
    BY <1>1 DEF QuotaInv, CallsInv
  <2> QED
    BY <1>1, <1>2, <1>4, <1>6, <1>7, <2>1 DEF QuotaInv, Quota!LimitsAreFresh, Quota!TypeOK,
       Quota!ChangeHoldsForADay, Quota!Live, Quota!Ages, Quota!ConstantsAssumption
<1> QED
  BY <1>8, <1>9, <1>10, <1>11, <1>12 DEF QuotaInv, Quota!LimitsAreFresh

\* Quota limits: the write of new limits keeps it.
LEMMA QuotaUpdated ==
  ASSUME Quota!ConstantsAssumption, QuotaInv,
         NEW c \in Calls, NEW s \in calls[c], Quota!Updated(c, s)
  PROVE  QuotaInv'
<1>1. /\ calls' = [calls EXCEPT ![c] = {}] /\ calls[c] = {s} /\ s.at = "stored"
      /\ cached' = [cached EXCEPT ![s.user] = [limits |-> s.limits, age |-> 0]]
      /\ mixed' = IF s.overtaken THEN mixed \cup {s.user} ELSE mixed \ {s.user}
      /\ since' = [since EXCEPT ![s.user] = 0]
      /\ UNCHANGED <<managers, stored, updates, latest>>
  BY DEF Quota!Updated, Quota!Done, Quota!PutInCache
<1>2. Quota!TypeOK
  BY DEF QuotaInv, Quota!LimitsAreFresh
<1>3. s \in Quota!CallStates
  BY <1>2 DEF Quota!TypeOK
<1>4. s.user \in Users /\ s.manager \in Managers /\ s.limits \in Quota!AcceptedLimits
  BY <1>1, <1>3 DEF Quota!CallStates, QuotaInv, CallsInv
<1>5. /\ calls' \in [Calls -> SUBSET Quota!CallStates]
      /\ \A d \in Calls : \A x, y \in calls'[d] : x = y
      /\ calls'[c] = {}
      /\ \A d \in Calls \ {c} : calls'[d] = calls[d]
  <2>1. {} \in SUBSET Quota!CallStates
    OBVIOUS
  <2> QED
    BY <1>1, <1>2, <2>1, Awaited
<1>6. /\ Quota!BeingUpdated(s.user)
      /\ \A v : v # s.user => (Quota!BeingUpdated(v)' <=> Quota!BeingUpdated(v))
      /\ \A v : Quota!BeingUpdated(v)' => Quota!BeingUpdated(v)
  <2>1. Quota!BeingUpdated(s.user)
    BY <1>1 DEF Quota!BeingUpdated
  <2>2. ASSUME NEW v, v # s.user
        PROVE  Quota!BeingUpdated(v)' <=> Quota!BeingUpdated(v)
    <3>1. /\ \A x \in calls[c] : x.user # v
          /\ {} \in SUBSET Quota!CallStates /\ \A x \in {} : x.user # v
      BY <1>1, <2>2
    <3> QED
      BY <1>1, <1>2, <3>1, UpdatesStay
  <2> QED
    BY <2>1, <2>2
<1>7. /\ \A u \in Users \ {s.user} : /\ cached'[u] = cached[u] /\ since'[u] = since[u]
                                     /\ u \in mixed' <=> u \in mixed
      /\ cached'[s.user] = [limits |-> s.limits, age |-> 0]
      /\ since'[s.user] = 0
      /\ s.user \in mixed' <=> s.overtaken
  <2>1. s.user \in mixed' <=> s.overtaken
    BY <1>1, <1>3 DEF Quota!CallStates
  <2>2. ASSUME NEW u \in Users \ {s.user}
        PROVE  cached'[u] = cached[u] /\ (u \in mixed' <=> u \in mixed)
    BY <1>1, <1>2
  <2>3. s.user \in DOMAIN cached /\ since \in [Users -> Quota!Ages]
    BY <1>2, <1>4 DEF Quota!TypeOK
  <2> QED
    BY <1>1, <1>4, <2>1, <2>2, <2>3
<1>8. Quota!TypeOK'
  BY <1>1, <1>2, <1>4, <1>5, <1>7 DEF Quota!TypeOK, Quota!Ages, Quota!ConstantsAssumption
<1>9. CallsInv'
  BY <1>1, <1>3, <1>5, <1>6, <1>7 DEF QuotaInv, CallsInv, Quota!CallStates
<1>a. cached'[s.user] # None /\ cached'[s.user].age = 0
  BY <1>4, <1>7 DEF Quota!ConstantsAssumption, Quota!AcceptedLimits
<1>b. \A u \in Users : since[u] \in Nat
  BY <1>2 DEF Quota!TypeOK, Quota!Ages
<1>10. AgeInv' /\ StoreInv'
  <2>1. StoreInv'
    BY <1>1 DEF QuotaInv, StoreInv, Quota!OneManager
  <2>2. ASSUME NEW u \in Users, since'[u] <= Day
        PROVE  cached'[u] # None /\ cached'[u].age <= since'[u]
    <3>1. CASE u = s.user
      BY <1>1, <1>7, <1>a, <1>b, <3>1
    <3>2. CASE u # s.user
      BY <1>1, <1>7, <2>2, <3>2 DEF QuotaInv, AgeInv
    <3> QED
      BY <3>1, <3>2
  <2> QED
    BY <2>1, <2>2 DEF AgeInv
<1>11. s.overtaken \/ s.limits = latest[s.user]
  BY <1>1 DEF QuotaInv, CallsInv
<1>12. Quota!StaleOnlyIfOvertaken'
  BY <1>1, <1>4, <1>6, <1>7, <1>11 DEF QuotaInv, Quota!LimitsAreFresh,
     Quota!StaleOnlyIfOvertaken, Quota!OneManager, Quota!Live
<1>13. Quota!ChangeHoldsForADay'
  <2>1. cached'[s.user] # None
    BY <1>2, <1>4, <1>7, <1>8 DEF Quota!ConstantsAssumption, Quota!AcceptedLimits, Quota!TypeOK
  <2> QED
    BY <1>1, <1>2, <1>4, <1>6, <1>7, <1>11, <2>1 DEF QuotaInv, Quota!LimitsAreFresh, Quota!TypeOK,
       Quota!ChangeHoldsForADay, Quota!Live, Quota!Ages, Quota!ConstantsAssumption
<1> QED
  BY <1>8, <1>9, <1>10, <1>12, <1>13 DEF QuotaInv, Quota!LimitsAreFresh

\* An update marks the other calls of its user, and those alone.
Marks(c, u, t) ==
  /\ calls' \in [Calls -> SUBSET Quota!CallStates]
  /\ \A d \in Calls : \A x, y \in calls'[d] : x = y
  /\ calls'[c] = {t}
  /\ \A d \in Calls \ {c} : \A x \in calls'[d] : \E s \in calls[d] :
       /\ x.at = s.at /\ x.manager = s.manager /\ x.user = s.user /\ x.limits = s.limits
       /\ x.overtaken <=> s.overtaken \/ s.user = u
  /\ \A d \in Calls \ {c} : \A s \in calls[d] : \E x \in calls'[d] :
       x.at = s.at /\ x.user = s.user

\* That is what it does.
LEMMA Overtakes ==
  ASSUME Quota!TypeOK, NEW c \in Calls, NEW u \in Users, NEW t \in Quota!CallStates,
         calls' = [Quota!Overtaken(u) EXCEPT ![c] = {t}]
  PROVE  Marks(c, u, t)
<1> DEFINE Marked(s) == [s EXCEPT !.overtaken = @ \/ s.user = u]
<1>1. ASSUME NEW s \in Quota!CallStates
      PROVE  /\ Marked(s) \in Quota!CallStates
             /\ Marked(s).at = s.at /\ Marked(s).manager = s.manager
             /\ Marked(s).user = s.user /\ Marked(s).limits = s.limits
             /\ Marked(s).overtaken <=> s.overtaken \/ s.user = u
  BY DEF Quota!CallStates
<1> HIDE DEF Marked
<1>2. calls' = [[d \in Calls |-> {Marked(s) : s \in calls[d]}] EXCEPT ![c] = {t}]
  BY DEF Quota!Overtaken, Marked
<1>3. /\ calls'[c] = {t} /\ DOMAIN calls' = Calls
      /\ \A d \in Calls \ {c} : calls'[d] = {Marked(s) : s \in calls[d]}
      /\ calls' = [d \in Calls |-> calls'[d]]
  BY <1>2
<1>4. \A d \in Calls : calls[d] \subseteq Quota!CallStates /\ \A x, y \in calls[d] : x = y
  BY DEF Quota!TypeOK
<1>5. ASSUME NEW d \in Calls
      PROVE  calls'[d] \in SUBSET Quota!CallStates /\ \A x, y \in calls'[d] : x = y
  <2>1. CASE d = c
    BY <1>3, <2>1
  <2>2. CASE d # c
    BY <1>1, <1>3, <1>4, <2>2
  <2> QED
    BY <2>1, <2>2
<1>6. \A d \in Calls \ {c} : \A x \in calls'[d] : \E s \in calls[d] :
        /\ x.at = s.at /\ x.manager = s.manager /\ x.user = s.user /\ x.limits = s.limits
        /\ x.overtaken <=> s.overtaken \/ s.user = u
  <2> SUFFICES ASSUME NEW d \in Calls \ {c}, NEW x \in calls'[d]
               PROVE  \E s \in calls[d] :
                        /\ x.at = s.at /\ x.manager = s.manager
                        /\ x.user = s.user /\ x.limits = s.limits
                        /\ x.overtaken <=> s.overtaken \/ s.user = u
    OBVIOUS
  <2>1. PICK s \in calls[d] : x = Marked(s)
    BY <1>3
  <2> QED
    BY <1>1, <1>4, <2>1
<1>7. \A d \in Calls \ {c} : \A s \in calls[d] : \E x \in calls'[d] :
        x.at = s.at /\ x.user = s.user
  <2> SUFFICES ASSUME NEW d \in Calls \ {c}, NEW s \in calls[d]
               PROVE  \E x \in calls'[d] : x.at = s.at /\ x.user = s.user
    OBVIOUS
  <2>1. Marked(s) \in calls'[d]
    BY <1>3
  <2> QED
    BY <1>1, <1>4, <2>1
<1>8. calls' \in [Calls -> SUBSET Quota!CallStates]
  BY <1>3, <1>5
<1> QED
  BY <1>3, <1>5, <1>6, <1>7, <1>8 DEF Marks

\* Quota limits: an update that begins keeps it.
LEMMA QuotaUpdate ==
  ASSUME Quota!ConstantsAssumption, QuotaInv, NEW c \in Calls,
         NEW m \in managers, NEW u \in Users, NEW l \in Limits, Quota!update(c, m, u, l)
  PROVE  QuotaInv'
<1> DEFINE t == [at |-> "stored", manager |-> m, user |-> u, limits |-> l, overtaken |-> FALSE]
<1>1. /\ calls[c] = {} /\ calls' = [Quota!Overtaken(u) EXCEPT ![c] = {t}]
      /\ l \in Quota!AcceptedLimits /\ l # None
      /\ updates < MaxUpdates /\ updates' = updates + 1
      /\ stored' = [stored EXCEPT ![m][u] = l]
      /\ latest' = [latest EXCEPT ![u] = l]
      /\ UNCHANGED <<managers, cached, since, mixed>>
  BY DEF Quota!update, Quota!AcceptedLimits, Quota!ConstantsAssumption
<1>2. Quota!TypeOK /\ m \in Managers
  BY DEF QuotaInv, Quota!LimitsAreFresh, Quota!TypeOK
<1>3. /\ t \in Quota!CallStates /\ t.at = "stored" /\ t.user = u /\ t.limits = l
      /\ t.manager = m /\ ~t.overtaken
  BY <1>1, <1>2 DEF Quota!CallStates
<1> HIDE DEF t
<1>4. Marks(c, u, t)
  BY <1>1, <1>2, <1>3, Overtakes
<1>5. /\ latest'[u] = l /\ \A v \in Users \ {u} : latest'[v] = latest[v]
      /\ stored'[m][u] = l
      /\ \A n \in Managers, v \in Users : n # m \/ v # u => stored'[n][v] = stored[n][v]
      /\ stored' \in [Managers -> [Users -> Quota!AcceptedLimits \cup {None}]]
      /\ latest' \in [Users -> Quota!AcceptedLimits \cup {None}]
  BY <1>1, <1>2 DEF Quota!TypeOK
<1>6. Quota!TypeOK'
  BY <1>1, <1>2, <1>4, <1>5 DEF Quota!TypeOK, Quota!ConstantsAssumption, Marks
<1>7. Quota!BeingUpdated(u)'
  BY <1>3, <1>4 DEF Quota!BeingUpdated, Marks
<1>8. ASSUME NEW v, v # u
      PROVE  Quota!BeingUpdated(v)' <=> Quota!BeingUpdated(v)
  <2>1. ASSUME Quota!BeingUpdated(v)'
        PROVE  Quota!BeingUpdated(v)
    <3>1. PICK d \in Calls : \E x \in calls'[d] : x.at = "stored" /\ x.user = v
      BY <2>1 DEF Quota!BeingUpdated
    <3>2. d # c
      BY <1>3, <1>4, <1>8, <3>1 DEF Marks
    <3> QED
      BY <1>4, <3>1, <3>2 DEF Quota!BeingUpdated, Marks
  <2>2. ASSUME Quota!BeingUpdated(v)
        PROVE  Quota!BeingUpdated(v)'
    <3>1. PICK d \in Calls : \E s \in calls[d] : s.at = "stored" /\ s.user = v
      BY <2>2 DEF Quota!BeingUpdated
    <3>2. d # c
      BY <1>1, <3>1
    <3> QED
      BY <1>4, <3>1, <3>2 DEF Quota!BeingUpdated, Marks
  <2> QED
    BY <2>1, <2>2
<1>9. CallsInv'
  <2> SUFFICES ASSUME NEW d \in Calls, NEW x \in calls'[d]
               PROVE  /\ x.manager \in managers'
                      /\ x.at # "missed" => x.limits # None
                      /\ x.at = "read" /\ ~x.overtaken => x.limits = stored'[x.manager][x.user]
                      /\ x.at = "stored" /\ ~x.overtaken => x.limits = latest'[x.user]
                      /\ x.at # "stored" /\ ~x.overtaken =>
                           ~Quota!BeingUpdated(x.user)' /\ since'[x.user] > Day
    BY DEF CallsInv
  <2>1. CASE d = c
    BY <1>1, <1>3, <1>4, <1>5, <2>1 DEF Marks
  <2>2. CASE d # c
    <3>1. PICK s \in calls[d] :
            /\ x.at = s.at /\ x.manager = s.manager /\ x.user = s.user /\ x.limits = s.limits
            /\ x.overtaken <=> s.overtaken \/ s.user = u
      BY <1>4, <2>2 DEF Marks
    <3>2. s.user \in Users /\ s.manager \in Managers
      BY <1>2 DEF Quota!TypeOK, Quota!CallStates
    <3>3. /\ s.manager \in managers /\ managers' = managers
          /\ s.at # "missed" => s.limits # None
          /\ s.at = "read" /\ ~s.overtaken => s.limits = stored[s.manager][s.user]
          /\ s.at = "stored" /\ ~s.overtaken => s.limits = latest[s.user]
          /\ s.at # "stored" /\ ~s.overtaken =>
               ~Quota!BeingUpdated(s.user) /\ since[s.user] > Day
      BY <1>1 DEF QuotaInv, CallsInv
    <3>4. CASE s.user = u
      BY <3>1, <3>3, <3>4
    <3>5. CASE s.user # u
      <4>1. Quota!BeingUpdated(s.user)' <=> Quota!BeingUpdated(s.user)
        BY <1>8, <3>5
      <4>2. stored'[s.manager][s.user] = stored[s.manager][s.user]
            /\ latest'[s.user] = latest[s.user] /\ since' = since
        BY <1>1, <1>5, <3>2, <3>5
      <4>3. x.at = s.at /\ x.limits = s.limits /\ x.manager = s.manager /\ x.user = s.user
            /\ (x.overtaken <=> s.overtaken)
        BY <3>1, <3>5
      <4>4. Quota!BeingUpdated(x.user)' <=> Quota!BeingUpdated(s.user)
        BY <4>1, <4>3
      <4> QED
        BY <3>3, <4>2, <4>3, <4>4
    <3> QED
      BY <3>4, <3>5
  <2> QED
    BY <2>1, <2>2
<1>10. AgeInv' /\ StoreInv'
  <2>1. AgeInv'
    BY <1>1 DEF QuotaInv, AgeInv
  <2>2. StoreInv'
    BY <1>1, <1>2, <1>5 DEF QuotaInv, StoreInv, Quota!OneManager, Quota!TypeOK
  <2> QED
    BY <2>1, <2>2
<1>11. Quota!StaleOnlyIfOvertaken' /\ Quota!ChangeHoldsForADay'
  <2> SUFFICES ASSUME NEW v \in Users, ~Quota!BeingUpdated(v)', v \notin mixed'
               PROVE  /\ Quota!OneManager /\ Quota!Live(v)' => cached'[v].limits = latest'[v]
                      /\ since'[v] <= Day => Quota!Live(v)' /\ cached'[v].limits = latest'[v]
    BY <1>1 DEF Quota!StaleOnlyIfOvertaken, Quota!ChangeHoldsForADay, Quota!OneManager
  <2>1. v # u
    BY <1>7
  <2>2. ~Quota!BeingUpdated(v) /\ v \notin mixed /\ latest'[v] = latest[v]
    BY <1>1, <1>5, <1>8, <2>1
  <2> QED
    BY <1>1, <2>2 DEF QuotaInv, Quota!LimitsAreFresh, Quota!StaleOnlyIfOvertaken,
       Quota!ChangeHoldsForADay, Quota!Live
<1> QED
  BY <1>6, <1>9, <1>10, <1>11 DEF QuotaInv, Quota!LimitsAreFresh

\* Quota limits: time that passes keeps it.
LEMMA QuotaTick ==
  ASSUME Quota!ConstantsAssumption, QuotaInv, Quota!Tick
  PROVE  QuotaInv'
<1>1. Quota!TypeOK /\ Day \in Nat
  BY DEF QuotaInv, Quota!LimitsAreFresh, Quota!ConstantsAssumption
<1>2. UNCHANGED <<managers, stored, calls, updates, latest, mixed>>
  BY DEF Quota!Tick
<1>3. \A v : Quota!BeingUpdated(v)' <=> Quota!BeingUpdated(v)
  BY <1>2 DEF Quota!BeingUpdated
<1>4. ASSUME NEW u \in Users
      PROVE  /\ since[u] \in 0 .. Day + 1 /\ since'[u] \in 0 .. Day + 1
             /\ IF since[u] <= Day THEN since'[u] = since[u] + 1 ELSE since'[u] = since[u]
             /\ ~Quota!Live(u) => cached'[u] = cached[u]
             /\ Quota!Live(u) =>
                  /\ cached'[u] \in [limits : Quota!AcceptedLimits, age : Quota!Ages]
                  /\ cached'[u].limits = cached[u].limits
                  /\ cached[u].age \in Nat
                  /\ cached'[u].age = cached[u].age + 1
                  /\ cached'[u] # None
  <2>1. since[u] \in 0 .. Day + 1
    BY <1>1 DEF Quota!TypeOK, Quota!Ages
  <2>2. since'[u] = (IF since[u] <= Day THEN since[u] + 1 ELSE since[u])
    BY DEF Quota!Tick
  <2>3. since'[u] \in 0 .. Day + 1
    BY <1>1, <2>1, <2>2
  <2>4. ~Quota!Live(u) => cached'[u] = cached[u]
    BY DEF Quota!Tick
  <2>5. ASSUME Quota!Live(u)
        PROVE  /\ cached'[u] \in [limits : Quota!AcceptedLimits, age : Quota!Ages]
               /\ cached'[u].limits = cached[u].limits
               /\ cached[u].age \in Nat
               /\ cached'[u].age = cached[u].age + 1
               /\ cached'[u] # None
    <3>1. cached'[u] = [cached[u] EXCEPT !.age = @ + 1]
      BY <2>5 DEF Quota!Tick
    <3>2. cached[u] \in [limits : Quota!AcceptedLimits, age : Quota!Ages] /\ cached[u].age <= Day
      BY <1>1, <2>5 DEF Quota!TypeOK, Quota!Live
    <3>3. cached[u].age \in Nat /\ cached[u].age + 1 \in Quota!Ages
      BY <1>1, <3>2 DEF Quota!Ages
    <3>4. cached'[u] \in [limits : Quota!AcceptedLimits, age : Quota!Ages]
      BY <3>1, <3>2, <3>3
    <3>5. cached'[u] \in [limits : Limits, age : Nat]
      BY <1>1, <3>4 DEF Quota!AcceptedLimits, Quota!Ages
    <3> QED
      BY <3>1, <3>2, <3>3, <3>4, <3>5 DEF Quota!ConstantsAssumption
  <2> QED
    BY <2>1, <2>2, <2>3, <2>4, <2>5
<1>5. Quota!TypeOK'
  <2>1. cached' = [u \in Users |-> cached'[u]] /\ since' = [u \in Users |-> since'[u]]
    BY DEF Quota!Tick
  <2>2. \A u \in Users :
          cached'[u] \in [limits : Quota!AcceptedLimits, age : Quota!Ages] \cup {None}
    BY <1>1, <1>4 DEF Quota!TypeOK
  <2>3. \A u \in Users : since'[u] \in Quota!Ages
    BY <1>4 DEF Quota!Ages
  <2>4. /\ cached' \in [Users -> [limits : Quota!AcceptedLimits, age : Quota!Ages] \cup {None}]
        /\ since' \in [Users -> Quota!Ages]
    BY <2>1, <2>2, <2>3
  <2> QED
    BY <1>1, <1>2, <2>4 DEF Quota!TypeOK
<1>6. AgeInv'
  <2> SUFFICES ASSUME NEW u \in Users, since'[u] <= Day
               PROVE  cached'[u] # None /\ cached'[u].age <= since'[u]
    BY DEF AgeInv
  <2>1. since[u] <= Day /\ since'[u] = since[u] + 1
    BY <1>1, <1>4
  <2>2. cached[u] # None /\ cached[u].age <= since[u]
    BY <2>1 DEF QuotaInv, AgeInv
  <2>3. cached[u] \in [limits : Quota!AcceptedLimits, age : Quota!Ages]
    BY <1>1, <2>2 DEF Quota!TypeOK
  <2>4. Quota!Live(u)
    BY <1>1, <1>4, <2>1, <2>2, <2>3 DEF Quota!Live, Quota!Ages
  <2> QED
    BY <1>4, <2>1, <2>2, <2>4
<1>7. StoreInv'
  BY <1>2 DEF QuotaInv, StoreInv, Quota!OneManager
<1>8. CallsInv'
  <2>1. \A u \in Users : since[u] > Day => since'[u] > Day
    BY <1>1, <1>4
  <2>2. \A c \in Calls : \A s \in calls[c] : s.user \in Users
    BY <1>1 DEF Quota!TypeOK, Quota!CallStates
  <2> QED
    BY <1>2, <1>3, <2>1, <2>2 DEF QuotaInv, CallsInv
<1>9. \A u \in Users : Quota!Live(u)' => Quota!Live(u) /\ cached'[u].limits = cached[u].limits
  BY <1>4 DEF Quota!Live
<1>10. Quota!StaleOnlyIfOvertaken'
  BY <1>2, <1>3, <1>9 DEF QuotaInv, Quota!LimitsAreFresh, Quota!StaleOnlyIfOvertaken,
     Quota!OneManager
<1>11. Quota!ChangeHoldsForADay'
  <2> SUFFICES ASSUME NEW u \in Users, since'[u] <= Day, ~Quota!BeingUpdated(u)', u \notin mixed'
               PROVE  Quota!Live(u)' /\ cached'[u].limits = latest'[u]
    BY DEF Quota!ChangeHoldsForADay
  <2>1. since[u] <= Day /\ ~Quota!BeingUpdated(u) /\ u \notin mixed
    BY <1>1, <1>2, <1>3, <1>4
  <2>2. Quota!Live(u) /\ cached[u].limits = latest[u]
    BY <2>1 DEF QuotaInv, Quota!LimitsAreFresh, Quota!ChangeHoldsForADay
  <2>3. cached'[u] # None /\ cached'[u].age <= Day
    <3>1. cached[u].age <= since[u]
      BY <2>1 DEF QuotaInv, AgeInv
    <3> QED
      BY <1>1, <1>4, <2>1, <2>2, <3>1
  <2> QED
    BY <1>2, <1>4, <2>2, <2>3 DEF Quota!Live
<1> QED
  BY <1>5, <1>6, <1>7, <1>8, <1>10, <1>11 DEF QuotaInv, Quota!LimitsAreFresh

\* Quota limits: every step keeps it.
LEMMA QuotaNext ==
  ASSUME Quota!ConstantsAssumption, QuotaInv, [Quota!Next]_(Quota!vars)
  PROVE  QuotaInv'
<1>1. CASE UNCHANGED Quota!vars
  BY <1>1 DEF Quota!vars, QuotaInv, CallsInv, AgeInv, StoreInv, Quota!LimitsAreFresh,
              Quota!TypeOK, Quota!StaleOnlyIfOvertaken, Quota!ChangeHoldsForADay,
              Quota!OneManager, Quota!Live, Quota!BeingUpdated
<1>2. CASE Quota!Next
  BY <1>2, QuotaMiss, QuotaUpdate, QuotaReadNothing, QuotaReadLimits, QuotaFill, QuotaUpdated,
     QuotaTick DEF Quota!Next
<1> QED
  BY <1>1, <1>2

\* Limits: for any users, limits, calls and length of the day, however reads and
\* updates interleave between the cache and the repositories, one manager caches
\* old limits only by a call that an update overtook, and with any number of
\* managers new limits apply for a day from when they were cached, unless a call
\* that was overtaken caches older ones.
THEOREM LimitsFresh ==
  ASSUME Quota!ConstantsAssumption
  PROVE  Quota!Spec => []LimitsAreFresh
<1>1. Quota!Init => QuotaInv
  BY QuotaInit
<1>2. QuotaInv /\ [Quota!Next]_(Quota!vars) => QuotaInv'
  BY QuotaNext
<1>3. QuotaInv => LimitsAreFresh
  BY DEF QuotaInv, LimitsAreFresh
<1> QED
  BY <1>1, <1>2, <1>3, PTL DEF Quota!Spec

-----------------------------------------------------------------------------
(* The cache                                                               *)

\* In redis a key that is held has an entry, and one holder; in memory a value that
\* is in the way of a call was stored after its look.
CacheInv ==
  /\ backend \in {"in-memory", "redis"}
  /\ millisecond \in 0 .. LastMillisecond
  /\ entries \in [CacheKeys -> SUBSET Store!Entries]
  /\ \A k \in CacheKeys : \A e, f \in entries[k] : e = f
  /\ storing \in [Callers -> SUBSET Store!Arguments]
  /\ storedSince \in [Callers -> SUBSET CacheKeys]
  /\ winners \in [CacheKeys -> SUBSET Callers]
  /\ backend = "redis" =>
       /\ \A c \in Callers : storing[c] = {}
       /\ \A k \in CacheKeys : winners[k] # {} => Store!Live(k) # {}
       /\ \A k \in CacheKeys : \A c, d \in winners[k] : c = d
  /\ \A c \in Callers : \A a \in storing[c] :
       (\E e \in Store!Live(a.key) : e.value \notin Falsy) => a.key \in storedSince[c]

\* An entry that is stored is not expired at once.
LEMMA StoredIsLive ==
  ASSUME Store!ConstantsAssumption, millisecond \in 0 .. LastMillisecond,
         UNCHANGED <<backend, millisecond>>,
         NEW a \in Store!Arguments
  PROVE  /\ Store!Entry(a) \in Store!Entries /\ a.key \in CacheKeys
         /\ (~Store!Expired(Store!Entry(a)))'
<1> USE DEF Store!ConstantsAssumption
<1>1. a.ttl \in Lifetimes \cup {Forever} /\ a.value \in Values /\ a.key \in CacheKeys
  BY DEF Store!Arguments
<1>2. Store!Entry(a) \in Store!Entries
  BY <1>1 DEF Store!Entry, Store!Entries
<1>3. CASE a.ttl = Forever
  BY <1>1, <1>2, <1>3 DEF Store!Expired, Store!Entry
<1>4. CASE a.ttl # Forever
  <2>1. a.ttl \in Nat \ {0}
    BY <1>1, <1>4
  <2> QED
    BY <1>1, <1>2, <2>1 DEF Store!Expired, Store!Entry
<1> QED
  BY <1>1, <1>2, <1>3, <1>4

\* Who had an unexpired entry keeps it while the clock stands still and nobody
\* touches the key.
LEMMA LiveStays ==
  ASSUME UNCHANGED <<backend, millisecond>>,
         NEW k \in CacheKeys, entries'[k] \in {entries[k], Store!Live(k)}
  PROVE  Store!Live(k)' = Store!Live(k)
BY DEF Store!Live, Store!Expired

\* A step that stores nothing and looks at nothing.
LEMMA LessKept ==
  ASSUME CacheInv, entries' \in [CacheKeys -> SUBSET Store!Entries], NEW ks \in SUBSET CacheKeys,
         Store!Free(ks),
         \A k \in CacheKeys : entries'[k] \subseteq entries[k],
         \A k \in CacheKeys \ ks : Store!Live(k) # {} => Store!Live(k)' # {},
         \A k \in CacheKeys : Store!Live(k)' \subseteq Store!Live(k),
         UNCHANGED <<backend, storing, storedSince>>, millisecond' \in 0 .. LastMillisecond
  PROVE  CacheInv'
<1>1. /\ winners' \in [CacheKeys -> SUBSET Callers]
      /\ \A k \in CacheKeys : winners'[k] = IF k \in ks THEN {} ELSE winners[k]
  BY DEF Store!Free, CacheInv
<1>2. ASSUME backend = "redis", NEW k \in CacheKeys
      PROVE  /\ winners'[k] # {} => Store!Live(k)' # {}
             /\ \A c, d \in winners'[k] : c = d
  BY <1>1, <1>2 DEF CacheInv
<1>3. ASSUME NEW c \in Callers, NEW a \in storing[c], NEW e \in Store!Live(a.key)',
             e.value \notin Falsy
      PROVE  a.key \in storedSince[c]
  <2>1. a.key \in CacheKeys
    BY <1>3 DEF CacheInv, Store!Arguments
  <2> QED
    BY <1>3, <2>1 DEF CacheInv
<1>4. \A k \in CacheKeys : \A e, f \in entries'[k] : e = f
  BY DEF CacheInv
<1> QED
  BY <1>1, <1>2, <1>3, <1>4 DEF CacheInv

\* set, and the store of setNx: one entry, that every call under way is told of.
LEMMA StoreKeeps ==
  ASSUME Store!ConstantsAssumption, CacheInv, NEW a \in Store!Arguments,
         UNCHANGED <<backend, millisecond>>,
         entries' = [entries EXCEPT ![a.key] = {Store!Entry(a)}], Store!Stores(a.key),
         storing' \in [Callers -> SUBSET Store!Arguments],
         \A c \in Callers : storing'[c] \subseteq storing[c],
         winners' \in [CacheKeys -> SUBSET Callers],
         \A k \in CacheKeys \ {a.key} : winners'[k] = winners[k],
         backend = "redis" => \A c, d \in winners'[a.key] : c = d
  PROVE  CacheInv'
<1>1. /\ a.key \in CacheKeys /\ Store!Entry(a) \in Store!Entries
      /\ (~Store!Expired(Store!Entry(a)))'
  BY StoredIsLive DEF CacheInv
<1>2. /\ entries' \in [CacheKeys -> SUBSET Store!Entries] /\ entries'[a.key] = {Store!Entry(a)}
      /\ \A k \in CacheKeys \ {a.key} : entries'[k] = entries[k]
  BY <1>1 DEF CacheInv
<1>3. /\ storedSince' \in [Callers -> SUBSET CacheKeys]
      /\ \A c \in Callers : storedSince'[c] = storedSince[c] \cup {a.key}
  BY <1>1 DEF CacheInv, Store!Stores
<1>4. \A k \in CacheKeys \ {a.key} : Store!Live(k)' = Store!Live(k)
  BY <1>2, LiveStays
<1>5. Store!Live(a.key)' # {}
  <2>1. \A e \in Store!Entries : e \in entries'[a.key] /\ (~Store!Expired(e))' =>
          e \in Store!Live(a.key)'
    BY <1>1 DEF Store!Live
  <2>2. Store!Entry(a) = [value |-> a.value, createdAt |-> millisecond, ttl |-> a.ttl]
    BY DEF Store!Entry
  <2>3. Store!Entry(a)' = Store!Entry(a)
    BY <2>2 DEF Store!Entry
  <2> QED
    BY <1>1, <1>2, <2>3 DEF Store!Live
<1>6. ASSUME NEW c \in Callers, NEW b \in storing'[c], NEW e \in Store!Live(b.key)',
             e.value \notin Falsy
      PROVE  b.key \in storedSince'[c]
  <2>1. b \in storing[c] /\ b.key \in CacheKeys
    BY <1>6 DEF CacheInv, Store!Arguments
  <2>2. CASE b.key = a.key
    BY <1>3, <2>2
  <2>3. CASE b.key # a.key
    <3>1. e \in Store!Live(b.key)
      BY <1>4, <1>6, <2>1, <2>3
    <3> QED
      BY <1>3, <1>6, <2>1, <3>1 DEF CacheInv
  <2> QED
    BY <2>2, <2>3
<1>7. backend = "redis" =>
        /\ \A c \in Callers : storing'[c] = {}
        /\ \A k \in CacheKeys : winners'[k] # {} => Store!Live(k)' # {}
        /\ \A k \in CacheKeys : \A c, d \in winners'[k] : c = d
  BY <1>1, <1>4, <1>5 DEF CacheInv
<1>8. \A k \in CacheKeys : \A e, f \in entries'[k] : e = f
  BY <1>2 DEF CacheInv
<1> QED
  BY <1>2, <1>3, <1>6, <1>7, <1>8 DEF CacheInv

\* The look of setNx: nothing of use is there that the call will not be told of.
LEMMA LookKeeps ==
  ASSUME Store!ConstantsAssumption, CacheInv, NEW c \in Callers, NEW a \in Store!Arguments,
         Store!setNx(c, a)
  PROVE  CacheInv'
<1>1. /\ backend = "in-memory" /\ UNCHANGED <<backend, millisecond, winners>>
      /\ a.key \in CacheKeys
      /\ entries' = [entries EXCEPT ![a.key] = Store!Live(a.key)]
      /\ storing' = [storing EXCEPT ![c] = IF Store!Taken(a.key) THEN {} ELSE {a}]
      /\ storedSince' = [storedSince EXCEPT ![c] = {}]
  BY DEF Store!setNx, Store!Arguments
<1>2. /\ entries' \in [CacheKeys -> SUBSET Store!Entries]
      /\ \A k \in CacheKeys :
           entries'[k] \in {entries[k], Store!Live(k)} /\ entries'[k] \subseteq entries[k]
  BY <1>1 DEF CacheInv, Store!Live
<1>3. \A k \in CacheKeys : Store!Live(k)' = Store!Live(k)
  BY <1>1, <1>2, LiveStays
<1>4. /\ storing' \in [Callers -> SUBSET Store!Arguments]
      /\ storedSince' \in [Callers -> SUBSET CacheKeys]
      /\ \A d \in Callers \ {c} : storing'[d] = storing[d] /\ storedSince'[d] = storedSince[d]
      /\ storing'[c] = IF Store!Taken(a.key) THEN {} ELSE {a}
  BY <1>1 DEF CacheInv
<1>5. ASSUME NEW d \in Callers, NEW b \in storing'[d], NEW e \in Store!Live(b.key)',
             e.value \notin Falsy
      PROVE  b.key \in storedSince'[d]
  <2>1. b.key \in CacheKeys
    BY <1>4, <1>5 DEF Store!Arguments
  <2>2. e \in Store!Live(b.key)
    BY <1>3, <1>5, <2>1
  <2>3. CASE d = c
    BY <1>1, <1>4, <1>5, <2>2, <2>3 DEF Store!Taken
  <2>4. CASE d # c
    BY <1>4, <1>5, <2>2, <2>4 DEF CacheInv
  <2> QED
    BY <2>3, <2>4
<1>6. \A k \in CacheKeys : \A e, f \in entries'[k] : e = f
  BY <1>2 DEF CacheInv
<1> QED
  BY <1>1, <1>2, <1>4, <1>5, <1>6 DEF CacheInv

\* Every step keeps it.
LEMMA CacheStep ==
  ASSUME Store!ConstantsAssumption, CacheInv, [Store!Next]_(Store!vars)
  PROVE  CacheInv'
<1>1. CASE UNCHANGED Store!vars
  <2>1. \A k \in CacheKeys : Store!Live(k)' = Store!Live(k)
    BY <1>1, LiveStays DEF Store!vars
  <2>2. ASSUME NEW c \in Callers, NEW a \in storing[c], NEW e \in Store!Live(a.key)',
               e.value \notin Falsy
        PROVE  a.key \in storedSince[c]
    <3>1. a.key \in CacheKeys
      BY <2>2 DEF CacheInv, Store!Arguments
    <3> QED
      BY <2>1, <2>2, <3>1 DEF CacheInv
  <2> QED
    BY <1>1, <2>1, <2>2 DEF Store!vars, CacheInv
<1>2. CASE Store!Tick
  <2> DEFINE ks == {k \in CacheKeys : Store!Live(k) # {} /\ Store!Live(k)' = {}}
  <2>1. /\ millisecond \in 0 .. LastMillisecond /\ millisecond < LastMillisecond
        /\ millisecond' = millisecond + 1 /\ Store!Free(ks)
        /\ UNCHANGED <<backend, entries, storing, storedSince>>
    BY <1>2 DEF Store!Tick, CacheInv
  <2>2. ASSUME NEW k \in CacheKeys
        PROVE  Store!Live(k)' \subseteq Store!Live(k)
    <3> SUFFICES ASSUME NEW e \in entries[k], Store!Expired(e)
                 PROVE  Store!Expired(e)'
      BY <2>1 DEF Store!Live
    <3>1. e \in Store!Entries
      BY DEF CacheInv
    <3>2. e.ttl # Forever
      BY DEF Store!Expired
    <3>3. e.ttl \in Lifetimes \cup {Forever} /\ e.createdAt \in 0 .. LastMillisecond
      BY <3>1 DEF Store!Entries
    <3>4. Lifetimes \subseteq Nat \ {0} /\ LastMillisecond \in Nat
      BY DEF Store!ConstantsAssumption
    <3>5. e.ttl \in Lifetimes
      BY <3>2, <3>3
    <3>6. e.ttl \in Nat
      BY <3>4, <3>5
    <3>7. e.createdAt \in Nat
      BY <3>3, <3>4
    <3> QED
      BY <2>1, <3>2, <3>6, <3>7 DEF Store!Expired
  <2>3. /\ entries' \in [CacheKeys -> SUBSET Store!Entries] /\ ks \in SUBSET CacheKeys
        /\ millisecond' \in 0 .. LastMillisecond
        /\ \A k \in CacheKeys : entries'[k] \subseteq entries[k]
        /\ \A k \in CacheKeys \ ks : Store!Live(k) # {} => Store!Live(k)' # {}
    BY <2>1 DEF CacheInv, Store!ConstantsAssumption
  <2> HIDE DEF ks
  <2> QED
    BY <2>1, <2>2, <2>3, LessKept
<1>3. CASE Store!clear
  <2>1. /\ Store!Free(CacheKeys) /\ UNCHANGED <<backend, millisecond, storing, storedSince>>
        /\ entries' = [k \in CacheKeys |-> {}]
    BY <1>3 DEF Store!clear
  <2>2. \A k \in CacheKeys : Store!Live(k)' \subseteq Store!Live(k)
    BY <2>1 DEF Store!Live
  <2>3. /\ entries' \in [CacheKeys -> SUBSET Store!Entries]
        /\ \A k \in CacheKeys : entries'[k] \subseteq entries[k]
    BY <2>1
  <2>4. millisecond' \in 0 .. LastMillisecond
    BY <2>1 DEF CacheInv
  <2> QED
    BY <2>1, <2>2, <2>3, <2>4, LessKept
<1>4. ASSUME NEW k \in CacheKeys, Store!get(k)
      PROVE  CacheInv'
  <2>1. /\ entries' = [entries EXCEPT ![k] = Store!Live(k)]
        /\ UNCHANGED <<backend, millisecond, storing, storedSince, winners>>
    BY <1>4 DEF Store!get
  <2>2. /\ entries' \in [CacheKeys -> SUBSET Store!Entries]
        /\ \A l \in CacheKeys :
             entries'[l] \in {entries[l], Store!Live(l)} /\ entries'[l] \subseteq entries[l]
    BY <2>1 DEF CacheInv, Store!Live
  <2>3. \A l \in CacheKeys : Store!Live(l)' = Store!Live(l)
    BY <2>1, <2>2, LiveStays
  <2>4. Store!Free({}) /\ millisecond' \in 0 .. LastMillisecond
    BY <2>1 DEF Store!Free, CacheInv
  <2> QED
    BY <2>1, <2>2, <2>3, <2>4, LessKept
<1>5. ASSUME NEW k \in CacheKeys, Store!invalidate(k)
      PROVE  CacheInv'
  <2>1. /\ entries' = [entries EXCEPT ![k] = {}]
        /\ UNCHANGED <<backend, millisecond, storing, storedSince>>
        /\ Store!Free({k})
    BY <1>5 DEF Store!invalidate
  <2>2. /\ entries' \in [CacheKeys -> SUBSET Store!Entries]
        /\ \A l \in CacheKeys : entries'[l] \subseteq entries[l]
        /\ entries'[k] = {} /\ \A l \in CacheKeys \ {k} : entries'[l] = entries[l]
    BY <2>1 DEF CacheInv
  <2>3. \A l \in CacheKeys \ {k} : Store!Live(l)' = Store!Live(l)
    BY <2>1, <2>2, LiveStays
  <2>4. Store!Live(k)' \subseteq Store!Live(k)
    BY <2>2 DEF Store!Live
  <2>5. millisecond' \in 0 .. LastMillisecond /\ {k} \in SUBSET CacheKeys
    BY <2>1 DEF CacheInv
  <2> QED
    BY <2>1, <2>2, <2>3, <2>4, <2>5, LessKept
<1>6. ASSUME NEW a \in Store!Arguments, Store!set(a)
      PROVE  CacheInv'
  <2>1. /\ entries' = [entries EXCEPT ![a.key] = {Store!Entry(a)}] /\ Store!Stores(a.key)
        /\ Store!Free({a.key}) /\ UNCHANGED <<backend, millisecond, storing>>
        /\ a.key \in CacheKeys
    BY <1>6 DEF Store!set, Store!Arguments
  <2>2. /\ winners' \in [CacheKeys -> SUBSET Callers] /\ winners'[a.key] = {}
        /\ \A k \in CacheKeys \ {a.key} : winners'[k] = winners[k]
    BY <2>1 DEF Store!Free, CacheInv
  <2>3. /\ storing' \in [Callers -> SUBSET Store!Arguments]
        /\ \A c \in Callers : storing'[c] \subseteq storing[c]
    BY <2>1 DEF CacheInv
  <2> QED
    BY <2>1, <2>2, <2>3, StoreKeeps
<1>7. ASSUME NEW a \in Store!Arguments, NEW c \in Callers, Store!SetNxStored(c, a)
      PROVE  CacheInv'
  <2>1. /\ entries' = [entries EXCEPT ![a.key] = {Store!Entry(a)}] /\ Store!Stores(a.key)
        /\ UNCHANGED <<backend, millisecond>>
        /\ storing[c] = {a} /\ storing' = [storing EXCEPT ![c] = {}]
        /\ winners' = [winners EXCEPT ![a.key] = @ \cup {c}] /\ a.key \in CacheKeys
    BY <1>7 DEF Store!SetNxStored, Store!Store, Store!Arguments
  <2>2. /\ winners' \in [CacheKeys -> SUBSET Callers]
        /\ \A k \in CacheKeys \ {a.key} : winners'[k] = winners[k]
        /\ storing' \in [Callers -> SUBSET Store!Arguments]
        /\ \A d \in Callers : storing'[d] \subseteq storing[d]
    BY <2>1 DEF CacheInv
  <2>3. backend # "redis"
    BY <2>1 DEF CacheInv
  <2> QED
    BY <2>1, <2>2, <2>3, StoreKeeps
<1>8. ASSUME NEW a \in Store!Arguments, NEW c \in Callers, Store!SetNxAtOnce(c, a)
      PROVE  CacheInv'
  <2>1. /\ entries' = [entries EXCEPT ![a.key] = {Store!Entry(a)}] /\ Store!Stores(a.key)
        /\ UNCHANGED <<backend, millisecond>>
        /\ storing' = storing /\ a.key \in CacheKeys /\ backend = "redis" /\ ~Store!Taken(a.key)
        /\ winners' = [winners EXCEPT ![a.key] = @ \cup {c}]
    BY <1>8 DEF Store!SetNxAtOnce, Store!Store, Store!Arguments
  <2>2. winners[a.key] = {}
    BY <2>1 DEF Store!Taken, CacheInv
  <2>3. /\ winners' \in [CacheKeys -> SUBSET Callers] /\ winners'[a.key] = {c}
        /\ \A k \in CacheKeys \ {a.key} : winners'[k] = winners[k]
        /\ storing' \in [Callers -> SUBSET Store!Arguments]
        /\ \A d \in Callers : storing'[d] \subseteq storing[d]
    BY <2>1, <2>2 DEF CacheInv
  <2> QED
    BY <2>1, <2>3, StoreKeeps
<1> QED
  BY <1>1, <1>2, <1>3, <1>4, <1>5, <1>6, <1>7, <1>8, LookKeeps DEF Store!Next

\* In redis setNx is a lock that one caller at most holds; in memory it replaces a
\* value only if that was stored after its look.
THEOREM SetNxExclusive ==
  ASSUME Store!ConstantsAssumption
  PROVE  Store!Spec => SetNxIsExclusive
<1>1. Store!Init => CacheInv
  BY DEF Store!Init, CacheInv, Store!ConstantsAssumption, Store!Entries,
         Store!Live
<1>2. CacheInv /\ [Store!Next]_(Store!vars) => CacheInv'
  BY CacheStep
<1>3. CacheInv => (backend = "redis" => Store!TypeOK /\ Store!OneHolder)
  <2>1. CacheInv => Store!TypeOK
    BY DEF CacheInv, Store!TypeOK
  <2>2. CacheInv /\ backend = "redis" => Store!OneHolder
    BY DEF CacheInv, Store!OneHolder
  <2> QED
    BY <2>1, <2>2
<1> DEFINE A == \A c \in Callers, a \in Store!Arguments :
                  /\ storing[c] = {a}
                  /\ storing'[c] = {}
                  /\ \E e \in Store!Live(a.key) : e.value \notin Falsy
                  => a.key \in storedSince[c]
<1>4. CacheInv /\ [Store!Next]_(Store!vars) => [A]_(Store!vars)
  BY DEF CacheInv
<1> QED
  BY <1>1, <1>2, <1>3, <1>4, PTL
  DEF Store!Spec, SetNxIsExclusive, Store!SetNxIsExclusive, Store!SetNxReplacesOnlyLaterValues

=============================================================================
