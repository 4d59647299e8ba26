---------------------------- MODULE LeakyBucket ----------------------------
(***************************************************************************)
(* The leaky bucket that throttles requests: request() puts the caller in  *)
(* a queue per user and token and lets it wait on a promise, an interval   *)
(* resolves the first leaksPerSecond promises of every queue each second.  *)
(*                                                                         *)
(* request() has no await before it enqueues, and the interval's handler   *)
(* has none at all: each is one step.                                      *)
(***************************************************************************)
EXTENDS Integers, Sequences, FiniteSets

CONSTANTS
  Keys,             \* a key per user and token
  Colon,            \* the keys whose user or token has a ":" in it
  capacity,
  leaksPerSecond,
  MaxRequests       \* bound: how many requests are ever made

\* The constructor throws for the numbers it cannot work with.
ASSUME ConstantsAssumption ==
  /\ Colon \subseteq Keys
  /\ capacity \in Nat \ {0}
  /\ leaksPerSecond \in Nat \ {0}
  /\ MaxRequests \in Nat

Requests == 1 .. MaxRequests

VARIABLES
  key,         \* key[r]: the key of the r-th request, its caller's choice
  requested,   \* the requests 1 .. requested were made
  map,         \* map[k]: the queue of k
  running,     \* the interval has not been cleared
  result,      \* result[r]: what became of its promise
  told,        \* told[r]: the remaining quota it was told when it passed
  seconds      \* history: seconds[r]: how often the interval fired since r came,
               \* up to capacity

vars == <<key, requested, map, running, result, told, seconds>>

TypeOK ==
  /\ key \in [Requests -> Keys]
  /\ requested \in 0 .. MaxRequests
  /\ map \in [Keys -> Seq(Requests)]
  /\ \A k \in Keys : Len(map[k]) <= capacity
  /\ running \in BOOLEAN
  /\ result \in [Requests -> {"none", "pending", "rejected", "passed"}]
  /\ told \in [Requests -> Int]
  /\ seconds \in [Requests -> Nat]

Init ==
  /\ key \in [Requests -> Keys]
  /\ requested = 0
  /\ map = [k \in Keys |-> <<>>]
  /\ running = TRUE
  /\ result = [r \in Requests |-> "none"]
  /\ told = [r \in Requests |-> 0]
  /\ seconds = [r \in Requests |-> 0]

Full(k) == Len(map[k]) >= capacity

\* The promise of an accepted request stays pending until the interval
\* resolves it; the one of a request too many fails at once.
request(k) ==
  /\ requested < MaxRequests
  /\ key[requested + 1] = k
  /\ requested' = requested + 1
  /\ map' = IF Full(k) THEN map ELSE [map EXCEPT ![k] = Append(@, requested + 1)]
  /\ result' = [result EXCEPT ![requested + 1] = IF Full(k) THEN "rejected" ELSE "pending"]
  /\ UNCHANGED <<key, running, told, seconds>>

\* Mutant: the queue is not subtracted.
calculateRemaining_Capacity(k) == capacity

\* What the queue leaves of the quota.  The handler takes the key apart and
\* puts it together again, which is the key of no queue if a colon was in it.
calculateRemaining(k) == IF k \in Colon THEN capacity ELSE capacity - Len(map[k])

\* Mutant: the loop stops one too early.
passedRequests_OneLess(k) ==
  IF Len(map[k]) < leaksPerSecond THEN Len(map[k]) ELSE leaksPerSecond - 1

\* Mutant: the loop stops one too late.
passedRequests_OneMore(k) ==
  IF Len(map[k]) <= leaksPerSecond THEN Len(map[k]) ELSE leaksPerSecond + 1

\* Mutant: a queue shorter than what may pass has to wait.
passedRequests_FullBatches(k) == IF Len(map[k]) < leaksPerSecond THEN 0 ELSE leaksPerSecond

\* How many requests of k pass when the interval fires.
passedRequests(k) ==
  IF Len(map[k]) < leaksPerSecond THEN Len(map[k]) ELSE leaksPerSecond

\* r is the i-th request of its key to pass.
Passes(r, i) == i <= passedRequests(key[r]) /\ map[key[r]][i] = r

\* The interval fires: one pass over all queues, which answers and removes the
\* first requests of each.
handler ==
  /\ running
  /\ map' = [k \in Keys |-> SubSeq(map[k], passedRequests(k) + 1, Len(map[k]))]
  /\ result' = [r \in Requests |->
                  IF \E i \in DOMAIN map[key[r]] : Passes(r, i) THEN "passed" ELSE result[r]]
  /\ told' = [r \in Requests |->
                IF \E i \in DOMAIN map[key[r]] : Passes(r, i)
                THEN calculateRemaining(key[r])
                       + CHOOSE i \in DOMAIN map[key[r]] : Passes(r, i)
                ELSE told[r]]
  /\ seconds' = [r \in Requests |-> IF result[r] = "pending" /\ seconds[r] < capacity
                                    THEN seconds[r] + 1 ELSE seconds[r]]
  /\ UNCHANGED <<key, requested, running>>

\* The promises of the requests in the queues are forgotten, never settled.
stop ==
  /\ running' = FALSE
  /\ map' = [k \in Keys |-> <<>>]
  /\ UNCHANGED <<key, requested, result, told, seconds>>

Next == (\E k \in Keys : request(k)) \/ handler \/ stop

Spec == Init /\ [][Next]_vars

\* The interval fires every second until it is cleared.
Fairness == WF_vars(handler)

-----------------------------------------------------------------------------
(* Properties                                                              *)

\* Whoever waits for n seconds has moved up by n * leaksPerSecond places since,
\* from a place within the capacity: nobody waits for more than
\* capacity / leaksPerSecond seconds, however many requests come meanwhile.
WaitIsBounded ==
  \A k \in Keys : \A i \in DOMAIN map[k] :
    i + leaksPerSecond * seconds[map[k][i]] <= capacity

\* The quota a request is told when it passes is not more than what the queue it
\* leaves behind leaves of it, and says that something is left.
ToldQuotaIsReal ==
  [][\A r \in Requests :
       result'[r] = "passed" /\ result[r] # "passed" /\ key[r] \notin Colon
         => told'[r] \in 1 .. capacity - Len(map'[key[r]])]_vars

\* Every accepted request passes, unless the algorithm is stopped.
EveryPromiseIsResolved ==
  \A r \in Requests : result[r] = "pending" ~> result[r] = "passed" \/ ~running

\* The queues implement the promise that Throttle makes.
Queued(r) == \E i \in DOMAIN map[key[r]] : map[key[r]][i] = r

State(r) == IF result[r] # "pending" THEN result[r]
            ELSE IF Queued(r) THEN "waiting" ELSE "abandoned"

Abstract == INSTANCE Throttle WITH
  Capacity <- capacity, Rate <- leaksPerSecond, made <- requested,
  state <- [r \in Requests |-> State(r)], open <- running

\* Callers see a FIFO that turns away only what does not fit and lets pass as
\* many as it may: the arrays that are sliced behave as the sets of Throttle.
ImplementsThrottle == Abstract!Spec

=============================================================================
