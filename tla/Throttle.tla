------------------------------ MODULE Throttle ------------------------------
(***************************************************************************)
(* What a throttling queue promises its callers, without saying how: a     *)
(* request is turned away only when Capacity requests of its key wait, and *)
(* the others are answered oldest first, at most Rate of a key at a time   *)
(* and never fewer than may pass.                                          *)
(***************************************************************************)
EXTENDS Integers, FiniteSets

CONSTANTS
  Keys,          \* whom the requests are counted for
  Capacity,      \* how many requests of a key may wait
  Rate,          \* how many requests of a key are answered at a time
  MaxRequests    \* bound: how many requests are ever made

Requests == 1 .. MaxRequests

VARIABLES
  key,       \* key[r]: whom the r-th request counts for, its caller's choice
  made,      \* the requests 1 .. made were made
  state,     \* state[r]: what became of it
  open       \* waiting requests are answered only as long as this holds

vars == <<key, made, state, open>>

Waiting(k) == {r \in Requests : state[r] = "waiting" /\ key[r] = k}

Init ==
  /\ key \in [Requests -> Keys]
  /\ made = 0
  /\ state = [r \in Requests |-> "none"]
  /\ open = TRUE

Request ==
  /\ made < MaxRequests
  /\ made' = made + 1
  /\ state' = [state EXCEPT ![made + 1] =
                 IF Cardinality(Waiting(key[made + 1])) < Capacity
                 THEN "waiting" ELSE "rejected"]
  /\ UNCHANGED <<key, open>>

\* Of the waiting requests of a key the oldest ones pass, as many as may.
Passes(batch, waiting) ==
  /\ batch \subseteq waiting
  /\ Cardinality(batch) <= Rate
  /\ Cardinality(batch) < Rate => batch = waiting
  /\ \A r \in batch, s \in waiting : s < r => s \in batch

Leak ==
  /\ open
  /\ \E passing \in SUBSET {r \in Requests : state[r] = "waiting"} :
       /\ \A k \in Keys : Passes({r \in passing : key[r] = k}, Waiting(k))
       /\ state' = [r \in Requests |-> IF r \in passing THEN "passed" ELSE state[r]]
  /\ UNCHANGED <<key, made, open>>

\* Nobody who waits is ever answered any more.
Close ==
  /\ open' = FALSE
  /\ state' = [r \in Requests |-> IF state[r] = "waiting" THEN "abandoned" ELSE state[r]]
  /\ UNCHANGED <<key, made>>

Next == Request \/ Leak \/ Close

Spec == Init /\ [][Next]_vars

=============================================================================
