---------------------------- MODULE TokenBucket ----------------------------
(***************************************************************************)
(* The token bucket: one redis counter per user and token says what was    *)
(* consumed.  request() adds its score to it and, in a second command,     *)
(* takes it off again if that was too much; an interval takes fillRate off *)
(* every counter, but not below zero.  Redis does one command (or script)  *)
(* after the other, for every process of the application and every         *)
(* interval: what comes between the two commands of a request is anybody's *)
(* choice.                                                                 *)
(*                                                                         *)
(* The counters of different keys have nothing to do with each other: this *)
(* is one of them.                                                         *)
(***************************************************************************)
EXTENDS Integers, FiniteSetsExt

CONSTANTS
  Slots,        \* calls of request() that may be under way at once
  Scores,       \* what a request may cost
  capacity,
  fillRate,
  MaxFailures   \* bound: how often redis fails

ConstantsAssumption ==
  /\ IsFiniteSet(Slots)
  /\ IsFiniteSet(Scores) /\ Scores # {}
  /\ Scores \subseteq Nat \ {0}
  /\ capacity \in Nat
  /\ fillRate \in Nat \ {0}
  /\ MaxFailures \in Nat

VARIABLES
  counter,    \* the redis counter; one that does not exist counts as zero
  undoing,    \* undoing[p]: the score p still has to take off, zero if none
  admitted,   \* history: what a bucket that counts the accepted requests only
              \* would hold
  failures    \* history: how many scores were never taken off

vars == <<counter, undoing, admitted, failures>>

\* What requests that are refused at once can add to the counter.
Most == Cardinality(Slots) * Max(Scores)

TypeOK ==
  /\ counter \in -Most .. capacity + Most + MaxFailures * Max(Scores)
  /\ undoing \in [Slots -> Scores \cup {0}]
  /\ admitted \in Nat
  /\ failures \in 0 .. MaxFailures

Init ==
  /\ counter = 0
  /\ undoing = [p \in Slots |-> 0]
  /\ admitted = 0
  /\ failures = 0

\* Mutant: the counter is compared before the score is added to it.
Accepted_Before(score) == counter <= capacity

\* incrBy answers what the counter holds after it.
Accepted(score) == counter + score <= capacity

request(p, score) ==
  /\ undoing[p] = 0
  /\ counter' = counter + score
  /\ undoing' = [undoing EXCEPT ![p] = IF Accepted(score) THEN 0 ELSE score]
  /\ admitted' = IF Accepted(score) THEN admitted + score ELSE admitted
  /\ UNCHANGED failures

\* Mutant: nothing is taken off.
Reject_Keeps(p) ==
  /\ undoing[p] # 0
  /\ undoing' = [undoing EXCEPT ![p] = 0]
  /\ UNCHANGED <<counter, admitted, failures>>

\* decrBy: the refused request leaves the counter.
Reject(p) ==
  /\ undoing[p] # 0
  /\ counter' = counter - undoing[p]
  /\ undoing' = [undoing EXCEPT ![p] = 0]
  /\ UNCHANGED <<admitted, failures>>

\* decrBy fails, and request() with it; nobody tries again.
RejectFails(p) ==
  /\ undoing[p] # 0
  /\ failures < MaxFailures
  /\ undoing' = [undoing EXCEPT ![p] = 0]
  /\ failures' = failures + 1
  /\ UNCHANGED <<counter, admitted>>

\* Mutant: a counter that would become negative is left alone.
Refilled_Stuck(n) == IF n < fillRate THEN n ELSE n - fillRate

Refilled(n) == IF n < fillRate THEN 0 ELSE n - fillRate

\* The interval fires: the script that runs is atomic.
resetRates ==
  /\ counter' = Refilled(counter)
  /\ admitted' = IF admitted < fillRate THEN 0 ELSE admitted - fillRate
  /\ UNCHANGED <<undoing, failures>>

calculateRemaining(consumed) == capacity - consumed

\* What quota() answers; it reads the counter and changes nothing.
quota == calculateRemaining(counter)

Next ==
  \/ \E p \in Slots :
       \/ \E score \in Scores : request(p, score)
       \/ Reject(p)
       \/ RejectFails(p)
  \/ resetRates

Spec == Init /\ [][Next]_vars

\* Redis answers every command in the end, and the interval keeps firing.
Fairness ==
  /\ \A p \in Slots : WF_vars(Reject(p) \/ RejectFails(p))
  /\ WF_vars(resetRates)

-----------------------------------------------------------------------------
(* Properties                                                              *)

InFlight == MapThenSumSet(LAMBDA p : undoing[p], Slots)

\* The interval can refill what refused requests are about to give back, once
\* more; but however requests, refusals and intervals come together, not more
\* than that is ever accepted beyond the capacity.
OverAdmissionIsBounded ==
  admitted <= capacity + Most

\* Unless redis failed, quota() tells no less than what accepted requests have
\* left, but for refusals that are under way: refused requests cost nobody quota.
NoTokenIsLost == failures = 0 => quota >= capacity - admitted - InFlight

\* Interleaved requests, refusals and refills admit too much by a bound, and
\* refused requests cost nobody any quota unless redis fails.
TokensAreAccounted == TypeOK /\ OverAdmissionIsBounded /\ NoTokenIsLost

\* Once nobody makes requests any more the bucket is full again and stays so,
\* whatever redis failed to take off and whatever was taken off twice.
QuietBucketFills ==
  <>[][\A p \in Slots, score \in Scores : ~request(p, score)]_vars => <>[](counter = 0)

=============================================================================
