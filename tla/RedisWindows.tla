---------------------------- MODULE RedisWindows ----------------------------
(***************************************************************************)
(* The two algorithms that keep windows in redis, the sliding window and   *)
(* the fixed window.  They share no state: a behaviour is of one           *)
(* algorithm, the variables of the other keep their initial values.        *)
(***************************************************************************)
EXTENDS Integers, TLC

CONSTANTS
  Slots, Scores, Length, Limit, Second, MaxTime, MaxCalls, MaxErrors,
  FixedLength, FixedMaxTime, MaxLapses

VARIABLES
  algorithm,
  now, members, deadline, call, promised, made, passed, lost, stranded, errors,
  time, counters, expiry, pending, accepted, lapses

slidingVars ==
  <<now, members, deadline, call, promised, made, passed, lost, stranded, errors>>
fixedVars == <<time, counters, expiry, pending, accepted, lapses>>

Sliding == INSTANCE SlidingWindow WITH
  MaxFailures <- MaxErrors, told <- promised, admitted <- passed, failures <- errors

Fixed == INSTANCE FixedWindow WITH
  Length <- FixedLength, MaxTime <- FixedMaxTime, MaxFailures <- MaxLapses,
  now <- time, counter <- counters, deadline <- expiry, call <- pending,
  admitted <- accepted, failures <- lapses

ASSUME WindowsAssumption == Sliding!ConstantsAssumption /\ Fixed!ConstantsAssumption

\* A short and a long window of each.
TwoOrThree == <<2, 3>>
OneOrThree == <<1, 3>>
OneOrTwo == <<1, 2>>

WindowInit == Sliding!Init /\ Fixed!Init /\ algorithm \in {"fixed", "sliding"}

WindowNext ==
  /\ algorithm' = algorithm
  /\ \/ algorithm = "sliding" /\ Sliding!Next /\ UNCHANGED fixedVars
     \/ algorithm = "fixed" /\ Fixed!Next /\ UNCHANGED slidingVars

WindowSpec == WindowInit /\ [][WindowNext]_<<algorithm, slidingVars, fixedVars>>

\* Nothing tells calls apart.
Symmetry == Permutations(Slots)

-----------------------------------------------------------------------------

\* Fixed window: no interleaving of requests accepts more than a limit; a counter
\* holds what was accepted and what is under way, so that quota() never promises
\* too much; and none that is still read stays without a time to live.
CountersAreAccounted == Fixed!CountersAreAccounted

\* Sliding window: what accepted requests left in a set that did not expire under
\* them stays within the limit, and only where a request failed a set stays without
\* a time to live.
SetsAreAccounted == Sliding!SetsAreAccounted

\* Sliding window: no set expires under a member that counts, unless its request
\* is about to renew the time to live, or failed before it did.
OnlyNewMembersAreLost == Sliding!OnlyNewMembersAreLost

\* Sliding window: quota() tells nobody that there is more left than there is.
QuotaIsNotOverstated == Sliding!QuotaIsNotOverstated

\* Sliding window, what its test says: no more is accepted than the limit.
RequestsStayWithinLimit == Sliding!RequestsStayWithinLimit

\* Sliding window, what its test says: a request is only refused when it does not
\* fit into what accepted requests leave of a window.
AcceptsWithinLimit == Sliding!AcceptsWithinLimit

=============================================================================
