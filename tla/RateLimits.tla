----------------------------- MODULE RateLimits -----------------------------
(***************************************************************************)
(* Two algorithms of the rate limiting component, the leaky bucket and the *)
(* token bucket (Token), the limits they work with (Quota), and the cache  *)
(* those are kept in (Store).  They share no state here; a behaviour is of *)
(* one part:                                                               *)
(*   leaky   the queues of the keys                                        *)
(*   token   the redis counter and requests at once                        *)
(*   quota   the limits of users, with one manager or with all of them     *)
(*   cache   callers of the cache, in memory or on redis                   *)
(***************************************************************************)
EXTENDS LeakyBucket

CONSTANTS
  TokenSlots, TokenScores, tokenCapacity, fillRate, MaxFailures,
  Users, Limits, Managers, Calls, Day, MaxUpdates, None,
  CacheKeys, Values, Falsy, Lifetimes, Forever, Callers, LastMillisecond

VARIABLES
  part,
  counter, undoing, admitted, failures,
  managers, stored, cached, calls, updates, latest, since, mixed,
  backend, millisecond, entries, storing, storedSince, winners

tokenVars == <<counter, undoing, admitted, failures>>
quotaVars == <<managers, stored, cached, calls, updates, latest, since, mixed>>
cacheVars == <<backend, millisecond, entries, storing, storedSince, winners>>

Token == INSTANCE TokenBucket WITH
  Slots <- TokenSlots, Scores <- TokenScores, capacity <- tokenCapacity

Quota == INSTANCE QuotaLimits

Store == INSTANCE Cache WITH
  Keys <- CacheKeys, MaxTime <- LastMillisecond,
  now <- millisecond, calls <- storing, since <- storedSince

ASSUME PartsAssumption ==
  /\ Token!ConstantsAssumption /\ Quota!ConstantsAssumption /\ Store!ConstantsAssumption

-----------------------------------------------------------------------------

OneOf(S) == CHOOSE x \in S : TRUE

\* The keys of the requests only differ where there are queues.
PartInit ==
  /\ part \in {"leaky", "token", "quota", "cache"}
  /\ Init /\ Token!Init /\ Quota!Init /\ Store!Init
  /\ part # "leaky" => \A r \in Requests : key[r] = key[1] /\ key[r] \notin Colon
  /\ managers = {OneOf(Managers)} \/ (part = "quota" /\ managers = Managers)
  /\ part # "cache" => backend = "redis"

\* In memory one key and all callers but one are enough; on redis no value is false.
Stored ==
  IF backend = "in-memory"
  THEN /\ \A k \in CacheKeys \ {OneOf(CacheKeys)} : entries'[k] = {}
       /\ storing'[OneOf(Callers)] = {}
  ELSE \A k \in CacheKeys : \A e \in entries'[k] : e.value \notin Falsy

PartNext ==
  /\ part' = part
  /\ \/ part = "leaky" /\ Next /\ UNCHANGED <<tokenVars, quotaVars, cacheVars>>
     \/ part = "token" /\ Token!Next /\ UNCHANGED <<vars, quotaVars, cacheVars>>
     \/ part = "quota" /\ Quota!Next /\ UNCHANGED <<vars, tokenVars, cacheVars>>
     \/ part = "cache" /\ Store!Next /\ Stored /\ UNCHANGED <<vars, tokenVars, quotaVars>>

\* What is fair is not enabled in behaviours of another part: intervals find
\* nothing to change, and no call is under way.
PartSpec ==
  /\ PartInit /\ [][PartNext]_<<part, vars, tokenVars, quotaVars, cacheVars>>
  /\ Fairness /\ Token!Fairness /\ Quota!Fairness

-----------------------------------------------------------------------------

\* Token bucket: interleaved requests, refusals and refills admit too much by a
\* bound, and refused requests cost nobody any quota unless redis fails.
TokensAreAccounted == Token!TokensAreAccounted

\* Limits: with one manager, only reads that an update overtook leave old ones;
\* with any number of managers new ones apply for a day.
LimitsAreFresh == Quota!LimitsAreFresh

\* Leaky bucket: the quota that a request is told is there, and unless stopped
\* every promise is kept.  Token bucket: once requests stop it fills up,
\* whatever was lost before.  Limits: with one manager, old ones do not stay.
PromisesAreKept ==
  /\ ToldQuotaIsReal
  /\ EveryPromiseIsResolved
  /\ Token!QuietBucketFills
  /\ ~Quota!OneManager \/ Quota!CacheSettles

\* Cache: on redis setNx is a lock; in memory it replaces no value that was there
\* when it looked.
SetNxIsExclusive == Store!SetNxIsExclusive

=============================================================================
