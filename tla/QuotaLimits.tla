---------------------------- MODULE QuotaLimits ----------------------------
(***************************************************************************)
(* The limits of the users' quotas, read and changed through the rate      *)
(* limiting managers.  Each manager has a repository of its own; all share *)
(* the cache in front of it, in which limits live for a day.  Reads and    *)
(* updates interleave between the cache and the repository.                *)
(***************************************************************************)
EXTENDS Integers

CONSTANTS
  Users,
  Limits,      \* limits, by the smallest of the four numbers they consist of
  Managers,    \* the instances that managers.ts may hand out
  Calls,       \* concurrent calls of the managers
  Day,         \* the ticks of the clock in a day
  MaxUpdates,  \* bound: how often limits are changed
  None

\* All four numbers of the limits are greater than zero.
Accepted(l) == l > 0

AcceptedLimits == {l \in Limits : Accepted(l)}

ConstantsAssumption ==
  /\ Limits \subseteq Int
  /\ None \notin Limits \cup [limits : Limits, age : Nat]
  /\ Day \in Nat \ {0}
  /\ MaxUpdates \in Nat

VARIABLES
  managers,  \* the ones it hands out
  stored,    \* stored[m][u]: what m's repository has, None when nothing
  cached,    \* cached[u]: the cached limits and their age, None when nothing
  calls,     \* calls[c]: what a call awaits, {} when it is not under way
  updates,   \* how many updates were made
  latest,    \* history: the limits u was given last
  since,     \* history: the ticks since an update of u was last cached
  mixed      \* history: the users for whom limits were cached that had been
             \* overtaken by an update, until others are cached

vars == <<managers, stored, cached, calls, updates, latest, since, mixed>>

Ages == 0 .. Day + 1

\* A read that found nothing cached, or is about to cache what the repository
\* had; an update that is about to cache what it stored.  overtaken is history:
\* another update of the user was stored meanwhile, or, for a read, was under way
\* when it began.
CallStates ==
  [at : {"missed", "read", "stored"}, manager : Managers, user : Users,
   limits : AcceptedLimits \cup {None}, overtaken : BOOLEAN]

TypeOK ==
  /\ managers \subseteq Managers
  /\ stored \in [Managers -> [Users -> AcceptedLimits \cup {None}]]
  /\ cached \in [Users -> [limits : AcceptedLimits, age : Ages] \cup {None}]
  /\ calls \in [Calls -> SUBSET CallStates]
  /\ \A c \in Calls : \A s, t \in calls[c] : s = t
  /\ updates \in 0 .. MaxUpdates
  /\ latest \in [Users -> AcceptedLimits \cup {None}]
  /\ since \in [Users -> Ages]
  /\ mixed \subseteq Users

Init ==
  /\ managers \in SUBSET Managers
  /\ stored = [m \in Managers |-> [u \in Users |-> None]]
  /\ cached = [u \in Users |-> None]
  /\ calls = [c \in Calls |-> {}]
  /\ updates = 0
  /\ latest = [u \in Users |-> None]
  /\ since = [u \in Users |-> Day + 1]
  /\ mixed = {}

-----------------------------------------------------------------------------
(* Reading: getQuotaLimits, and first thing in throttle and getQuotaSummary *)

\* The entry is good up to and including the last tick of its ttl.
Live(u) == cached[u] # None /\ cached[u].age <= Day

Await(c, s) == calls' = [calls EXCEPT ![c] = {s}]
Done(c) == calls' = [calls EXCEPT ![c] = {}]

BeingUpdated(u) ==
  \E c \in Calls : \E s \in calls[c] : s.at = "stored" /\ s.user = u

\* A read that finds limits in the cache changes nothing.
GetMiss(c, m, u) ==
  /\ calls[c] = {}
  /\ ~Live(u)
  /\ cached' = [cached EXCEPT ![u] = None]
  /\ Await(c, [at |-> "missed", manager |-> m, user |-> u, limits |-> None,
               overtaken |-> BeingUpdated(u)])
  /\ UNCHANGED <<stored, updates, latest, since, mixed, managers>>

\* The repository has nothing for the user: the default limits apply, and are
\* not cached.
ReadNothing(c, s) ==
  /\ calls[c] = {s}
  /\ s.at = "missed"
  /\ stored[s.manager][s.user] = None
  /\ Done(c)
  /\ UNCHANGED <<stored, cached, updates, latest, since, mixed, managers>>

ReadLimits(c, s) ==
  /\ calls[c] = {s}
  /\ s.at = "missed"
  /\ stored[s.manager][s.user] # None
  /\ Await(c, [s EXCEPT !.at = "read", !.limits = stored[s.manager][s.user]])
  /\ UNCHANGED <<stored, cached, updates, latest, since, mixed, managers>>

\* What a call puts into the cache is out of date if it was overtaken.
PutInCache(s) ==
  /\ cached' = [cached EXCEPT ![s.user] = [limits |-> s.limits, age |-> 0]]
  /\ mixed' = IF s.overtaken THEN mixed \cup {s.user} ELSE mixed \ {s.user}

Fill(c, s) ==
  /\ calls[c] = {s}
  /\ s.at = "read"
  /\ PutInCache(s)
  /\ Done(c)
  /\ UNCHANGED <<stored, updates, latest, since, managers>>

-----------------------------------------------------------------------------
(* Changing: changeQuotaLimits                                             *)

Overtaken(u) ==
  [d \in Calls |-> {[s EXCEPT !.overtaken = @ \/ s.user = u] : s \in calls[d]}]

\* The repository first; limits that are not accepted change nothing.
update(c, m, u, l) ==
  /\ calls[c] = {}
  /\ Accepted(l)
  /\ updates < MaxUpdates
  /\ updates' = updates + 1
  /\ stored' = [stored EXCEPT ![m][u] = l]
  /\ latest' = [latest EXCEPT ![u] = l]
  /\ calls' = [Overtaken(u) EXCEPT ![c] =
                 {[at |-> "stored", manager |-> m, user |-> u, limits |-> l,
                   overtaken |-> FALSE]}]
  /\ UNCHANGED <<cached, since, mixed, managers>>

\* Mutant: the cache is left to the reads.
Updated_NotCached(c, s) ==
  /\ calls[c] = {s}
  /\ s.at = "stored"
  /\ since' = [since EXCEPT ![s.user] = 0]
  /\ Done(c)
  /\ UNCHANGED <<stored, cached, updates, latest, mixed, managers>>

\* Then the cache.
Updated(c, s) ==
  /\ calls[c] = {s}
  /\ s.at = "stored"
  /\ PutInCache(s)
  /\ since' = [since EXCEPT ![s.user] = 0]
  /\ Done(c)
  /\ UNCHANGED <<stored, updates, latest, managers>>

\* Mutant: limits are cached without a ttl.
Tick_NoTtl ==
  /\ \E u \in Users : since[u] <= Day
  /\ since' = [u \in Users |-> IF since[u] <= Day THEN since[u] + 1 ELSE since[u]]
  /\ UNCHANGED <<stored, cached, calls, updates, latest, mixed, managers>>

\* A tick of the clock, as long as it makes a difference.
Tick ==
  /\ \E u \in Users : Live(u) \/ since[u] <= Day
  /\ cached' = [u \in Users |-> IF Live(u) THEN [cached[u] EXCEPT !.age = @ + 1]
                                           ELSE cached[u]]
  /\ since' = [u \in Users |-> IF since[u] <= Day THEN since[u] + 1 ELSE since[u]]
  /\ UNCHANGED <<stored, calls, updates, latest, mixed, managers>>

Next ==
  \/ Tick
  \/ \E c \in Calls :
       \/ \E m \in managers, u \in Users :
            GetMiss(c, m, u) \/ \E l \in Limits : update(c, m, u, l)
       \/ \E s \in calls[c] :
            ReadNothing(c, s) \/ ReadLimits(c, s) \/ Fill(c, s) \/ Updated(c, s)

Spec == Init /\ [][Next]_vars

\* Time passes, and the cache and the repositories answer.
Fairness ==
  /\ WF_vars(Tick)
  /\ \A c \in Calls :
       WF_vars(\E s \in calls[c] :
                 ReadNothing(c, s) \/ ReadLimits(c, s) \/ Fill(c, s) \/ Updated(c, s))

-----------------------------------------------------------------------------
(* Properties                                                              *)

OneManager == \A m, n \in managers : m = n

\* With one manager, what is cached for a user is what the user was given last,
\* unless an update is between the repository and the cache or the limits were
\* cached by a call that an update had overtaken.
StaleOnlyIfOvertaken ==
  OneManager =>
    \A u \in Users :
      Live(u) /\ ~BeingUpdated(u) /\ u \notin mixed => cached[u].limits = latest[u]

\* Whichever manager reads, and although the managers do not share their
\* repositories, new limits apply for a day from the moment they were cached,
\* unless an overtaken call cached older ones.
ChangeHoldsForADay ==
  \A u \in Users :
    since[u] <= Day /\ ~BeingUpdated(u) /\ u \notin mixed =>
      Live(u) /\ cached[u].limits = latest[u]

\* With one manager, only reads that an update overtook leave old limits; with any
\* number of managers new ones apply for a day.
LimitsAreFresh == TypeOK /\ StaleOnlyIfOvertaken /\ ChangeHoldsForADay

\* With one manager even limits cached by an overtaken call are outlived: the
\* cache ends up with nothing for a user, or with what the user was given last.
CacheSettles ==
  <>[](\A u \in Users : Live(u) => cached[u].limits = latest[u])

=============================================================================
