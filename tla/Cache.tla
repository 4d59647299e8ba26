------------------------------- MODULE Cache -------------------------------
(***************************************************************************)
(* The cache, over a Map of the process or over redis.  In redis setNx is  *)
(* one command; in memory it awaits its own get() before it stores, so     *)
(* that callers interleave between the look and the store.                 *)
(***************************************************************************)
EXTENDS Integers

CONSTANTS
  Keys,       \* cache keys
  Values,     \* what is stored
  Falsy,      \* the values that JavaScript takes for false, such as 0 or ''
  Lifetimes,  \* the ttl options in use; Forever when none is passed
  Forever,
  Callers,    \* concurrent calls of setNx
  MaxTime     \* bound: the last millisecond

ConstantsAssumption ==
  /\ Falsy \subseteq Values
  /\ Lifetimes \subseteq Nat \ {0}
  /\ Forever \notin Nat
  /\ MaxTime \in Nat

VARIABLES
  backend,   \* "in-memory" or "redis"
  now,       \* Date.now()
  entries,   \* entries[k]: what is stored under k, a set of at most one entry
  calls,     \* calls[c]: what a call of setNx is about to store, or {}
  since,     \* history: since[c]: the keys stored under since the look of c
  winners    \* history: whom setNx answered true since k was last free

vars == <<backend, now, entries, calls, since, winners>>

Entries == [value : Values, createdAt : 0 .. MaxTime, ttl : Lifetimes \cup {Forever}]
Arguments == [key : Keys, value : Values, ttl : Lifetimes \cup {Forever}]

TypeOK ==
  /\ backend \in {"in-memory", "redis"}
  /\ now \in 0 .. MaxTime
  /\ entries \in [Keys -> SUBSET Entries]
  /\ \A k \in Keys : \A e, f \in entries[k] : e = f
  /\ calls \in [Callers -> SUBSET Arguments]
  /\ since \in [Callers -> SUBSET Keys]
  /\ winners \in [Keys -> SUBSET Callers]

Init ==
  /\ backend \in {"in-memory", "redis"}
  /\ now = 0
  /\ entries = [k \in Keys |-> {}]
  /\ calls = [c \in Callers |-> {}]
  /\ since = [c \in Callers |-> {}]
  /\ winners = [k \in Keys |-> {}]

\* In memory an entry outlives its ttl by a millisecond.
Expired(e) ==
  /\ e.ttl # Forever
  /\ IF backend = "redis" THEN now >= e.createdAt + e.ttl ELSE now > e.createdAt + e.ttl

Live(k) == {e \in entries[k] : ~Expired(e)}

Entry(a) == [value |-> a.value, createdAt |-> now, ttl |-> a.ttl]

\* Whoever won the key of ks holds it no more.
Free(ks) == winners' = [k \in Keys |-> IF k \in ks THEN {} ELSE winners[k]]

Stores(k) == since' = [c \in Callers |-> since[c] \cup {k}]

-----------------------------------------------------------------------------

\* The entry that is found expired is dropped; redis drops it by itself.
get(k) ==
  /\ entries' = [entries EXCEPT ![k] = Live(k)]
  /\ UNCHANGED <<now, calls, since, winners, backend>>

set(a) ==
  /\ entries' = [entries EXCEPT ![a.key] = {Entry(a)}]
  /\ Stores(a.key)
  /\ Free({a.key})
  /\ UNCHANGED <<now, calls, backend>>

invalidate(k) ==
  /\ entries' = [entries EXCEPT ![k] = {}]
  /\ Free({k})
  /\ UNCHANGED <<now, calls, since, backend>>

clear ==
  /\ entries' = [k \in Keys |-> {}]
  /\ Free(Keys)
  /\ UNCHANGED <<now, calls, since, backend>>

\* Mutant: nothing that is stored counts.
Taken_Never(k) == FALSE

\* In memory a falsy value is taken for a free key.
Taken(k) == \E e \in Live(k) : backend = "in-memory" => e.value \notin Falsy

\* In memory setNx looks first, and answers false when something is there.
setNx(c, a) ==
  /\ backend = "in-memory"
  /\ calls[c] = {}
  /\ c \notin winners[a.key]
  /\ calls' = [calls EXCEPT ![c] = IF Taken(a.key) THEN {} ELSE {a}]
  /\ entries' = [entries EXCEPT ![a.key] = Live(a.key)]
  /\ since' = [since EXCEPT ![c] = {}]
  /\ UNCHANGED <<now, winners, backend>>

\* It answers true, and c holds the key.
Store(c, a) ==
  /\ entries' = [entries EXCEPT ![a.key] = {Entry(a)}]
  /\ winners' = [winners EXCEPT ![a.key] = @ \cup {c}]
  /\ Stores(a.key)
  /\ UNCHANGED <<backend, now>>

\* Then it stores, whatever others stored since the look.
SetNxStored(c, a) ==
  /\ calls[c] = {a}
  /\ calls' = [calls EXCEPT ![c] = {}]
  /\ Store(c, a)

\* In redis that is one command.
SetNxAtOnce(c, a) ==
  /\ backend = "redis"
  /\ c \notin winners[a.key]
  /\ ~Taken(a.key)
  /\ Store(c, a)
  /\ UNCHANGED calls

\* A key whose entry expires is free for the next one.
Tick ==
  /\ now < MaxTime
  /\ now' = now + 1
  /\ UNCHANGED <<entries, calls, since, backend>>
  /\ Free({k \in Keys : Live(k) # {} /\ Live(k)' = {}})

Next ==
  \/ Tick
  \/ clear
  \/ \E k \in Keys : get(k) \/ invalidate(k)
  \/ \E a \in Arguments :
       \/ set(a)
       \/ \E c \in Callers : setNx(c, a) \/ SetNxStored(c, a) \/ SetNxAtOnce(c, a)

Spec == Init /\ [][Next]_vars

-----------------------------------------------------------------------------
(* Properties                                                              *)

\* In redis setNx is a lock: until a key expires or is removed or overwritten,
\* one caller at most is told that it has the key.
OneHolder == \A k \in Keys : \A c, d \in winners[k] : c = d

\* In memory setNx replaces a value that is still good only when that value was
\* stored after setNx looked: an expiry or a removal meanwhile does not matter.
SetNxReplacesOnlyLaterValues ==
  [][\A c \in Callers, a \in Arguments :
       /\ calls[c] = {a}
       /\ calls'[c] = {}
       /\ \E e \in Live(a.key) : e.value \notin Falsy
       => a.key \in since[c]]_vars

\* Both, of variables that keep their types.
SetNxIsExclusive ==
  /\ [](backend = "redis" => TypeOK /\ OneHolder)
  /\ SetNxReplacesOnlyLaterValues

=============================================================================
