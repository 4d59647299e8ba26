------------------------- MODULE EventsBrokerProofs -------------------------
(***************************************************************************)
(* Proofs about EventsBroker: the retries are bounded, for any events,     *)
(* handlers and numbers of retries and any finite number of overlapping    *)
(* runs of the retry job, and every subscriber is called once, whatever is *)
(* registered, cleared and thrown while publish() awaits.                  *)
(***************************************************************************)
EXTENDS EventsBroker, FiniteSetTheorems, SequenceTheorems, TLAPS

\* The runs that have yet to retry the i-th failed event, and those that have
\* yet to learn how their retry of it ended.
Listing(i) == {r \in Runs : i \in run[r].todo}
Trying(i) == {r \in Runs : run[r].at = i}

\* Runs that listed a failed event may each still add a retry to it.
ListingInv ==
  \A i \in DOMAIN failed :
    LET max == Retries[failed[i].handler]
    IN \/ failed[i].retries = 0 /\ Listing(i) = {}
       \/ max > 0 /\ failed[i].retries + Cardinality(Listing(i))
                       <= max + Cardinality(Runs) - 1

\* Once a failed event succeeded nobody lists it anew, so at most the runs that
\* had it already can make it succeed again.
SuccessInv ==
  \A i \in DOMAIN failed :
    IF failed[i].processedSuccessfully
    THEN failed[i].successes + Cardinality(Listing(i) \cup Trying(i)) <= Cardinality(Runs)
    ELSE failed[i].successes = 0

\* A run no longer lists the failed event it is retrying.
TryingInv == \A r \in Runs : run[r].at \notin run[r].todo

RunsInv == TypeOK /\ ListingInv /\ SuccessInv /\ TryingInv

-----------------------------------------------------------------------------
(* Type correctness                                                        *)

\* Changing a field of a record keeps its type.
LEMMA RecordUpdates ==
  /\ \A f \in FailedEvents : /\ Succeeded(f) \in FailedEvents
                             /\ [f EXCEPT !.retries = @ + 1] \in FailedEvents
  /\ \A p \in Publications :
       /\ \A x \in {"universal", "done"} : [p EXCEPT !.phase = x] \in Publications
       /\ \A h \in Handlers \cup {None} : [p EXCEPT !.calling = h] \in Publications
       /\ [p EXCEPT !.calling = None, !.at = @ + 1] \in Publications
  /\ \A x \in RunStates :
       /\ \A t \in SUBSET (Nat \ {0}) : [x EXCEPT !.todo = t] \in RunStates
       /\ \A i \in Nat : [x EXCEPT !.at = i] \in RunStates
<1>1. ASSUME NEW f \in FailedEvents
      PROVE  [f EXCEPT !.retries = @ + 1] \in FailedEvents
  BY DEF FailedEvents
<1>2. ASSUME NEW f \in FailedEvents
      PROVE  Succeeded(f) \in FailedEvents
  <2>. DEFINE g == [f EXCEPT !.processedSuccessfully = TRUE]
  <2>1. g \in FailedEvents /\ g.successes = f.successes
    BY DEF FailedEvents
  <2>2. Succeeded(f) = [g EXCEPT !.successes = @ + 1]
    BY DEF Succeeded
  <2>. HIDE DEF g
  <2>3. QED
    BY <2>1, <2>2 DEF FailedEvents
<1>3. ASSUME NEW p \in Publications, NEW x \in {"universal", "done"}
      PROVE  [p EXCEPT !.phase = x] \in Publications
  BY DEF Publications
<1>4. ASSUME NEW p \in Publications, NEW h \in Handlers \cup {None}
      PROVE  [p EXCEPT !.calling = h] \in Publications
  BY DEF Publications
<1>5. ASSUME NEW p \in Publications
      PROVE  [p EXCEPT !.calling = None, !.at = @ + 1] \in Publications
  <2>. DEFINE g == [p EXCEPT !.calling = None]
  <2>1. g \in Publications /\ g.at = p.at
    BY DEF Publications
  <2>2. [p EXCEPT !.calling = None, !.at = @ + 1] = [g EXCEPT !.at = @ + 1]
    OBVIOUS
  <2>. HIDE DEF g
  <2>3. QED
    BY <2>1, <2>2 DEF Publications
<1>6. ASSUME NEW x \in RunStates
      PROVE  /\ \A t \in SUBSET (Nat \ {0}) : [x EXCEPT !.todo = t] \in RunStates
             /\ \A i \in Nat : [x EXCEPT !.at = i] \in RunStates
  BY DEF RunStates
<1>7. QED
  BY <1>1, <1>2, <1>3, <1>4, <1>5, <1>6

\* What a publication iterates over is a sequence of handlers.
LEMMA ArrayType ==
  ASSUME TypeOK, NEW e \in Events
  PROVE  /\ Array(e) \in Seq(Handlers)
         /\ \A i \in DOMAIN Array(e) : Array(e)[i] \in Handlers
<1>. USE ConstantsAssumption DEF TypeOK
<1>1. universal \in Seq(Handlers)
  OBVIOUS
<1>2. named[pub[e].gen][NameOf[e]] \in Seq(Handlers)
  BY DEF Publications
<1>3. Array(e) \in Seq(Handlers)
  BY <1>1, <1>2 DEF Array
<1>4. QED
  BY <1>3

\* The variables keep their types, and runs only refer to stored failed events.
THEOREM TypeCorrect == Spec => []TypeOK
<1>. USE ConstantsAssumption
<1>1. Init => TypeOK
  BY DEF Init, TypeOK, Generations, Publications, RunStates
<1>2. TypeOK /\ [Next]_vars => TypeOK'
  <2>. SUFFICES ASSUME TypeOK, [Next]_vars PROVE TypeOK'
    OBVIOUS
  <2>. USE DEF TypeOK
  <2>1. ASSUME NEW h \in Handlers, registerUniversalEventHandler(h)
        PROVE  TypeOK'
    BY <2>1 DEF registerUniversalEventHandler
  <2>2. ASSUME NEW h \in Handlers, registerEventHandler(h)
        PROVE  TypeOK'
    <3>1. Append(named[gen][Subject[h]], h) \in Seq(Handlers \ Universal)
      BY <2>2 DEF registerEventHandler
    <3>2. named' \in [Generations -> [Names -> Seq(Handlers \ Universal)]]
      BY <2>2, <3>1 DEF registerEventHandler
    <3>3. QED
      BY <2>2, <3>2 DEF registerEventHandler
  <2>3. CASE clear
    BY <2>3 DEF clear, Generations
  <2>4. ASSUME NEW e \in Events, publish(e)
        PROVE  TypeOK'
    <3>1. Elements(universal) \cup Elements(named[gen][NameOf[e]]) \subseteq Handlers
      BY DEF Elements
    <3>2. pub' \in [Events -> Publications]
      BY <2>4, RecordUpdates DEF publish
    <3>3. QED
      BY <2>4, <3>1, <3>2 DEF publish
  <2>5. ASSUME NEW e \in Events, CallHandler(e)
        PROVE  TypeOK'
    <3>1. Array(e)[pub[e].at] \in Handlers
      <4>1. pub[e].at \in Nat \ {0} /\ pub[e].at <= Len(Array(e))
        BY <2>5 DEF CallHandler, Publications
      <4>2. pub[e].at \in DOMAIN Array(e)
        BY <4>1, ArrayType
      <4>3. QED
        BY <4>2, ArrayType
    <3>2. [pub[e] EXCEPT !.calling = Array(e)[pub[e].at]] \in Publications
      BY <3>1, RecordUpdates
    <3>3. pub' \in [Events -> Publications]
      BY <2>5, <3>2 DEF CallHandler
    <3>4. calls' \in [Events -> Seq(Handlers)]
      BY <2>5, <3>1 DEF CallHandler
    <3>5. QED
      BY <2>5, <3>3, <3>4 DEF CallHandler
  <2>6. ASSUME NEW e \in Events, EndUniversal(e) \/ EndNamed(e)
        PROVE  TypeOK'
    <3>1. [phase |-> "named", at |-> 1, gen |-> gen, calling |-> None] \in Publications
      BY DEF Publications
    <3>2. pub' \in [Events -> Publications]
      <4>1. CASE EndUniversal(e)
        BY <3>1, <4>1 DEF EndUniversal
      <4>2. CASE EndNamed(e)
        <5>1. [pub[e] EXCEPT !.phase = "done"] \in Publications
          BY RecordUpdates
        <5>2. QED
          BY <4>2, <5>1 DEF EndNamed
      <4>3. QED
        BY <2>6, <4>1, <4>2
    <3>3. UNCHANGED <<universal, named, gen, failed, run, calls, expected>>
      BY <2>6 DEF EndUniversal, EndNamed
    <3>4. QED
      BY <3>2, <3>3
  <2>7. ASSUME NEW e \in Events, NEW ok \in BOOLEAN, HandlerSettled(e, ok)
        PROVE  TypeOK'
    <3>1. pub' \in [Events -> Publications]
      BY <2>7, RecordUpdates DEF HandlerSettled
    <3>2. FailedEvent(e, pub[e].calling) \in FailedEvents
      BY <2>7 DEF HandlerSettled, FailedEvent, FailedEvents, Publications
    <3>3. failed' \in Seq(FailedEvents) /\ DOMAIN failed \subseteq DOMAIN failed'
      BY <2>7, <3>2, AppendProperties DEF HandlerSettled
    <3>4. QED
      BY <2>7, <3>1, <3>3 DEF HandlerSettled
  <2>8. ASSUME NEW r \in Runs, retryFailedEvents(r)
        PROVE  TypeOK'
    <3>1. findAllUnsuccessfullWithRetriesLessThanMax \subseteq DOMAIN failed
      BY DEF findAllUnsuccessfullWithRetriesLessThanMax
    <3>2. findAllUnsuccessfullWithRetriesLessThanMax \in SUBSET (Nat \ {0})
      BY <3>1
    <3>3. [run[r] EXCEPT !.todo = findAllUnsuccessfullWithRetriesLessThanMax] \in RunStates
      BY <3>2, RecordUpdates
    <3>4. run' \in [Runs -> RunStates]
      BY <2>8, <3>3 DEF retryFailedEvents
    <3>5. QED
      BY <2>8, <3>1, <3>4 DEF retryFailedEvents
  <2>9. ASSUME NEW r \in Runs, SkipFailedEvent(r)
        PROVE  TypeOK'
    <3>1. PICK i \in run[r].todo : run' = [run EXCEPT ![r].todo = @ \ {i}]
      BY <2>9 DEF SkipFailedEvent
    <3>2. run[r].todo \ {i} \in SUBSET (Nat \ {0})
      OBVIOUS
    <3>3. run' \in [Runs -> RunStates]
      BY <3>1, <3>2, RecordUpdates
    <3>4. QED
      BY <2>9, <3>1, <3>3 DEF SkipFailedEvent
  <2>10. ASSUME NEW r \in Runs, RetryHandler(r)
         PROVE  TypeOK'
    <3>1. PICK i \in run[r].todo :
            /\ run' = [run EXCEPT ![r] = [todo |-> @.todo \ {i}, at |-> i]]
            /\ failed' = [failed EXCEPT ![i].retries = @ + 1]
      BY <2>10 DEF RetryHandler
    <3>2. i \in DOMAIN failed /\ failed[i] \in FailedEvents
      OBVIOUS
    <3>3. [failed[i] EXCEPT !.retries = @ + 1] \in FailedEvents
      BY <3>2, RecordUpdates
    <3>4. failed' \in Seq(FailedEvents) /\ DOMAIN failed' = DOMAIN failed
      BY <3>1, <3>2, <3>3, ExceptSeq
    <3>5. run' \in [Runs -> RunStates]
      BY <3>1, <3>2 DEF RunStates
    <3>6. QED
      BY <2>10, <3>1, <3>2, <3>4, <3>5 DEF RetryHandler
  <2>11. ASSUME NEW r \in Runs, NEW ok \in BOOLEAN, RetrySettled(r, ok)
         PROVE  TypeOK'
    <3>1. run[r].at \in DOMAIN failed /\ failed[run[r].at] \in FailedEvents
      BY <2>11 DEF RetrySettled
    <3>2. Succeeded(failed[run[r].at]) \in FailedEvents
      BY <3>1, RecordUpdates
    <3>3. failed' \in Seq(FailedEvents) /\ DOMAIN failed' = DOMAIN failed
      BY <2>11, <3>1, <3>2, ExceptSeq DEF RetrySettled
    <3>4. run' \in [Runs -> RunStates]
      BY <2>11, RecordUpdates DEF RetrySettled
    <3>5. QED
      BY <2>11, <3>3, <3>4 DEF RetrySettled
  <2>12. CASE UNCHANGED vars
    BY <2>12 DEF vars
  <2>13. QED
    BY ZenonT(30), <2>1, <2>2, <2>3, <2>4, <2>5, <2>6, <2>7, <2>8, <2>9, <2>10, <2>11,
       <2>12
       DEF Next
<1>3. QED
  BY <1>1, <1>2, PTL DEF Spec

-----------------------------------------------------------------------------
(* Retries and overlapping runs                                            *)

\* Sets of runs are finite, and there are at most as many as there are runs.
LEMMA RunSets ==
  /\ Cardinality(Runs) \in Nat
  /\ \A S \in SUBSET Runs :
       /\ Cardinality(S) \in Nat /\ Cardinality(S) <= Cardinality(Runs)
       /\ S = {} => Cardinality(S) = 0
       /\ \A r \in S : Cardinality(S \ {r}) = Cardinality(S) - 1 /\ Cardinality(S) > 0
<1>. USE ConstantsAssumption
<1>1. Cardinality(Runs) \in Nat
  BY FS_CardinalityType
<1>2. ASSUME NEW S \in SUBSET Runs
      PROVE  /\ IsFiniteSet(S)
             /\ Cardinality(S) \in Nat /\ Cardinality(S) <= Cardinality(Runs)
             /\ S = {} => Cardinality(S) = 0
  BY FS_Subset, FS_CardinalityType, FS_EmptySet
<1>3. ASSUME NEW S \in SUBSET Runs, NEW r \in S
      PROVE  Cardinality(S \ {r}) = Cardinality(S) - 1 /\ Cardinality(S) > 0
  <2>1. Cardinality(S \ {r}) = Cardinality(S) - 1
    BY <1>2, FS_RemoveElement
  <2>2. Cardinality(S) # 0
    BY <1>2, FS_EmptySet
  <2>3. QED
    BY <1>2, <2>1, <2>2
<1>4. QED
  BY <1>1, <1>2, <1>3

\* What failed keeps its type.
LEMMA FailedTypes ==
  ASSUME TypeOK
  PROVE  \A i \in DOMAIN failed :
           /\ failed[i] \in FailedEvents
           /\ failed[i].retries \in Nat /\ failed[i].successes \in Nat
           /\ Retries[failed[i].handler] \in Nat
<1>. SUFFICES ASSUME NEW i \in DOMAIN failed
              PROVE  /\ failed[i] \in FailedEvents
                     /\ failed[i].retries \in Nat /\ failed[i].successes \in Nat
                     /\ Retries[failed[i].handler] \in Nat
  OBVIOUS
<1>1. failed[i] \in FailedEvents
  BY DEF TypeOK
<1>2. /\ failed[i].retries \in Nat /\ failed[i].successes \in Nat
      /\ failed[i].handler \in Handlers
  BY <1>1 DEF FailedEvents
<1>3. QED
  BY <1>1, <1>2, ConstantsAssumption

\* The job fires: only failed events that may be retried gain a run.
LEMMA ListStep ==
  ASSUME RunsInv, NEW r \in Runs, retryFailedEvents(r)
  PROVE  ListingInv' /\ SuccessInv' /\ TryingInv'
<1>. DEFINE found == findAllUnsuccessfullWithRetriesLessThanMax
<1>. USE DEF RunsInv
<1>1. /\ failed' = failed
      /\ \A q \in Runs : /\ run'[q].at = run[q].at
                         /\ run'[q].todo = IF q = r THEN found ELSE run[q].todo
      /\ run[r].todo = {} /\ run[r].at = 0
  BY DEF retryFailedEvents, TypeOK, RunStates
<1>2. \A i \in DOMAIN failed : i \in found <=> CanRetry(failed[i])
  BY DEF findAllUnsuccessfullWithRetriesLessThanMax
<1>3. \A i \in DOMAIN failed \ found :
        Listing(i)' = Listing(i) /\ Trying(i)' = Trying(i)
  BY <1>1 DEF Listing, Trying
<1>4. \A i \in DOMAIN failed :
        Listing(i)' \in SUBSET Runs /\ (Listing(i) \cup Trying(i))' \in SUBSET Runs
  BY DEF Listing, Trying
<1>5. ListingInv'
  <2>. SUFFICES ASSUME NEW i \in DOMAIN failed
                PROVE  LET max == Retries[failed[i].handler]
                       IN \/ failed[i].retries = 0 /\ Listing(i)' = {}
                          \/ max > 0 /\ failed[i].retries + Cardinality(Listing(i)')
                                          <= max + Cardinality(Runs) - 1
    BY <1>1 DEF ListingInv
  <2>1. failed[i].retries \in Nat /\ Retries[failed[i].handler] \in Nat
    BY FailedTypes
  <2>2. CASE i \in found
    <3>1. failed[i].retries < Retries[failed[i].handler]
      BY <1>2, <2>2 DEF CanRetry
    <3>2. Cardinality(Listing(i)') \in Nat /\ Cardinality(Listing(i)') <= Cardinality(Runs)
      BY <1>4, RunSets
    <3>3. QED
      BY <2>1, <3>1, <3>2, RunSets
  <2>3. CASE i \notin found
    BY <1>3, <2>3 DEF ListingInv
  <2>4. QED
    BY <2>2, <2>3
<1>6. SuccessInv'
  <2>. SUFFICES ASSUME NEW i \in DOMAIN failed
                PROVE  IF failed[i].processedSuccessfully
                       THEN failed[i].successes + Cardinality((Listing(i) \cup Trying(i))')
                              <= Cardinality(Runs)
                       ELSE failed[i].successes = 0
    BY <1>1 DEF SuccessInv
  <2>1. CASE i \in found
    BY <1>2, <2>1 DEF CanRetry, SuccessInv
  <2>2. CASE i \notin found
    BY <1>3, <2>2 DEF SuccessInv
  <2>3. QED
    BY <2>1, <2>2
<1>7. TryingInv'
  <2>1. 0 \notin found
    BY DEF findAllUnsuccessfullWithRetriesLessThanMax, TypeOK
  <2>2. QED
    BY <1>1, <2>1 DEF TryingInv
<1>8. QED
  BY <1>5, <1>6, <1>7

\* A run passes over a failed event whose handler is not registered.
LEMMA SkipStep ==
  ASSUME RunsInv, NEW r \in Runs, SkipFailedEvent(r)
  PROVE  ListingInv' /\ SuccessInv' /\ TryingInv'
<1>. USE DEF RunsInv
<1>1. PICK x \in run[r].todo : run' = [run EXCEPT ![r].todo = @ \ {x}]
  BY DEF SkipFailedEvent
<1>2. /\ failed' = failed
      /\ \A q \in Runs : run'[q].at = run[q].at /\ run'[q].todo \subseteq run[q].todo
  BY <1>1 DEF SkipFailedEvent, TypeOK, RunStates
<1>3. \A i : /\ Listing(i)' \subseteq Listing(i) /\ Trying(i)' = Trying(i)
             /\ Listing(i) \subseteq Runs /\ Trying(i) \subseteq Runs
  BY <1>2 DEF Listing, Trying
<1>4. \A S \in SUBSET Runs : \A T \in SUBSET S : Cardinality(T) <= Cardinality(S)
  BY FS_Subset, ConstantsAssumption
<1>5. ASSUME NEW i \in DOMAIN failed
      PROVE  /\ Cardinality(Listing(i)') \in Nat /\ Cardinality(Listing(i)) \in Nat
             /\ Cardinality(Listing(i)') <= Cardinality(Listing(i))
             /\ Cardinality((Listing(i) \cup Trying(i))') \in Nat
             /\ Cardinality(Listing(i) \cup Trying(i)) \in Nat
             /\ Cardinality((Listing(i) \cup Trying(i))') <= Cardinality(Listing(i) \cup Trying(i))
             /\ failed[i] \in FailedEvents /\ Retries[failed[i].handler] \in Nat
  <2>1. /\ Listing(i) \in SUBSET Runs /\ Listing(i)' \in SUBSET Listing(i)
        /\ Listing(i) \cup Trying(i) \in SUBSET Runs
        /\ (Listing(i) \cup Trying(i))' \in SUBSET (Listing(i) \cup Trying(i))
    BY <1>3
  <2>2. Listing(i)' \in SUBSET Runs /\ (Listing(i) \cup Trying(i))' \in SUBSET Runs
    BY <2>1
  <2>3. failed[i] \in FailedEvents /\ Retries[failed[i].handler] \in Nat
    BY FailedTypes
  <2>4. QED
    BY <1>4, <2>1, <2>2, <2>3, RunSets
<1>6. ListingInv'
  <2>. SUFFICES ASSUME NEW i \in DOMAIN failed
                PROVE  LET max == Retries[failed[i].handler]
                       IN \/ failed[i].retries = 0 /\ Listing(i)' = {}
                          \/ max > 0 /\ failed[i].retries + Cardinality(Listing(i)')
                                          <= max + Cardinality(Runs) - 1
    BY <1>2 DEF ListingInv
  <2>. DEFINE n == Cardinality(Runs)
              old == Cardinality(Listing(i))
              new == Cardinality(Listing(i)')
  <2>1. /\ failed[i].retries \in Nat /\ Retries[failed[i].handler] \in Nat
        /\ n \in Nat /\ old \in Nat /\ new \in Nat /\ new <= old
    BY <1>5, FailedTypes, RunSets
  <2>2. \/ failed[i].retries = 0 /\ Listing(i) = {}
        \/ Retries[failed[i].handler] > 0
           /\ failed[i].retries + old <= Retries[failed[i].handler] + n - 1
    BY DEF ListingInv
  <2>3. Listing(i) = {} => Listing(i)' = {}
    BY <1>3
  <2>. HIDE DEF n, old, new
  <2>4. CASE failed[i].retries = 0 /\ Listing(i) = {}
    BY <2>3, <2>4
  <2>5. CASE ~(failed[i].retries = 0 /\ Listing(i) = {})
    <3>1. Retries[failed[i].handler] > 0
          /\ failed[i].retries + new <= Retries[failed[i].handler] + n - 1
      BY <2>1, <2>2, <2>5
    <3>2. QED
      BY <3>1 DEF n, new
  <2>6. QED
    BY <2>4, <2>5
<1>7. SuccessInv'
  <2>. SUFFICES ASSUME NEW i \in DOMAIN failed
                PROVE  IF failed[i].processedSuccessfully
                       THEN failed[i].successes + Cardinality((Listing(i) \cup Trying(i))')
                              <= Cardinality(Runs)
                       ELSE failed[i].successes = 0
    BY <1>2 DEF SuccessInv
  <2>. DEFINE n == Cardinality(Runs)
              old == Cardinality(Listing(i) \cup Trying(i))
              new == Cardinality((Listing(i) \cup Trying(i))')
  <2>1. /\ failed[i].successes \in Nat
        /\ n \in Nat /\ old \in Nat /\ new \in Nat /\ new <= old
    BY <1>5, FailedTypes, RunSets
  <2>2. IF failed[i].processedSuccessfully THEN failed[i].successes + old <= n
                                           ELSE failed[i].successes = 0
    BY DEF SuccessInv
  <2>. HIDE DEF n, old, new
  <2>3. IF failed[i].processedSuccessfully THEN failed[i].successes + new <= n
                                           ELSE failed[i].successes = 0
    BY <2>1, <2>2
  <2>4. QED
    BY <2>3 DEF n, new
<1>8. TryingInv'
  BY <1>2 DEF TryingInv
<1>9. QED
  BY <1>6, <1>7, <1>8

\* The retry is counted and its run leaves those that still list the event.
LEMMA RetryStep ==
  ASSUME RunsInv, NEW r \in Runs, RetryHandler(r)
  PROVE  ListingInv' /\ SuccessInv' /\ TryingInv'
<1>. USE DEF RunsInv
<1>1. PICK x \in run[r].todo :
        /\ run' = [run EXCEPT ![r] = [todo |-> @.todo \ {x}, at |-> x]]
        /\ failed' = [failed EXCEPT ![x].retries = @ + 1]
        /\ run[r].at = 0
  BY DEF RetryHandler
<1>2. x \in DOMAIN failed /\ x # 0 /\ failed \in Seq(FailedEvents)
  BY DEF TypeOK, RunStates
<1>3. /\ DOMAIN failed' = DOMAIN failed
      /\ \A i \in DOMAIN failed :
           /\ failed'[i].retries = IF i = x THEN failed[i].retries + 1 ELSE failed[i].retries
           /\ failed'[i].handler = failed[i].handler
           /\ failed'[i].processedSuccessfully = failed[i].processedSuccessfully
           /\ failed'[i].successes = failed[i].successes
  <2>1. \A i \in DOMAIN failed : failed[i] \in FailedEvents
    BY <1>2
  <2>2. QED
    BY <1>1, <1>2, <2>1 DEF FailedEvents
<1>4. \A q \in Runs : /\ q # r => run'[q] = run[q]
                      /\ run'[r].todo = run[r].todo \ {x} /\ run'[r].at = x
  BY <1>1 DEF TypeOK
<1>5. ASSUME NEW i \in DOMAIN failed
      PROVE  /\ Listing(i)' = IF i = x THEN Listing(i) \ {r} ELSE Listing(i)
             /\ (Listing(i) \cup Trying(i))' = Listing(i) \cup Trying(i)
             /\ Listing(i) \subseteq Runs
             /\ i = x => r \in Listing(i)
  <2>1. i # 0
    BY <1>2
  <2>2. QED
    BY <1>1, <1>4, <2>1 DEF Listing, Trying
<1>6. ListingInv'
  <2>. SUFFICES ASSUME NEW i \in DOMAIN failed
                PROVE  LET max == Retries[failed[i].handler]
                       IN \/ failed'[i].retries = 0 /\ Listing(i)' = {}
                          \/ max > 0 /\ failed'[i].retries + Cardinality(Listing(i)')
                                          <= max + Cardinality(Runs) - 1
    BY <1>3 DEF ListingInv
  <2>1. CASE i = x
    <3>1. /\ Cardinality(Listing(i)') = Cardinality(Listing(i)) - 1
          /\ Cardinality(Listing(i)) \in Nat /\ Listing(i) # {}
      <4>. DEFINE S == Listing(i)
      <4>1. S \in SUBSET Runs /\ r \in S /\ Listing(i)' = S \ {r}
        BY <1>5, <2>1
      <4>. HIDE DEF S
      <4>2. Cardinality(S \ {r}) = Cardinality(S) - 1 /\ Cardinality(S) \in Nat /\ S # {}
        BY <4>1, RunSets
      <4>3. QED
        BY <4>1, <4>2 DEF S
    <3>2. failed[i].retries \in Nat /\ Retries[failed[i].handler] \in Nat
      BY FailedTypes
    <3>3. failed'[i].retries = failed[i].retries + 1
      BY <1>3, <2>1
    <3>4. QED
      BY <3>1, <3>2, <3>3, RunSets DEF ListingInv
  <2>2. CASE i # x
    BY <1>3, <1>5, <2>2 DEF ListingInv
  <2>3. QED
    BY <2>1, <2>2
<1>7. SuccessInv'
  BY <1>3, <1>5 DEF SuccessInv
<1>8. TryingInv'
  BY <1>4 DEF TryingInv
<1>9. QED
  BY <1>6, <1>7, <1>8

\* The retry ended: its run is through with the failed event.
LEMMA SettledStep ==
  ASSUME RunsInv, NEW r \in Runs, NEW ok \in BOOLEAN, RetrySettled(r, ok)
  PROVE  ListingInv' /\ SuccessInv' /\ TryingInv'
<1>. USE DEF RunsInv
<1>. DEFINE x == run[r].at
<1>1. x \in DOMAIN failed /\ x # 0 /\ r \in Trying(x) /\ r \notin Listing(x)
  BY DEF RetrySettled, TypeOK, Trying, Listing, TryingInv
<1>2. /\ DOMAIN failed' = DOMAIN failed
      /\ \A i \in DOMAIN failed :
           /\ failed'[i].retries = failed[i].retries
           /\ failed'[i].handler = failed[i].handler
           /\ i # x \/ ~ok => failed'[i] = failed[i]
           /\ i = x /\ ok => /\ failed'[i].processedSuccessfully
                             /\ failed'[i].successes = failed[i].successes + 1
  <2>1. \A i \in DOMAIN failed : failed[i] \in FailedEvents
    BY DEF TypeOK
  <2>2. \A f \in FailedEvents :
          LET s == Succeeded(f)
          IN /\ s.retries = f.retries /\ s.handler = f.handler
             /\ s.processedSuccessfully /\ s.successes = f.successes + 1
    BY DEF Succeeded, FailedEvents
  <2>3. failed' = IF ok THEN [failed EXCEPT ![x] = Succeeded(failed[x])] ELSE failed
    BY DEF RetrySettled
  <2>. HIDE DEF x
  <2>4. QED
    BY <1>1, <2>1, <2>2, <2>3
<1>3. \A q \in Runs : /\ run'[q].todo = run[q].todo
                      /\ run'[q].at = IF q = r THEN 0 ELSE run[q].at
  BY DEF RetrySettled, TypeOK, RunStates
<1>4. ASSUME NEW i \in DOMAIN failed
      PROVE  /\ Listing(i)' = Listing(i)
             /\ (Listing(i) \cup Trying(i))' =
                  IF i = x THEN (Listing(i) \cup Trying(i)) \ {r} ELSE Listing(i) \cup Trying(i)
             /\ Listing(i) \cup Trying(i) \subseteq Runs
  <2>1. i # 0
    BY DEF TypeOK
  <2>2. QED
    BY <1>1, <1>3, <2>1 DEF Listing, Trying
<1>5. ListingInv'
  BY <1>2, <1>4 DEF ListingInv
<1>6. SuccessInv'
  <2>. SUFFICES ASSUME NEW i \in DOMAIN failed
                PROVE  IF failed'[i].processedSuccessfully
                       THEN failed'[i].successes + Cardinality((Listing(i) \cup Trying(i))')
                              <= Cardinality(Runs)
                       ELSE failed'[i].successes = 0
    BY <1>2 DEF SuccessInv
  <2>. DEFINE A == Listing(i) \cup Trying(i)
  <2>1. CASE i = x
    <3>1. /\ A \in SUBSET Runs /\ r \in A
          /\ (Listing(i) \cup Trying(i))' = A \ {r}
      BY <1>1, <1>4, <2>1
    <3>2. /\ Cardinality(A \ {r}) = Cardinality(A) - 1 /\ Cardinality(A) \in Nat
          /\ Cardinality(A) <= Cardinality(Runs) /\ Cardinality(Runs) \in Nat
      <4>. HIDE DEF A
      <4>1. QED
        BY <3>1, RunSets
    <3>3. /\ failed[i].successes \in Nat
          /\ IF failed[i].processedSuccessfully
             THEN failed[i].successes + Cardinality(A) <= Cardinality(Runs)
             ELSE failed[i].successes = 0
      BY FailedTypes DEF SuccessInv
    <3>. DEFINE n == Cardinality(Runs)
                old == Cardinality(A)
                new == Cardinality(A \ {r})
    <3>4. IF failed'[i].processedSuccessfully THEN failed'[i].successes + new <= n
                                              ELSE failed'[i].successes = 0
      <4>1. new = old - 1 /\ old \in Nat /\ old <= n /\ n \in Nat
        BY <3>2
      <4>. HIDE DEF n, old, new
      <4>2. failed[i].successes \in Nat
            /\ IF failed[i].processedSuccessfully THEN failed[i].successes + old <= n
                                                  ELSE failed[i].successes = 0
        BY <3>3 DEF n, old
      <4>3. CASE ok
        <5>1. failed'[i].processedSuccessfully /\ failed'[i].successes = failed[i].successes + 1
          BY <1>2, <2>1, <4>3
        <5>2. QED
          BY <4>1, <4>2, <5>1
      <4>4. CASE ~ok
        <5>1. failed'[i] = failed[i]
          BY <1>2, <4>4
        <5>2. QED
          BY <4>1, <4>2, <5>1
      <4>5. QED
        BY <4>3, <4>4
    <3>5. QED
      BY <3>1, <3>4
  <2>2. CASE i # x
    BY <1>2, <1>4, <2>2 DEF SuccessInv
  <2>3. QED
    BY <2>1, <2>2
<1>7. TryingInv'
  BY <1>3 DEF TryingInv, TypeOK, RunStates
<1>8. QED
  BY <1>5, <1>6, <1>7

\* A handler threw: no run has listed the failed event that is stored for it.
LEMMA StoreStep ==
  ASSUME RunsInv, NEW e \in Events, NEW ok \in BOOLEAN, HandlerSettled(e, ok)
  PROVE  ListingInv' /\ SuccessInv' /\ TryingInv'
<1>. USE DEF RunsInv
<1>1. run' = run
  BY DEF HandlerSettled
<1>2. \A i : Listing(i)' = Listing(i) /\ Trying(i)' = Trying(i)
  BY <1>1 DEF Listing, Trying
<1>3. \A i \in DOMAIN failed' \ DOMAIN failed :
        Listing(i) = {} /\ failed'[i].retries = 0
        /\ ~failed'[i].processedSuccessfully /\ failed'[i].successes = 0
  <2>1. CASE ok
    BY <2>1 DEF HandlerSettled
  <2>2. CASE ~ok
    <3>1. failed' = Append(failed, FailedEvent(e, pub[e].calling)) /\ failed \in Seq(FailedEvents)
      BY <2>2 DEF HandlerSettled, TypeOK
    <3>2. \A i \in DOMAIN failed' \ DOMAIN failed : failed'[i] = FailedEvent(e, pub[e].calling)
      BY <3>1
    <3>3. \A i \in DOMAIN failed' \ DOMAIN failed : Listing(i) = {}
      BY DEF Listing, TypeOK
    <3>4. QED
      BY <3>2, <3>3 DEF FailedEvent
  <2>3. QED
    BY <2>1, <2>2
<1>4. \A i \in DOMAIN failed' \cap DOMAIN failed : failed'[i] = failed[i]
  BY DEF HandlerSettled, TypeOK
<1>5. ListingInv'
  BY <1>2, <1>3, <1>4 DEF ListingInv
<1>6. SuccessInv'
  BY <1>2, <1>3, <1>4 DEF SuccessInv
<1>7. QED
  BY <1>1, <1>5, <1>6 DEF TryingInv

\* The runs of handlers are accounted for in every reachable state.
LEMMA RunsInvCorrect == Spec => []RunsInv
<1>1. Init => RunsInv
  <2>1. Init => TypeOK
    BY ConstantsAssumption DEF Init, TypeOK, Generations, Publications, RunStates
  <2>2. Init => ListingInv /\ SuccessInv /\ TryingInv
    BY DEF Init, ListingInv, SuccessInv, TryingInv
  <2>3. QED
    BY <2>1, <2>2 DEF RunsInv
<1>2. RunsInv /\ [Next]_vars => ListingInv' /\ SuccessInv' /\ TryingInv'
  <2>. SUFFICES ASSUME RunsInv, [Next]_vars
                PROVE  ListingInv' /\ SuccessInv' /\ TryingInv'
    OBVIOUS
  <2>1. ASSUME UNCHANGED <<failed, run>>
        PROVE  ListingInv' /\ SuccessInv' /\ TryingInv'
    BY <2>1 DEF RunsInv, ListingInv, SuccessInv, TryingInv, Listing, Trying
  <2>2. ASSUME NEW h \in Handlers, registerUniversalEventHandler(h) \/ registerEventHandler(h)
        PROVE  UNCHANGED <<failed, run>>
    BY <2>2 DEF registerUniversalEventHandler, registerEventHandler
  <2>3. CASE clear
    BY <2>1, <2>3 DEF clear
  <2>4. ASSUME NEW e \in Events,
               publish(e) \/ CallHandler(e) \/ EndUniversal(e) \/ EndNamed(e)
        PROVE  UNCHANGED <<failed, run>>
    BY <2>4 DEF publish, CallHandler, EndUniversal, EndNamed
  <2>5. CASE UNCHANGED vars
    BY <2>1, <2>5 DEF vars
  <2>6. QED
    BY <2>1, <2>2, <2>3, <2>4, <2>5, ListStep, SkipStep, RetryStep, SettledStep, StoreStep
       DEF Next
<1>3. RunsInv /\ TypeOK' /\ [Next]_vars => RunsInv'
  BY <1>2 DEF RunsInv
<1>4. QED
  BY <1>1, <1>3, TypeCorrect, PTL DEF Spec

\* With n runs of the job in flight a failed event is retried at most n - 1 times
\* more than its handler asked for, and never if it asked for no retries.
THEOREM RetriesBounded == Spec => []RetriesAreBounded
<1>1. RunsInv => RetriesAreBounded
  <2>. SUFFICES ASSUME RunsInv, NEW i \in DOMAIN failed
                PROVE  LET max == Retries[failed[i].handler]
                       IN failed[i].retries <=
                            IF max = 0 THEN 0 ELSE max + Cardinality(Runs) - 1
    BY DEF RetriesAreBounded
  <2>1. failed[i].retries \in Nat /\ Retries[failed[i].handler] \in Nat
    BY FailedTypes DEF RunsInv
  <2>2. Cardinality(Listing(i)) \in Nat /\ Cardinality(Runs) \in Nat
    BY RunSets DEF Listing
  <2>3. Listing(i) # {} => Cardinality(Runs) > 0
    BY RunSets DEF Listing
  <2>4. CASE failed[i].retries = 0 /\ Listing(i) = {}
    BY <2>1, <2>2, <2>4
  <2>5. CASE ~(failed[i].retries = 0 /\ Listing(i) = {})
    BY <2>1, <2>2, <2>5 DEF RunsInv, ListingInv
  <2>6. QED
    BY <2>4, <2>5
<1>2. QED
  BY <1>1, RunsInvCorrect, PTL

\* With n runs of the job in flight a failed event is processed successfully at
\* most n times; in particular only once when runs do not overlap.
THEOREM SuccessesBounded == Spec => []SuccessesAreBounded
<1>1. RunsInv => SuccessesAreBounded
  <2>. SUFFICES ASSUME RunsInv, NEW i \in DOMAIN failed
                PROVE  failed[i].successes <= Cardinality(Runs)
    BY DEF SuccessesAreBounded
  <2>1. failed[i].successes \in Nat
    BY FailedTypes DEF RunsInv
  <2>2. Cardinality(Listing(i) \cup Trying(i)) \in Nat /\ Cardinality(Runs) \in Nat
    <3>1. Listing(i) \cup Trying(i) \in SUBSET Runs
      BY DEF Listing, Trying
    <3>2. QED
      BY <3>1, RunSets
  <2>3. QED
    BY <2>1, <2>2 DEF RunsInv, SuccessInv
<1>2. QED
  BY <1>1, RunsInvCorrect, PTL

\* However many runs of the job overlap, no failed event costs its handler more
\* calls, or is processed more often, than once for each further run.
THEOREM CallsBounded == Spec => []CallsAreBounded
<1>1. RetriesAreBounded /\ SuccessesAreBounded => CallsAreBounded
  BY DEF CallsAreBounded
<1>2. QED
  BY <1>1, RetriesBounded, SuccessesBounded, PTL

-----------------------------------------------------------------------------
(* Every subscriber is called once                                         *)

\* publish() iterates over arrays that others append to.  As long as there is
\* somebody it has to call, nothing was cleared, and what it has called is a
\* prefix of the universal handlers, or all of them followed by a prefix of the
\* handlers of the name (Progress).

Distinct(s) == \A i, j \in DOMAIN s : s[i] = s[j] => i = j

NameArray(e) == named[gen][NameOf[e]]

\* How many handlers of its array a publication has called.
Reached(p) == IF p.calling = None THEN p.at - 1 ELSE p.at

\* The calls c are m others and the first n handlers of s.
Continues(c, m, s, n) ==
  /\ n \in 0 .. Len(s)
  /\ Len(c) = m + n
  /\ \A i \in 1 .. n : c[m + i] = s[i]

\* The first m of the calls c were those of the universal handlers, among them
\* all that are expected.
Universals(c, m, subscribers) ==
  /\ m \in 0 .. Len(c)
  /\ \A i \in 1 .. m : c[i] \in Universal
  /\ \A i, j \in 1 .. m : c[i] = c[j] => i = j
  /\ \A h \in subscribers \cap Universal : \E i \in 1 .. m : c[i] = h

CalledOnce(c, subscribers) ==
  \A h \in subscribers :
    \E i \in DOMAIN c :
      /\ c[i] = h
      /\ \A j \in DOMAIN c :
           /\ c[j] = h => j = i
           /\ h \in Universal /\ c[j] \in subscribers \ Universal => i < j

Progress(e) ==
  /\ pub[e].phase = "universal" =>
       /\ expected[e] \subseteq Elements(universal) \cup Elements(NameArray(e))
       /\ Continues(calls[e], 0, universal, Reached(pub[e]))
  /\ pub[e].phase = "named" =>
       /\ pub[e].gen = gen
       /\ expected[e] \ Universal \subseteq Elements(NameArray(e))
       /\ \E m \in Nat : /\ Universals(calls[e], m, expected[e])
                         /\ Continues(calls[e], m, NameArray(e), Reached(pub[e]))
  /\ pub[e].phase = "done" => CalledOnce(calls[e], expected[e])

Untouched(e) ==
  pub[e].phase = "new" =>
    pub[e].at = 1 /\ pub[e].calling = None /\ calls[e] = <<>> /\ expected[e] = {}

\* The inductive invariant.
CallsInv ==
  /\ Distinct(universal)
  /\ \A g \in Generations, n \in Names : Distinct(named[g][n])
  /\ \A e \in Events : Untouched(e) /\ (expected[e] # {} => Progress(e))

-----------------------------------------------------------------------------
(* Arrays                                                                  *)

\* What appending a handler does to an array.
LEMMA Appended ==
  ASSUME NEW S, NEW s \in Seq(S), NEW h \in S
  PROVE  /\ Append(s, h) \in Seq(S)
         /\ Len(s) \in Nat /\ Len(Append(s, h)) = Len(s) + 1
         /\ \A i \in 1 .. Len(s) : Append(s, h)[i] = s[i]
         /\ Append(s, h)[Len(s) + 1] = h
         /\ Elements(s) \subseteq Elements(Append(s, h))
         /\ Distinct(s) /\ h \notin Elements(s) => Distinct(Append(s, h))
<1>1. /\ Append(s, h) \in Seq(S)
      /\ Len(s) \in Nat /\ Len(Append(s, h)) = Len(s) + 1
      /\ \A i \in 1 .. Len(s) : Append(s, h)[i] = s[i]
      /\ Append(s, h)[Len(s) + 1] = h
      /\ DOMAIN s = 1 .. Len(s) /\ DOMAIN Append(s, h) = 1 .. Len(s) + 1
  OBVIOUS
<1>2. Elements(s) \subseteq Elements(Append(s, h))
  BY <1>1 DEF Elements
<1>3. ASSUME Distinct(s), h \notin Elements(s)
      PROVE  Distinct(Append(s, h))
  <2>1. \A i \in 1 .. Len(s) : s[i] # h
    BY <1>1, <1>3 DEF Elements
  <2> QED
    BY <1>1, <1>3, <2>1 DEF Distinct
<1> QED
  BY <1>1, <1>2, <1>3

\* A publication that is at some place of an array stays there when handlers are
\* appended to it.
LEMMA ContinuesGrown ==
  ASSUME NEW S, NEW s \in Seq(S), NEW h \in S, NEW c, NEW m, NEW n,
         Continues(c, m, s, n)
  PROVE  Continues(c, m, Append(s, h), n)
<1>1. n \in 0 .. Len(Append(s, h))
  BY Appended DEF Continues
<1>2. \A i \in 1 .. n : Append(s, h)[i] = s[i]
  BY Appended DEF Continues
<1> QED
  BY <1>1, <1>2 DEF Continues

\* The publication calls the next handler.
LEMMA ContinuesCalled ==
  ASSUME NEW S, NEW s \in Seq(S), NEW c \in Seq(S), NEW m \in Nat, NEW n \in Nat,
         n < Len(s), Continues(c, m, s, n)
  PROVE  Continues(Append(c, s[n + 1]), m, s, n + 1)
<1>1. s[n + 1] \in S /\ Len(s) \in Nat
  OBVIOUS
<1>2. /\ Len(Append(c, s[n + 1])) = m + (n + 1)
      /\ \A i \in 1 .. m + n : Append(c, s[n + 1])[i] = c[i]
      /\ Append(c, s[n + 1])[m + n + 1] = s[n + 1]
  BY <1>1, Appended DEF Continues
<1>3. ASSUME NEW i \in 1 .. n + 1
      PROVE  Append(c, s[n + 1])[m + i] = s[i]
  <2>1. CASE i = n + 1
    BY <1>2, <2>1
  <2>2. CASE i # n + 1
    <3>1. i \in 1 .. n /\ m + i \in 1 .. m + n
      BY <2>2
    <3> QED
      BY <1>2, <3>1 DEF Continues
  <2> QED
    BY <2>1, <2>2
<1> QED
  BY <1>1, <1>2, <1>3 DEF Continues

\* Further calls leave the first ones alone.
LEMMA UniversalsCalled ==
  ASSUME NEW S, NEW c \in Seq(S), NEW h \in S, NEW m, NEW subscribers,
         Universals(c, m, subscribers)
  PROVE  Universals(Append(c, h), m, subscribers)
<1>1. m \in 0 .. Len(Append(c, h)) /\ \A i \in 1 .. m : Append(c, h)[i] = c[i]
  BY Appended DEF Universals
<1> QED
  BY <1>1 DEF Universals

\* The universal handlers are through.
LEMMA UniversalsDone ==
  ASSUME NEW s \in Seq(Universal), NEW c, NEW subscribers, Distinct(s),
         Continues(c, 0, s, Len(s)),
         subscribers \cap Universal \subseteq Elements(s)
  PROVE  Universals(c, Len(s), subscribers)
<1>1. Len(s) \in Nat /\ DOMAIN s = 1 .. Len(s) /\ Len(c) = Len(s)
      /\ \A i \in 1 .. Len(s) : c[i] = s[i] /\ s[i] \in Universal
  BY DEF Continues
<1> QED
  BY <1>1 DEF Universals, Distinct, Elements

\* So are those of the name: who was expected has been called once.
LEMMA NamedDone ==
  ASSUME NEW S, NEW s \in Seq(Handlers \ Universal), NEW c \in Seq(S), NEW m \in Nat,
         NEW subscribers, Distinct(s), Universals(c, m, subscribers),
         Continues(c, m, s, Len(s)), subscribers \ Universal \subseteq Elements(s)
  PROVE  CalledOnce(c, subscribers)
<1>1. /\ Len(s) \in Nat /\ DOMAIN s = 1 .. Len(s) /\ DOMAIN c = 1 .. m + Len(s)
      /\ \A i \in 1 .. m : c[i] \in Universal
      /\ \A i \in 1 .. Len(s) : c[m + i] = s[i] /\ s[i] \notin Universal
  BY DEF Continues, Universals
<1>2. ASSUME NEW j \in DOMAIN c
      PROVE  \/ j \in 1 .. m
             \/ \E i \in 1 .. Len(s) : j = m + i
  <2>1. CASE j > m
    <3>1. j - m \in 1 .. Len(s) /\ j = m + (j - m)
      BY <1>1, <2>1
    <3> QED
      BY <3>1
  <2> QED
    BY <1>1, <2>1
<1>3. ASSUME NEW h \in subscribers
      PROVE  \E i \in DOMAIN c :
               /\ c[i] = h
               /\ \A j \in DOMAIN c :
                    /\ c[j] = h => j = i
                    /\ h \in Universal /\ c[j] \in subscribers \ Universal => i < j
  <2>1. CASE h \in Universal
    <3>1. PICK i \in 1 .. m : c[i] = h
      BY <2>1 DEF Universals
    <3>2. ASSUME NEW j \in DOMAIN c
          PROVE  /\ c[j] = h => j = i
                 /\ c[j] \notin Universal => i < j
      BY <1>1, <1>2, <2>1, <3>1 DEF Universals
    <3>3. i \in DOMAIN c
      BY <1>1, <3>1
    <3> QED
      BY <3>1, <3>2, <3>3
  <2>2. CASE h \notin Universal
    <3>1. PICK k \in 1 .. Len(s) : s[k] = h
      BY <1>1, <2>2 DEF Elements
    <3>2. m + k \in DOMAIN c /\ c[m + k] = h
      BY <1>1, <3>1
    <3>3. ASSUME NEW j \in DOMAIN c, c[j] = h
          PROVE  j = m + k
      <4>1. PICK i \in 1 .. Len(s) : j = m + i
        BY <1>1, <1>2, <2>2, <3>3
      <4>2. i = k
        BY <1>1, <3>1, <3>3, <4>1 DEF Distinct
      <4> QED
        BY <4>1, <4>2
    <3> QED
      BY <2>2, <3>2, <3>3
  <2> QED
    BY <2>1, <2>2
<1> QED
  BY <1>3 DEF CalledOnce

-----------------------------------------------------------------------------
(* Steps                                                                   *)

\* The types that the steps need.
LEMMA Types ==
  ASSUME TypeOK
  PROVE  /\ universal \in Seq(Universal) /\ universal \in Seq(Handlers)
         /\ \A g \in Generations, n \in Names : named[g][n] \in Seq(Handlers \ Universal)
         /\ \A e \in Events :
              /\ NameArray(e) \in Seq(Handlers \ Universal)
              /\ NameOf[e] \in Names
              /\ pub[e].at \in Nat \ {0} /\ pub[e].gen \in Generations
              /\ pub[e].phase \in {"new", "universal", "named", "done"}
              /\ calls[e] \in Seq(Handlers) /\ expected[e] \subseteq Handlers
         /\ gen \in Generations
  BY ConstantsAssumption DEF TypeOK, Publications, NameArray

\* A publication that nobody touches goes on in arrays to which others are
\* appended.
LEMMA ProgressKept ==
  ASSUME TypeOK, NEW e \in Events, Progress(e),
         pub'[e] = pub[e], calls' = calls, expected' = expected, gen' = gen,
         \/ universal' = universal
         \/ \E h \in Universal : universal' = Append(universal, h),
         \/ NameArray(e)' = NameArray(e)
         \/ \E h \in Handlers \ Universal : NameArray(e)' = Append(NameArray(e), h)
  PROVE  Progress(e)'
<1>1. universal \in Seq(Universal) /\ NameArray(e) \in Seq(Handlers \ Universal)
  BY Types
<1>2. /\ Elements(universal) \subseteq Elements(universal')
      /\ Elements(NameArray(e)) \subseteq Elements(NameArray(e)')
  <2>1. ASSUME NEW h \in Universal, universal' = Append(universal, h)
        PROVE  Elements(universal) \subseteq Elements(universal')
    BY <1>1, <2>1, Appended
  <2>2. ASSUME NEW h \in Handlers \ Universal, NameArray(e)' = Append(NameArray(e), h)
        PROVE  Elements(NameArray(e)) \subseteq Elements(NameArray(e)')
    BY <1>1, <2>2, Appended
  <2> QED
    BY <2>1, <2>2
<1>3. ASSUME NEW n, Continues(calls[e], 0, universal, n)
      PROVE  Continues(calls[e], 0, universal', n)
  BY <1>1, <1>3, ContinuesGrown
<1>4. ASSUME NEW m, NEW n, Continues(calls[e], m, NameArray(e), n)
      PROVE  Continues(calls[e], m, NameArray(e)', n)
  BY <1>1, <1>4, ContinuesGrown
<1>5. /\ Elements(universal)' = Elements(universal')
      /\ Elements(NameArray(e))' = Elements(NameArray(e)')
  BY DEF Elements
<1> QED
  BY <1>2, <1>3, <1>4, <1>5 DEF Progress

\* A handler that is registered is in no array yet.
LEMMA RegistrationKeeps ==
  ASSUME TypeOK, CallsInv, NEW h \in Handlers,
         registerUniversalEventHandler(h) \/ registerEventHandler(h)
  PROVE  CallsInv'
<1> USE ConstantsAssumption
<1>1. /\ pub' = pub /\ calls' = calls /\ expected' = expected /\ gen' = gen
  BY DEF registerUniversalEventHandler, registerEventHandler
<1>2. CASE registerUniversalEventHandler(h)
  <2>1. /\ h \in Universal /\ h \notin Elements(universal)
        /\ universal' = Append(universal, h) /\ named' = named
    BY <1>2 DEF registerUniversalEventHandler, Registered
  <2>2. Distinct(universal')
    BY <2>1, Appended, Types DEF CallsInv
  <2>3. ASSUME NEW e \in Events
        PROVE  NameArray(e)' = NameArray(e)
    BY <1>1, <2>1 DEF NameArray
  <2>4. ASSUME NEW e \in Events, Progress(e)
        PROVE  Progress(e)'
    BY <1>1, <2>1, <2>3, <2>4, ProgressKept
  <2> QED
    BY <1>1, <2>1, <2>2, <2>4 DEF CallsInv, Untouched
<1>3. CASE registerEventHandler(h)
  <2>1. /\ h \in Handlers \ Universal /\ Subject[h] \in Names /\ gen \in Generations
        /\ h \notin Elements(named[gen][Subject[h]])
        /\ universal' = universal
        /\ named' = [named EXCEPT ![gen][Subject[h]] = Append(@, h)]
    BY <1>3, Types DEF registerEventHandler, Registered
  <2>2. ASSUME NEW g \in Generations, NEW n \in Names
        PROVE  named'[g][n] = IF g = gen /\ n = Subject[h] THEN Append(named[g][n], h)
                              ELSE named[g][n]
    BY <2>1 DEF TypeOK
  <2>3. ASSUME NEW g \in Generations, NEW n \in Names
        PROVE  Distinct(named'[g][n])
    BY <2>1, <2>2, Appended, Types DEF CallsInv
  <2>4. ASSUME NEW e \in Events
        PROVE  NameArray(e)' = NameArray(e) \/ NameArray(e)' = Append(NameArray(e), h)
    BY <1>1, <2>1, <2>2, Types DEF NameArray
  <2>5. ASSUME NEW e \in Events, Progress(e)
        PROVE  Progress(e)'
    BY <1>1, <2>1, <2>4, <2>5, ProgressKept
  <2> QED
    BY <1>1, <2>1, <2>3, <2>5 DEF CallsInv, Untouched
<1> QED
  BY <1>2, <1>3

\* A step of one publication leaves the others where they are.
LEMMA OthersKept ==
  ASSUME TypeOK, CallsInv, NEW e \in Events,
         UNCHANGED <<universal, named, gen>>,
         \A d \in Events \ {e} :
           pub'[d] = pub[d] /\ calls'[d] = calls[d] /\ expected'[d] = expected[d],
         Untouched(e)', expected'[e] # {} => Progress(e)'
  PROVE  CallsInv'
<1>1. ASSUME NEW d \in Events \ {e}
      PROVE  Untouched(d)' /\ (expected'[d] # {} => Progress(d)')
  BY DEF CallsInv, Untouched, Progress, NameArray
<1> QED
  BY <1>1 DEF CallsInv

\* publish: nobody was called yet.
LEMMA PublishKeeps ==
  ASSUME TypeOK, CallsInv, NEW e \in Events, publish(e)
  PROVE  CallsInv'
<1>1. /\ pub[e].phase = "new" /\ pub[e].at = 1 /\ pub[e].calling = None /\ calls[e] = <<>>
      /\ pub'[e].phase = "universal" /\ pub'[e].at = pub[e].at
      /\ pub'[e].calling = pub[e].calling
      /\ expected'[e] = Elements(universal) \cup Elements(NameArray(e))
      /\ calls' = calls /\ UNCHANGED <<universal, named, gen>>
      /\ \A d \in Events \ {e} : pub'[d] = pub[d] /\ expected'[d] = expected[d]
  BY DEF publish, CallsInv, Untouched, NameArray, TypeOK
<1>2. Reached(pub'[e]) = 0 /\ Len(universal) \in Nat
  BY <1>1, Types DEF Reached
<1>3. Progress(e)'
  BY <1>1, <1>2 DEF Progress, Continues, NameArray, Elements
<1> QED
  BY <1>1, <1>3, OthersKept DEF Untouched

\* CallHandler: the next of the array the publication is at.
LEMMA CallKeeps ==
  ASSUME TypeOK, CallsInv, NEW e \in Events, CallHandler(e)
  PROVE  CallsInv'
<1> DEFINE n == pub[e].at - 1
<1>1. /\ pub[e].phase \in {"universal", "named"} /\ pub[e].calling = None
      /\ pub'[e].phase = pub[e].phase /\ pub'[e].at = pub[e].at /\ pub'[e].gen = pub[e].gen
      /\ pub'[e].calling = Array(e)[n + 1]
      /\ calls'[e] = Append(calls[e], Array(e)[n + 1])
      /\ expected' = expected /\ UNCHANGED <<universal, named, gen>>
      /\ \A d \in Events \ {e} : pub'[d] = pub[d] /\ calls'[d] = calls[d]
      /\ n \in Nat /\ n + 1 = pub[e].at /\ n < Len(Array(e))
  BY Types, ArrayType DEF CallHandler, TypeOK, Publications
<1>2. Array(e)[n + 1] \in Handlers /\ Array(e)[n + 1] # None
  BY <1>1, ArrayType, ConstantsAssumption
<1>3. Reached(pub[e]) = n /\ Reached(pub'[e]) = n + 1
  BY <1>1, <1>2 DEF Reached
<1>4. Untouched(e)'
  BY <1>1 DEF Untouched
<1>5. ASSUME Progress(e)
      PROVE  Progress(e)'
  <2>1. CASE pub[e].phase = "universal"
    <3>1. Array(e) = universal
      BY <2>1 DEF Array
    <3>2. Continues(calls'[e], 0, universal, n + 1)
      <4>1. Continues(calls[e], 0, universal, n)
        BY <1>3, <1>5, <2>1 DEF Progress
      <4>2. /\ calls'[e] = Append(calls[e], universal[n + 1])
            /\ universal \in Seq(Handlers) /\ calls[e] \in Seq(Handlers)
            /\ n \in Nat /\ n < Len(universal)
        BY <1>1, <3>1, Types
      <4> HIDE DEF n
      <4>3. Continues(Append(calls[e], universal[n + 1]), 0, universal, n + 1)
        BY <4>1, <4>2, ContinuesCalled
      <4> QED
        BY <4>2, <4>3
    <3> QED
      BY <1>1, <1>3, <1>5, <2>1, <3>2 DEF Progress, NameArray, Elements
  <2>2. CASE pub[e].phase = "named"
    <3>1. Array(e) = NameArray(e)
      BY <1>5, <2>2 DEF Array, Progress, NameArray
    <3>2. PICK m \in Nat : /\ Universals(calls[e], m, expected[e])
                           /\ Continues(calls[e], m, NameArray(e), n)
      BY <1>3, <1>5, <2>2 DEF Progress
    <3>3. Continues(calls'[e], m, NameArray(e), n + 1)
      <4>1. NameArray(e) \in Seq(Handlers)
        BY <3>1, ArrayType
      <4> HIDE DEF n
      <4> QED
        BY <1>1, <3>1, <3>2, <4>1, Types, ContinuesCalled
    <3>4. Universals(calls'[e], m, expected[e])
      BY <1>1, <1>2, <3>2, Types, UniversalsCalled
    <3> QED
      BY <1>1, <1>3, <1>5, <2>2, <3>3, <3>4 DEF Progress, NameArray, Elements
  <2> QED
    BY <1>1, <2>1, <2>2
<1> QED
  BY <1>1, <1>4, <1>5, OthersKept DEF CallsInv

\* EndUniversal: all universal handlers of now were called.
LEMMA EndUniversalKeeps ==
  ASSUME TypeOK, CallsInv, NEW e \in Events, EndUniversal(e)
  PROVE  CallsInv'
<1>1. /\ pub[e].phase = "universal" /\ pub[e].calling = None /\ pub[e].at > Len(universal)
      /\ pub'[e] = [phase |-> "named", at |-> 1, gen |-> gen, calling |-> None]
      /\ UNCHANGED <<universal, named, gen, calls, expected>>
      /\ \A d \in Events \ {e} : pub'[d] = pub[d]
  BY DEF EndUniversal, TypeOK
<1>2. Untouched(e)'
  BY <1>1 DEF Untouched
<1>3. ASSUME Progress(e)
      PROVE  Progress(e)'
  <2>1. /\ expected[e] \subseteq Elements(universal) \cup Elements(NameArray(e))
        /\ Continues(calls[e], 0, universal, pub[e].at - 1)
    BY <1>1, <1>3 DEF Progress, Reached
  <2>2. pub[e].at - 1 = Len(universal) /\ Len(universal) \in Nat
    BY <1>1, <2>1, Types DEF Continues
  <2>3. /\ Elements(universal) \subseteq Universal
        /\ Elements(NameArray(e)) \cap Universal = {}
    BY Types DEF Elements
  <2>4. Universals(calls[e], Len(universal), expected[e])
    BY <2>1, <2>2, <2>3, Types, UniversalsDone DEF CallsInv
  <2>5. Continues(calls[e], Len(universal), NameArray(e), 0)
    BY <2>1, <2>2, Types DEF Continues
  <2>6. Reached(pub'[e]) = 0
    BY <1>1 DEF Reached
  <2> QED
    BY <1>1, <2>1, <2>2, <2>3, <2>4, <2>5, <2>6 DEF Progress, NameArray, Elements
<1> QED
  BY <1>1, <1>2, <1>3, OthersKept DEF CallsInv

\* EndNamed: and all those of the name.
LEMMA EndNamedKeeps ==
  ASSUME TypeOK, CallsInv, NEW e \in Events, EndNamed(e)
  PROVE  CallsInv'
<1>1. /\ pub[e].phase = "named" /\ pub[e].calling = None /\ pub[e].at > Len(Array(e))
      /\ pub'[e].phase = "done"
      /\ UNCHANGED <<universal, named, gen, calls, expected>>
      /\ \A d \in Events \ {e} : pub'[d] = pub[d]
  BY DEF EndNamed, TypeOK
<1>2. Untouched(e)'
  BY <1>1 DEF Untouched
<1>3. ASSUME Progress(e)
      PROVE  Progress(e)'
  <2>1. Array(e) = NameArray(e)
    BY <1>1, <1>3 DEF Array, Progress, NameArray
  <2>2. PICK m \in Nat : /\ Universals(calls[e], m, expected[e])
                         /\ Continues(calls[e], m, NameArray(e), pub[e].at - 1)
    BY <1>1, <1>3 DEF Progress, Reached
  <2>3. pub[e].at - 1 = Len(NameArray(e))
    BY <1>1, <2>1, <2>2, Types DEF Continues
  <2>4. Distinct(NameArray(e)) /\ expected[e] \ Universal \subseteq Elements(NameArray(e))
    BY <1>1, <1>3, Types DEF CallsInv, Progress, NameArray
  <2>5. CalledOnce(calls[e], expected[e])
    BY <2>2, <2>3, <2>4, Types, NamedDone
  <2> QED
    BY <1>1, <2>5 DEF Progress
<1> QED
  BY <1>1, <1>2, <1>3, OthersKept DEF CallsInv

\* HandlerSettled: the loop goes on after the handler, whether or not it threw.
LEMMA SettledKeeps ==
  ASSUME TypeOK, CallsInv, NEW e \in Events, NEW ok \in BOOLEAN, HandlerSettled(e, ok)
  PROVE  CallsInv'
<1>1. /\ pub[e].calling # None /\ pub'[e].calling = None /\ pub'[e].at = pub[e].at + 1
      /\ pub'[e].phase = pub[e].phase /\ pub'[e].gen = pub[e].gen
      /\ UNCHANGED <<universal, named, gen, calls, expected>>
      /\ \A d \in Events \ {e} : pub'[d] = pub[d]
  <2> DEFINE p == [pub[e] EXCEPT !.calling = None, !.at = @ + 1]
  <2>1. pub[e] \in Publications /\ pub[e].calling # None
        /\ pub' = [pub EXCEPT ![e] = p]
        /\ UNCHANGED <<universal, named, gen, calls, expected>>
    BY DEF HandlerSettled, TypeOK
  <2>2. p.calling = None /\ p.at = pub[e].at + 1 /\ p.phase = pub[e].phase
        /\ p.gen = pub[e].gen
    BY <2>1 DEF Publications
  <2> HIDE DEF p
  <2> QED
    BY <2>1, <2>2 DEF TypeOK
<1>2. Untouched(e)'
  BY <1>1 DEF CallsInv, Untouched
<1>3. Reached(pub'[e]) = Reached(pub[e])
  BY <1>1, Types DEF Reached
<1>4. ASSUME Progress(e)
      PROVE  Progress(e)'
  BY <1>1, <1>3, <1>4 DEF Progress, NameArray, Elements
<1> QED
  BY <1>1, <1>2, <1>4, OthersKept DEF CallsInv

-----------------------------------------------------------------------------
(* Theorem                                                                 *)

\* The calls of subscribers are accounted for in every reachable state.
LEMMA CallsInvCorrect == Spec => []CallsInv
<1>1. Init => CallsInv
  BY DEF Init, CallsInv, Distinct, Untouched, Generations
<1>2. TypeOK /\ CallsInv /\ [Next]_vars => CallsInv'
  <2> SUFFICES ASSUME TypeOK, CallsInv, [Next]_vars
               PROVE  CallsInv'
    OBVIOUS
  <2>1. ASSUME NEW h \in Handlers, registerUniversalEventHandler(h) \/ registerEventHandler(h)
        PROVE  CallsInv'
    BY <2>1, RegistrationKeeps
  <2>2. CASE clear
    BY <2>2 DEF clear, CallsInv, Untouched, Distinct
  <2>3. ASSUME NEW e \in Events,
               \/ publish(e) \/ CallHandler(e) \/ EndUniversal(e) \/ EndNamed(e)
               \/ \E ok \in BOOLEAN : HandlerSettled(e, ok)
        PROVE  CallsInv'
    BY <2>3, PublishKeeps, CallKeeps, EndUniversalKeeps, EndNamedKeeps, SettledKeeps
  <2>4. CASE UNCHANGED <<universal, named, gen, pub, calls, expected>>
    BY <2>4 DEF CallsInv, Untouched, Progress, NameArray, Elements
  <2>5. ASSUME NEW r \in Runs,
               \/ retryFailedEvents(r) \/ SkipFailedEvent(r) \/ RetryHandler(r)
               \/ \E ok \in BOOLEAN : RetrySettled(r, ok)
        PROVE  UNCHANGED <<universal, named, gen, pub, calls, expected>>
    BY <2>5 DEF retryFailedEvents, SkipFailedEvent, RetryHandler, RetrySettled
  <2>6. CASE UNCHANGED vars
    BY <2>4, <2>6 DEF vars
  <2> QED
    BY <2>1, <2>2, <2>3, <2>4, <2>5, <2>6 DEF Next
<1> QED
  BY <1>1, <1>2, TypeCorrect, PTL DEF Spec

\* However handlers fail, and whatever is registered and cleared at the awaits of
\* publish(), whoever was subscribed when it began and stayed so was called once.
THEOREM SubscribersCalled == Spec => []EverySubscriberIsCalledOnce
<1>1. CallsInv => EverySubscriberIsCalledOnce
  BY DEF CallsInv, Progress, CalledOnce, EverySubscriberIsCalledOnce
<1> QED
  BY <1>1, CallsInvCorrect, PTL

=============================================================================
