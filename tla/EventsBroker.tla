---------------------------- MODULE EventsBroker ----------------------------
(***************************************************************************)
(* The in-memory events broker: publish() awaits the universal handlers,   *)
(* then the handlers of the event's name, and stores a failed event for    *)
(* each that throws; a scheduled job retries the failed events until they  *)
(* succeed or reach the handler's number of retries.                       *)
(*                                                                         *)
(* Publications and runs of the job interleave at every await.  The job    *)
(* fires on an interval that does not wait for the previous run, and all   *)
(* runs work on the very objects the repository holds.  Handlers may be    *)
(* registered, and all of them cleared, while a publication is under way.  *)
(***************************************************************************)
EXTENDS Integers, Sequences, FiniteSets

CONSTANTS
  Events,            \* the events that are published, each once
  Names,             \* event names
  NameOf,            \* NameOf[e]: the name of event e
  Handlers,          \* handler ids
  Universal,         \* the handlers registered for all events
  Subject,           \* Subject[h]: the event name another handler is for
  Retries,           \* Retries[h]: config().retries ?? 0 of h
  Runs,              \* runs of the retry job that may be in flight at once
  MaxClears,         \* bound: how often the broker is cleared
  None               \* no handler

ASSUME ConstantsAssumption ==
  /\ NameOf \in [Events -> Names]
  /\ Universal \subseteq Handlers
  /\ Subject \in [Handlers \ Universal -> Names]
  /\ Retries \in [Handlers -> Nat]
  /\ IsFiniteSet(Runs)
  /\ MaxClears \in Nat
  /\ None \notin Handlers

VARIABLES
  universal,   \* universalEventHandlers
  named,       \* named[g]: the arrays of eventHandlers after the g-th clear;
               \* a publication keeps iterating over the array it got
  gen,         \* how often the broker was cleared
  pub,         \* pub[e]: where the publication of e is
  failed,      \* the failed events, in the order they were stored
  run,         \* run[r]: what a run of the job still has to do
  calls,       \* history: the handlers publish(e) called
  expected     \* history: the handlers subscribed to e when publish(e) began,
               \* as long as they stay so

vars == <<universal, named, gen, pub, failed, run, calls, expected>>

-----------------------------------------------------------------------------

Elements(s) == {s[i] : i \in DOMAIN s}

Generations == 0 .. MaxClears

Publications ==
  [phase : {"new", "universal", "named", "done"},
   at : Nat \ {0}, gen : Generations, calling : Handlers \cup {None}]

\* successes counts the retries that succeeded; it is history.
FailedEvents ==
  [event : Events, handler : Handlers, retries : Nat,
   processedSuccessfully : BOOLEAN, successes : Nat]

\* todo: indices of failed events still to retry; at: the one being retried.
RunStates == [todo : SUBSET (Nat \ {0}), at : Nat]

TypeOK ==
  /\ universal \in Seq(Universal)
  /\ named \in [Generations -> [Names -> Seq(Handlers \ Universal)]]
  /\ gen \in Generations
  /\ pub \in [Events -> Publications]
  /\ failed \in Seq(FailedEvents)
  /\ run \in [Runs -> RunStates]
  /\ \A r \in Runs : /\ run[r].todo \subseteq DOMAIN failed
                     /\ run[r].at # 0 => run[r].at \in DOMAIN failed
  /\ calls \in [Events -> Seq(Handlers)]
  /\ expected \in [Events -> SUBSET Handlers]

Init ==
  /\ universal = <<>>
  /\ named = [g \in Generations |-> [n \in Names |-> <<>>]]
  /\ gen = 0
  /\ pub = [e \in Events |-> [phase |-> "new", at |-> 1, gen |-> 0, calling |-> None]]
  /\ failed = <<>>
  /\ run = [r \in Runs |-> [todo |-> {}, at |-> 0]]
  /\ calls = [e \in Events |-> <<>>]
  /\ expected = [e \in Events |-> {}]

-----------------------------------------------------------------------------
(* Registration                                                            *)

Registered ==
  Elements(universal) \cup UNION {Elements(named[gen][n]) : n \in Names}

\* Registering a handler again throws.
registerUniversalEventHandler(h) ==
  /\ h \in Universal \ Registered
  /\ universal' = Append(universal, h)
  /\ UNCHANGED <<named, gen, pub, failed, run, calls, expected>>

registerEventHandler(h) ==
  /\ h \in (Handlers \ Universal) \ Registered
  /\ named' = [named EXCEPT ![gen][Subject[h]] = Append(@, h)]
  /\ UNCHANGED <<universal, gen, pub, failed, run, calls, expected>>

\* The universal array is emptied in place, the map of the others forgets its
\* arrays.
clear ==
  /\ gen < MaxClears
  /\ gen' = gen + 1
  /\ universal' = <<>>
  /\ expected' = [e \in Events |-> {}]
  /\ UNCHANGED <<named, pub, failed, run, calls>>

-----------------------------------------------------------------------------
(* Publication                                                             *)

\* The handlers of the array the publication is iterating over.
Array(e) == IF pub[e].phase = "universal" THEN universal
                                          ELSE named[pub[e].gen][NameOf[e]]

publish(e) ==
  /\ pub[e].phase = "new"
  /\ pub' = [pub EXCEPT ![e].phase = "universal"]
  /\ expected' = [expected EXCEPT ![e] =
                    Elements(universal) \cup Elements(named[gen][NameOf[e]])]
  /\ UNCHANGED <<universal, named, gen, failed, run, calls>>

\* The loop reaches the next handler and awaits it.
CallHandler(e) ==
  /\ pub[e].phase \in {"universal", "named"}
  /\ pub[e].calling = None
  /\ pub[e].at <= Len(Array(e))
  /\ pub' = [pub EXCEPT ![e].calling = Array(e)[pub[e].at]]
  /\ calls' = [calls EXCEPT ![e] = Append(@, Array(e)[pub[e].at])]
  /\ UNCHANGED <<universal, named, gen, failed, run, expected>>

\* The universal handlers are through: the loop over the handlers registered
\* for the name by now begins.
EndUniversal(e) ==
  /\ pub[e].phase = "universal"
  /\ pub[e].calling = None
  /\ pub[e].at > Len(universal)
  /\ pub' = [pub EXCEPT ![e] = [phase |-> "named", at |-> 1, gen |-> gen, calling |-> None]]
  /\ UNCHANGED <<universal, named, gen, failed, run, calls, expected>>

EndNamed(e) ==
  /\ pub[e].phase = "named"
  /\ pub[e].calling = None
  /\ pub[e].at > Len(Array(e))
  /\ pub' = [pub EXCEPT ![e].phase = "done"]
  /\ UNCHANGED <<universal, named, gen, failed, run, calls, expected>>

FailedEvent(e, h) ==
  [event |-> e, handler |-> h, retries |-> 0,
   processedSuccessfully |-> FALSE, successes |-> 0]

\* Mutant: nothing catches what a handler throws.
HandlerSettled_Rethrows(e, ok) ==
  /\ pub[e].calling # None
  /\ pub' = [pub EXCEPT ![e].calling = None, ![e].at = @ + 1,
                        ![e].phase = IF ok THEN @ ELSE "done"]
  /\ UNCHANGED <<universal, named, gen, failed, run, calls, expected>>

\* The handler returned (ok) or threw; then a failed event is stored.
HandlerSettled(e, ok) ==
  /\ pub[e].calling # None
  /\ pub' = [pub EXCEPT ![e].calling = None, ![e].at = @ + 1]
  /\ failed' = IF ok THEN failed ELSE Append(failed, FailedEvent(e, pub[e].calling))
  /\ UNCHANGED <<universal, named, gen, run, calls, expected>>

-----------------------------------------------------------------------------
(* Retries                                                                 *)

\* Mutant: the comparison lets the last retry happen once more.
CanRetry_OffByOne(f) == ~f.processedSuccessfully /\ f.retries <= Retries[f.handler]

\* Mutant: events that were processed are retried too.
CanRetry_Processed(f) == f.retries < Retries[f.handler]

CanRetry(f) == ~f.processedSuccessfully /\ f.retries < Retries[f.handler]

findAllUnsuccessfullWithRetriesLessThanMax == {i \in DOMAIN failed : CanRetry(failed[i])}

\* The job fires.  A run that finds nothing to retry changes nothing.
retryFailedEvents(r) ==
  /\ run[r] = [todo |-> {}, at |-> 0]
  /\ findAllUnsuccessfullWithRetriesLessThanMax # {}
  /\ run' = [run EXCEPT ![r].todo = findAllUnsuccessfullWithRetriesLessThanMax]
  /\ UNCHANGED <<universal, named, gen, pub, failed, calls, expected>>

\* The list is worked through in the order the failed events were stored.
First(r, i) == i \in run[r].todo /\ \A j \in run[r].todo : i <= j

\* Mutant: the universal handlers are not looked up.
Lookup_NoUniversal(f) == f.handler \in Elements(named[gen][NameOf[f.event]])

\* The handler is looked up in the current registrations: first those for the
\* event's name, then the universal ones.
Lookup(f) == f.handler \in Elements(named[gen][NameOf[f.event]]) \cup Elements(universal)

SkipFailedEvent(r) ==
  /\ run[r].at = 0
  /\ \E i \in run[r].todo :
       /\ First(r, i)
       /\ ~Lookup(failed[i])
       /\ run' = [run EXCEPT ![r].todo = @ \ {i}]
  /\ UNCHANGED <<universal, named, gen, pub, failed, calls, expected>>

\* The retry is counted before the handler is awaited, whatever other runs did
\* with the failed event since it was listed.
RetryHandler(r) ==
  /\ run[r].at = 0
  /\ \E i \in run[r].todo :
       /\ First(r, i)
       /\ Lookup(failed[i])
       /\ run' = [run EXCEPT ![r] = [todo |-> @.todo \ {i}, at |-> i]]
       /\ failed' = [failed EXCEPT ![i].retries = @ + 1]
  /\ UNCHANGED <<universal, named, gen, pub, calls, expected>>

Succeeded(f) == [f EXCEPT !.processedSuccessfully = TRUE, !.successes = @ + 1]

RetrySettled(r, ok) ==
  /\ run[r].at # 0
  /\ failed' = IF ok THEN [failed EXCEPT ![run[r].at] = Succeeded(@)] ELSE failed
  /\ run' = [run EXCEPT ![r].at = 0]
  /\ UNCHANGED <<universal, named, gen, pub, calls, expected>>

-----------------------------------------------------------------------------

Next ==
  \/ \E h \in Handlers : registerUniversalEventHandler(h) \/ registerEventHandler(h)
  \/ clear
  \/ \E e \in Events :
       \/ publish(e) \/ CallHandler(e) \/ EndUniversal(e) \/ EndNamed(e)
       \/ \E ok \in BOOLEAN : HandlerSettled(e, ok)
  \/ \E r \in Runs :
       \/ retryFailedEvents(r) \/ SkipFailedEvent(r) \/ RetryHandler(r)
       \/ \E ok \in BOOLEAN : RetrySettled(r, ok)

Spec == Init /\ [][Next]_vars

\* The event loop resumes every continuation, the interval keeps firing and
\* (an assumption about the handlers) every handler settles.
Fairness ==
  /\ \A e \in Events :
       /\ WF_vars(CallHandler(e))
       /\ WF_vars(EndUniversal(e))
       /\ WF_vars(EndNamed(e))
       /\ WF_vars(\E ok \in BOOLEAN : HandlerSettled(e, ok))
  /\ \A r \in Runs :
       /\ WF_vars(SkipFailedEvent(r))
       /\ WF_vars(RetryHandler(r))
       /\ WF_vars(\E ok \in BOOLEAN : RetrySettled(r, ok))
  /\ WF_vars(\E r \in Runs : retryFailedEvents(r))

FairSpec == Spec /\ Fairness

-----------------------------------------------------------------------------
(* Properties                                                              *)

\* A handler that asked for no retries is never retried; the others at most as
\* often as they asked for, plus once for each further run of the job that may
\* have listed the failed event before the last retry was counted.
RetriesAreBounded ==
  \A i \in DOMAIN failed :
    LET max == Retries[failed[i].handler]
    IN failed[i].retries <= IF max = 0 THEN 0 ELSE max + Cardinality(Runs) - 1

\* A failed event is processed successfully at most once per overlapping run:
\* after the first success no later run picks it up again.
SuccessesAreBounded ==
  \A i \in DOMAIN failed : failed[i].successes <= Cardinality(Runs)

\* Overlapping runs of the job cost a failed event at most one call each beyond
\* what its handler asked for, and one success each.
CallsAreBounded == RetriesAreBounded /\ SuccessesAreBounded

\* When a publication is done, each handler that was subscribed when it began
\* was called exactly once, the universal ones first, whichever of the others
\* threw and whatever was registered meanwhile.
EverySubscriberIsCalledOnce ==
  \A e \in Events : pub[e].phase = "done" =>
    \A h \in expected[e] :
      \E i \in DOMAIN calls[e] :
        /\ calls[e][i] = h
        /\ \A j \in DOMAIN calls[e] :
             /\ calls[e][j] = h => j = i
             /\ h \in Universal /\ calls[e][j] \in expected[e] \ Universal => i < j

\* Every failed event whose handler is registered is eventually processed or
\* has used up its retries.
EventuallyNothingToRetry ==
  <>[](\A i \in DOMAIN failed :
         failed[i].handler \in Registered =>
           failed[i].processedSuccessfully \/ failed[i].retries >= Retries[failed[i].handler])

=============================================================================
