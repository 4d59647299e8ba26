-------------------------- MODULE NodeNativeBroker --------------------------
(***************************************************************************)
(* The events broker on node's EventEmitter: publish() emits, which calls  *)
(* all the handlers at once and awaits none of them.  Each settles on its  *)
(* own later and, if it throws, stores a failed event; a scheduled job     *)
(* retries these, in runs that do not wait for one another.  clear()       *)
(* removes the listeners but not what is under way or stored.              *)
(*                                                                         *)
(* A handler is registered at most once at a time, the ones that are       *)
(* disabled not at all.  In which order a run works through its list makes *)
(* no difference to what is claimed here and is left open.                 *)
(***************************************************************************)
EXTENDS Integers

CONSTANTS
  Events,        \* the events that are published, each once
  Handlers,      \* the handlers subscribed to them, by name or as universal ones
  Retries,       \* Retries[h]: config().retries ?? 0 of h
  Runs,          \* runs of the retry job that may be in flight at once
  None           \* nothing

Pairs == Events \X Handlers

ASSUME ConstantsAssumption ==
  /\ Retries \in [Handlers -> Nat]
  /\ None \notin Pairs

VARIABLES
  handlers,      \* the handlers registered: listeners and eventHandlers
  called,        \* the pairs <<e, h>> of which publish(e) called h
  running,       \* those of them whose first call has not settled
  failures,      \* those that have a failed event in the repository
  retries,       \* retries[p]: `retries` of p's failed event
  processed,     \* those whose failed event is processedSuccessfully
  todo,          \* todo[r]: the failed events that run r listed and has still to do
  at             \* at[r]: the one it awaits the handler of

vars == <<handlers, called, running, failures, retries, processed, todo, at>>

TypeOK ==
  /\ handlers \subseteq Handlers
  /\ called \subseteq Pairs
  /\ running \subseteq called
  /\ failures \subseteq called \ running
  /\ retries \in [Pairs -> Nat]
  /\ processed \subseteq failures
  /\ todo \in [Runs -> SUBSET failures]
  /\ at \in [Runs -> failures \cup {None}]

Init ==
  /\ handlers = {} /\ called = {} /\ running = {}
  /\ failures = {} /\ processed = {}
  /\ retries = [p \in Pairs |-> 0]
  /\ todo = [r \in Runs |-> {}]
  /\ at = [r \in Runs |-> None]

-----------------------------------------------------------------------------

registerEventHandler(h) ==
  /\ h \notin handlers
  /\ handlers' = handlers \cup {h}
  /\ UNCHANGED <<called, running, failures, retries, processed, todo, at>>

clear ==
  /\ handlers' = {}
  /\ UNCHANGED <<called, running, failures, retries, processed, todo, at>>

publish(e) ==
  /\ \A h \in Handlers : <<e, h>> \notin called
  /\ called' = called \cup ({e} \X handlers)
  /\ running' = running \cup ({e} \X handlers)
  /\ UNCHANGED <<handlers, failures, retries, processed, todo, at>>

HandlerSucceeds(p) ==
  /\ p \in running
  /\ running' = running \ {p}
  /\ UNCHANGED <<handlers, called, failures, retries, processed, todo, at>>

HandlerFails(p) ==
  /\ p \in running
  /\ running' = running \ {p}
  /\ failures' = failures \cup {p}
  /\ UNCHANGED <<handlers, called, retries, processed, todo, at>>

-----------------------------------------------------------------------------
(* retryFailedEvents                                                       *)

\* findAllUnsuccessfullWithRetriesLessThanMax
CanRetry(p) == p \in failures \ processed /\ retries[p] < Retries[p[2]]

\* Mutant: events that were retried once are not listed again.
retryFailedEvents_New(r) ==
  /\ todo[r] = {} /\ at[r] = None
  /\ \E p \in Pairs : CanRetry(p) /\ retries[p] = 0
  /\ todo' = [todo EXCEPT ![r] = {p \in Pairs : CanRetry(p) /\ retries[p] = 0}]
  /\ UNCHANGED <<handlers, called, running, failures, retries, processed, at>>

\* A run that finds nothing changes nothing.
retryFailedEvents(r) ==
  /\ todo[r] = {} /\ at[r] = None
  /\ \E p \in Pairs : CanRetry(p)
  /\ todo' = [todo EXCEPT ![r] = {p \in Pairs : CanRetry(p)}]
  /\ UNCHANGED <<handlers, called, running, failures, retries, processed, at>>

SkipFailedEvent(r, p) ==
  /\ at[r] = None /\ p \in todo[r]
  /\ p[2] \notin handlers
  /\ todo' = [todo EXCEPT ![r] = @ \ {p}]
  /\ UNCHANGED <<handlers, called, running, failures, retries, processed, at>>

\* The retry is counted before the handler is awaited.
RetryHandler(r, p) ==
  /\ at[r] = None /\ p \in todo[r]
  /\ p[2] \in handlers
  /\ todo' = [todo EXCEPT ![r] = @ \ {p}]
  /\ at' = [at EXCEPT ![r] = p]
  /\ retries' = [retries EXCEPT ![p] = @ + 1]
  /\ UNCHANGED <<handlers, called, running, failures, processed>>

\* Mutant: the outcome of the last retry decides.
RetrySettled_Last(r, ok) ==
  /\ at[r] # None
  /\ processed' = IF ok THEN processed \cup {at[r]} ELSE processed \ {at[r]}
  /\ at' = [at EXCEPT ![r] = None]
  /\ UNCHANGED <<handlers, called, running, failures, retries, todo>>

\* A failure leaves processedSuccessfully as another run may have set it.
RetrySettled(r, ok) ==
  /\ at[r] # None
  /\ processed' = IF ok THEN processed \cup {at[r]} ELSE processed
  /\ at' = [at EXCEPT ![r] = None]
  /\ UNCHANGED <<handlers, called, running, failures, retries, todo>>

-----------------------------------------------------------------------------

Settle(p) == HandlerSucceeds(p) \/ HandlerFails(p)

Resume(r) ==
  \/ \E p \in Pairs : SkipFailedEvent(r, p) \/ RetryHandler(r, p)
  \/ \E ok \in BOOLEAN : RetrySettled(r, ok)

Next ==
  \/ \E h \in Handlers : registerEventHandler(h)
  \/ clear
  \/ \E e \in Events : publish(e)
  \/ \E p \in Pairs : Settle(p)
  \/ \E r \in Runs : retryFailedEvents(r) \/ Resume(r)

Spec == Init /\ [][Next]_vars

\* Handlers settle (an assumption about them), runs go on and the job fires
\* again and again.
Fairness ==
  /\ WF_vars(\E p \in Pairs : Settle(p))
  /\ \A r \in Runs : WF_vars(Resume(r))
  /\ WF_vars(\E r \in Runs : retryFailedEvents(r))

-----------------------------------------------------------------------------
(* What of this the subscribers see                                        *)

Handled == processed \cup (called \ (running \cup failures))

\* A run that has listed a failed event may still retry it.
Pending(p) ==
  \/ p \in running
  \/ CanRetry(p)
  \/ \E r \in Runs : p \in todo[r] \/ at[r] = p

status ==
  [p \in Pairs |->
     IF p \notin called THEN "none"
     ELSE IF p \in Handled THEN "handled"
     ELSE IF Pending(p) THEN "owed" ELSE "exhausted"]

attempts == [p \in Pairs |-> IF p \in called THEN 1 + retries[p] ELSE 0]

D == INSTANCE Delivery

-----------------------------------------------------------------------------
(* Properties                                                              *)

\* Whatever the order in which handlers settle, however many runs overlap, and
\* though all handlers may be cleared and registered again under way, the broker
\* is a delivery: no failure is lost or undoes a success, and no event is given
\* up before it was retried as often as its handler asks for.
ImplementsDelivery == D!Spec

\* An event owed to a handler that stays registered is in the end handled or
\* given up.
OwedIsSettled ==
  \A e \in Events, h \in Handlers :
    (status[<<e, h>>] = "owed") ~> (status[<<e, h>>] # "owed" \/ h \notin handlers)

=============================================================================
