--------------------------- MODULE BrokersProofs ---------------------------
(***************************************************************************)
(* The two brokers that call handlers concurrently, for any events,        *)
(* handlers, retries, runs and number of lost connections.                 *)
(*                                                                         *)
(* The broker on node's EventEmitter keeps its types and implements        *)
(* Delivery: TypeOK is inductive, and the refinement needs one more fact,  *)
(* that nothing was retried before it failed.  Each action is looked at at *)
(* the one pair it touches: what is owed to all others stays as it is.     *)
(*                                                                         *)
(* The broker on RabbitMQ keeps its one connection and channel known.      *)
(* What is known is inductive only with OneConnects and OneChannel: while  *)
(* no two calls have overlapped only one is connecting, and while no       *)
(* connection was lost no second channel takes the place of the one that   *)
(* calls and consumers are on.                                             *)
(***************************************************************************)
EXTENDS Brokers, TLAPS

\* A failed event that is pending no more has used up its retries.
LEMMA NotPending ==
  ASSUME TypeOK, NEW p \in failures \ processed, ~Pending(p)
  PROVE  retries[p] \in Nat /\ Retries[p[2]] \in Nat /\ 1 + retries[p] > Retries[p[2]]
<1>1. p \in Pairs
  BY DEF TypeOK
<1>2. retries[p] \in Nat /\ Retries[p[2]] \in Nat
  BY <1>1, ConstantsAssumption DEF TypeOK, Pairs
<1>3. ~(retries[p] < Retries[p[2]])
  BY DEF Pending, CanRetry
<1> QED
  BY <1>2, <1>3

-----------------------------------------------------------------------------
(* Types                                                                   *)

\* The sets of pairs stay in the order called > running, failures > processed,
\* and runs refer to failed events that are stored.
THEOREM TypeCorrect == Spec => []TypeOK
<1>1. Init => TypeOK
  BY DEF Init, TypeOK
<1>2. TypeOK /\ [Next]_vars => TypeOK'
  <2> SUFFICES ASSUME TypeOK, [Next]_vars
               PROVE  TypeOK'
    OBVIOUS
  <2>1. ASSUME NEW h \in Handlers, registerEventHandler(h)
        PROVE  TypeOK'
    BY <2>1 DEF TypeOK, registerEventHandler
  <2>2. CASE clear
    BY <2>2 DEF TypeOK, clear
  <2>3. ASSUME NEW e \in Events, publish(e)
        PROVE  TypeOK'
    <3>1. ({e} \X handlers) \subseteq Pairs
      BY DEF TypeOK, Pairs
    <3>2. failures \cap ({e} \X handlers) = {}
      BY <2>3 DEF TypeOK, publish
    <3> QED
      BY <2>3, <3>1, <3>2 DEF TypeOK, publish
  <2>4. ASSUME NEW p \in Pairs, HandlerSucceeds(p)
        PROVE  TypeOK'
    BY <2>4 DEF TypeOK, HandlerSucceeds
  <2>5. ASSUME NEW p \in Pairs, HandlerFails(p)
        PROVE  TypeOK'
    BY <2>5 DEF TypeOK, HandlerFails
  <2>6. ASSUME NEW r \in Runs, retryFailedEvents(r)
        PROVE  TypeOK'
    <3>1. {p \in Pairs : CanRetry(p)} \in SUBSET failures
      BY DEF CanRetry
    <3> QED
      BY <2>6, <3>1 DEF TypeOK, retryFailedEvents
  <2>7. ASSUME NEW r \in Runs, NEW p \in Pairs, SkipFailedEvent(r, p)
        PROVE  TypeOK'
    BY <2>7 DEF TypeOK, SkipFailedEvent
  <2>8. ASSUME NEW r \in Runs, NEW p \in Pairs, RetryHandler(r, p)
        PROVE  TypeOK'
    <3>1. retries[p] + 1 \in Nat
      BY DEF TypeOK
    <3> QED
      BY <2>8, <3>1 DEF TypeOK, RetryHandler
  <2>9. ASSUME NEW r \in Runs, NEW ok \in BOOLEAN, RetrySettled(r, ok)
        PROVE  TypeOK'
    BY <2>9 DEF TypeOK, RetrySettled
  <2>10. CASE UNCHANGED vars
    BY <2>10 DEF TypeOK, vars
  <2> QED
    BY <2>1, <2>2, <2>3, <2>4, <2>5, <2>6, <2>7, <2>8, <2>9, <2>10
    DEF Next, Settle, Resume
<1> QED
  BY <1>1, <1>2, PTL DEF Spec

\* What has no failed event was never retried.
FreshOK == \A p \in Pairs \ failures : retries[p] = 0

\* Node-native: and so it stays.
LEMMA FreshCorrect == Spec => []FreshOK
<1>1. Init => FreshOK
  BY DEF Init, FreshOK
<1>2. TypeOK /\ FreshOK /\ [Next]_vars => FreshOK'
  <2> SUFFICES ASSUME TypeOK, FreshOK, [Next]_vars
               PROVE  FreshOK'
    OBVIOUS
  <2>1. CASE UNCHANGED <<failures, retries>>
    BY <2>1 DEF FreshOK
  <2>2. ASSUME NEW p \in Pairs, HandlerFails(p)
        PROVE  FreshOK'
    BY <2>2 DEF FreshOK, HandlerFails
  <2>3. ASSUME NEW r \in Runs, NEW p \in Pairs, RetryHandler(r, p)
        PROVE  FreshOK'
    <3>1. p \in failures
      BY <2>3 DEF RetryHandler, TypeOK
    <3>2. \A q \in Pairs \ {p} : retries'[q] = retries[q]
      BY <2>3 DEF RetryHandler, TypeOK
    <3> QED
      BY <2>3, <3>1, <3>2 DEF FreshOK, RetryHandler
  <2> QED
    BY <2>1, <2>2, <2>3
    DEF Next, Settle, Resume, vars, registerEventHandler, clear, publish, HandlerSucceeds,
        retryFailedEvents, SkipFailedEvent, RetrySettled
<1> QED
  BY <1>1, <1>2, TypeCorrect, PTL DEF Spec

-----------------------------------------------------------------------------
(* What the subscribers see of a step                                      *)

\* If called, Handled and Pending keep their values, so does what is owed.
LEMMA NothingSeen ==
  ASSUME called' = called, Handled' = Handled, retries' = retries,
         \A q \in Pairs : Pending(q)' <=> Pending(q)
  PROVE  UNCHANGED D!vars
BY DEF D!vars, status, attempts

\* A step that changes nothing but what is owed of one pair, which it owed
\* before, handles or gives up that pair or is not seen.
LEMMA OnePairSeen ==
  ASSUME NEW p \in Pairs, p \in called, called' = called, retries' = retries,
         Handled' \ {p} = Handled \ {p}, p \in Handled => p \in Handled',
         \A q \in Pairs \ {p} : Pending(q)' <=> Pending(q),
         Pending(p),
         p \in Handled' \/ Pending(p)' \/ attempts[p] > Retries[p[2]]
  PROVE  [D!Next]_D!vars
<1>1. attempts' = attempts
  BY DEF attempts
<1>2. \A q \in Pairs \ {p} : status'[q] = status[q]
  BY DEF status
<1>3. status = [q \in Pairs |-> status[q]] /\ status' = [q \in Pairs |-> status'[q]]
  BY DEF status
<1>4. CASE status'[p] = status[p]
  BY <1>1, <1>2, <1>3, <1>4 DEF D!vars
<1>5. CASE p \in Handled' /\ p \notin Handled
  <2>1. status[p] = "owed" /\ status'[p] = "handled"
    BY <1>5 DEF status
  <2>2. status' = [status EXCEPT ![p] = "handled"]
    BY <1>2, <1>3, <2>1
  <2>3. D!Handle(p)
    BY <1>1, <2>1, <2>2 DEF D!Handle
  <2> QED
    BY <2>3 DEF D!Next, D!Pairs, Pairs
<1>6. CASE p \notin Handled' /\ ~Pending(p)'
  <2>1. status[p] = "owed" /\ status'[p] = "exhausted"
    BY <1>6 DEF status
  <2>2. status' = [status EXCEPT ![p] = "exhausted"]
    BY <1>2, <1>3, <2>1
  <2>3. D!GiveUp(p)
    BY <1>1, <1>6, <2>1, <2>2 DEF D!GiveUp
  <2> QED
    BY <2>3 DEF D!Next, D!Pairs, Pairs
<1>7. p \in Handled \/ (p \notin Handled' /\ Pending(p)') => status'[p] = status[p]
  BY DEF status
<1> QED
  BY <1>4, <1>5, <1>6, <1>7

-----------------------------------------------------------------------------
(* Refinement                                                              *)

\* Node-native: it starts as the delivery of events does.
LEMMA InitRefines == Init => D!Init
<1> SUFFICES ASSUME Init PROVE D!Init
  OBVIOUS
<1>1. called = {}
  BY DEF Init
<1>2. status = [p \in Pairs |-> "none"] /\ attempts = [p \in Pairs |-> 0]
  BY <1>1 DEF status, attempts
<1> QED
  BY <1>2 DEF D!Init, D!Pairs, Pairs

\* Node-native: publish is a publish of the delivery, or nothing new to it.
LEMMA PublishRefines ==
  ASSUME TypeOK, FreshOK, NEW e \in Events, publish(e)
  PROVE  D!Publish(e)
<1> DEFINE calling == {e} \X handlers
<1>1. calling \subseteq Pairs /\ calling \cap called = {}
  BY DEF TypeOK, Pairs, publish
<1>2. called' = called \cup calling /\ running' = running \cup calling
  BY DEF publish
<1>3. UNCHANGED <<failures, retries, processed, todo, at>>
  BY DEF publish
<1>4. retries \in [Pairs -> Nat] /\ processed \subseteq failures /\ failures \subseteq called
  BY DEF TypeOK
<1>5. handlers \in SUBSET Handlers /\ \A h \in Handlers : <<e, h>> \in Pairs \ called
  BY DEF TypeOK, Pairs, publish
<1> HIDE DEF calling
<1>6. Handled' = Handled
  BY <1>1, <1>2, <1>3, <1>4 DEF Handled
<1>7. \A q \in Pairs \ calling : Pending(q)' <=> Pending(q)
  BY <1>2, <1>3 DEF Pending, CanRetry
<1>8. \A q \in calling : status'[q] = "owed"
  <2> SUFFICES ASSUME NEW q \in calling PROVE status'[q] = "owed"
    OBVIOUS
  <2>1. q \in Pairs /\ q \notin called /\ q \in called' /\ q \in running'
    BY <1>1, <1>2
  <2>2. q \notin Handled'
    BY <1>3, <1>4, <2>1 DEF Handled
  <2>3. Pending(q)'
    BY <2>1 DEF Pending
  <2> QED
    BY <2>1, <2>2, <2>3 DEF status
<1>9. \A q \in Pairs \ calling : status'[q] = status[q]
  BY <1>2, <1>6, <1>7 DEF status
<1>10. status' = [q \in Pairs |-> IF q \in calling THEN "owed" ELSE status[q]]
  <2>1. status' = [q \in Pairs |-> status'[q]]
    BY DEF status
  <2> QED
    BY <1>8, <1>9, <2>1
<1>11. attempts' = [q \in Pairs |-> IF q \in calling THEN 1 ELSE attempts[q]]
  <2>1. \A q \in calling : retries[q] = 0
    BY <1>1, <1>4 DEF FreshOK
  <2> QED
    BY <1>1, <1>2, <1>3, <2>1 DEF attempts
<1>12. \A h \in Handlers : status[<<e, h>>] = "none"
  BY <1>5 DEF status
<1> QED
  BY <1>5, <1>10, <1>11, <1>12 DEF D!Publish, D!Pairs, Pairs, calling

\* Node-native: a retry whose time has come is a retry of the delivery.
LEMMA RetryRefines ==
  ASSUME TypeOK, NEW r \in Runs, NEW p \in Pairs, RetryHandler(r, p)
  PROVE  D!Retry(p)
<1>1. /\ p \in failures \cap called /\ p \in todo[r]
      /\ at[r] = None /\ p # None
  BY ConstantsAssumption DEF RetryHandler, TypeOK
<1>2. retries \in [Pairs -> Nat] /\ retries' = [retries EXCEPT ![p] = @ + 1]
  BY DEF RetryHandler, TypeOK
<1>3. UNCHANGED <<called, running, failures, processed>>
  BY DEF RetryHandler
<1>4. Handled' = Handled
  BY <1>3 DEF Handled
<1>5. Pending(p) /\ Pending(p)'
  <2>1. at'[r] = p
    BY DEF RetryHandler, TypeOK
  <2> QED
    BY <1>1, <2>1 DEF Pending
<1>6. \A q \in Pairs \ {p} : Pending(q)' <=> Pending(q)
  <2> SUFFICES ASSUME NEW q \in Pairs \ {p} PROVE Pending(q)' <=> Pending(q)
    OBVIOUS
  <2>1. CanRetry(q)' <=> CanRetry(q)
    BY <1>2, <1>3 DEF CanRetry
  <2>2. \A s \in Runs : (q \in todo'[s] \/ at'[s] = q) <=> (q \in todo[s] \/ at[s] = q)
    <3>1. q # None
      BY ConstantsAssumption
    <3> QED
      BY <1>1, <3>1 DEF RetryHandler, TypeOK
  <2> QED
    BY <1>3, <2>1, <2>2 DEF Pending
<1>7. status' = status
  BY <1>3, <1>4, <1>5, <1>6 DEF status
<1>8. status[p] \in {"owed", "handled"}
  BY <1>1, <1>5 DEF status
<1>9. attempts' = [attempts EXCEPT ![p] = @ + 1]
  <2>1. attempts[p] = 1 + retries[p] /\ 1 + (retries[p] + 1) = (1 + retries[p]) + 1
    BY <1>1, <1>2 DEF attempts
  <2>2. \A q \in Pairs : attempts'[q] = IF q = p THEN attempts[p] + 1 ELSE attempts[q]
    BY <1>1, <1>2, <1>3, <2>1 DEF attempts
  <2>3. attempts = [q \in Pairs |-> attempts[q]] /\ attempts' = [q \in Pairs |-> attempts'[q]]
    BY DEF attempts
  <2> QED
    BY <2>2, <2>3
<1> QED
  BY <1>7, <1>8, <1>9 DEF D!Retry

\* Node-native: a handler that settles is one that settles for the delivery.
LEMMA SettleRefines ==
  ASSUME TypeOK, NEW p \in Pairs, Settle(p)
  PROVE  [D!Next]_D!vars
<1>1. /\ p \in running /\ p \in called /\ p \notin failures /\ p \notin processed
      /\ running' = running \ {p}
      /\ failures' \in {failures, failures \cup {p}}
      /\ UNCHANGED <<called, retries, processed, todo, at>>
  BY DEF Settle, HandlerSucceeds, HandlerFails, TypeOK
<1>2. Handled' \ {p} = Handled \ {p} /\ p \notin Handled /\ Pending(p)
  BY <1>1 DEF Handled, Pending
<1>3. \A q \in Pairs \ {p} : Pending(q)' <=> Pending(q)
  BY <1>1 DEF Pending, CanRetry
<1>4. p \in Handled' \/ Pending(p)' \/ attempts[p] > Retries[p[2]]
  <2>1. CASE failures' = failures
    BY <1>1, <2>1 DEF Handled
  <2>2. CASE failures' = failures \cup {p}
    <3>1. retries[p] \in Nat /\ Retries[p[2]] \in Nat /\ attempts[p] = 1 + retries[p]
      BY <1>1, ConstantsAssumption DEF TypeOK, Pairs, attempts
    <3>2. CASE retries[p] < Retries[p[2]]
      BY <1>1, <2>2, <3>2 DEF Pending, CanRetry
    <3> QED
      BY <3>1, <3>2
  <2> QED
    BY <1>1, <2>1, <2>2
<1> QED
  BY <1>1, <1>2, <1>3, <1>4, OnePairSeen

\* Node-native: listing what to retry is a stutter of the delivery.
LEMMA ListingRefines ==
  ASSUME TypeOK, NEW r \in Runs, retryFailedEvents(r)
  PROVE  UNCHANGED D!vars
<1>1. UNCHANGED <<called, running, failures, retries, processed, at>>
  BY DEF retryFailedEvents
<1>2. /\ todo' = [todo EXCEPT ![r] = {p \in Pairs : CanRetry(p)}]
      /\ todo[r] = {} /\ todo \in [Runs -> SUBSET failures]
  BY DEF retryFailedEvents, TypeOK
<1>3. Handled' = Handled
  BY <1>1 DEF Handled
<1>4. ASSUME NEW q \in Pairs
      PROVE  Pending(q)' <=> Pending(q)
  <2>1. CanRetry(q)' <=> CanRetry(q)
    BY <1>1 DEF CanRetry
  <2>2. \A s \in Runs : q \in todo'[s] => q \in todo[s] \/ CanRetry(q)
    BY <1>2
  <2>3. \A s \in Runs : q \in todo[s] => q \in todo'[s]
    BY <1>2
  <2> QED
    BY <1>1, <2>1, <2>2, <2>3 DEF Pending
<1> QED
  BY <1>1, <1>3, <1>4, NothingSeen

\* A run passes over a failed event of a handler that is gone, or the handler it
\* awaits settles.
LEMMA RunRefines ==
  ASSUME TypeOK, NEW r \in Runs, NEW p \in failures,
         p \in todo[r] \/ at[r] = p,
         processed' \in {processed, processed \cup {p}},
         UNCHANGED <<called, running, failures, retries>>,
         \A q \in Pairs \ {p}, s \in Runs :
           (q \in todo'[s] \/ at'[s] = q) <=> (q \in todo[s] \/ at[s] = q)
  PROVE  [D!Next]_D!vars
<1>1. p \in called /\ p \in Pairs /\ p \notin running
  BY DEF TypeOK
<1>2. /\ Handled' \ {p} = Handled \ {p}
      /\ p \in Handled => p \in Handled'
      /\ Pending(p)
  BY <1>1 DEF Handled, Pending
<1>3. \A q \in Pairs \ {p} : Pending(q)' <=> Pending(q)
  BY DEF Pending, CanRetry
<1>4. p \in Handled' \/ Pending(p)' \/ attempts[p] > Retries[p[2]]
  <2>1. retries[p] \in Nat /\ Retries[p[2]] \in Nat /\ attempts[p] = 1 + retries[p]
    BY <1>1, ConstantsAssumption DEF TypeOK, Pairs, attempts
  <2>2. CASE p \in processed'
    BY <2>2 DEF Handled
  <2>3. CASE p \notin processed' /\ retries[p] < Retries[p[2]]
    BY <2>3 DEF Pending, CanRetry
  <2> QED
    BY <2>1, <2>2, <2>3
<1> QED
  BY <1>1, <1>2, <1>3, <1>4, OnePairSeen

\* Node-native: every step is a step of the delivery, or a stutter.
LEMMA NextRefines ==
  ASSUME TypeOK, FreshOK, [Next]_vars
  PROVE  [D!Next]_D!vars
<1>1. CASE UNCHANGED <<called, running, failures, retries, processed, todo, at>>
  BY <1>1 DEF D!vars, status, attempts, Handled, Pending, CanRetry
<1>2. ASSUME NEW e \in Events, publish(e)
      PROVE  [D!Next]_D!vars
  BY <1>2, PublishRefines DEF D!Next
<1>3. ASSUME NEW p \in Pairs, Settle(p)
      PROVE  [D!Next]_D!vars
  BY <1>3, SettleRefines
<1>4. ASSUME NEW r \in Runs, retryFailedEvents(r)
      PROVE  [D!Next]_D!vars
  BY <1>4, ListingRefines
<1>5. ASSUME NEW r \in Runs, NEW p \in Pairs, RetryHandler(r, p)
      PROVE  [D!Next]_D!vars
  BY <1>5, RetryRefines DEF D!Next, D!Pairs, Pairs
<1>6. ASSUME NEW r \in Runs, NEW p \in Pairs, SkipFailedEvent(r, p)
      PROVE  [D!Next]_D!vars
  <2>1. p \in failures /\ p \in todo[r]
    BY <1>6 DEF SkipFailedEvent, TypeOK
  <2>2. UNCHANGED <<called, running, failures, retries, processed>>
    BY <1>6 DEF SkipFailedEvent
  <2>3. \A q \in Pairs \ {p}, s \in Runs :
          (q \in todo'[s] \/ at'[s] = q) <=> (q \in todo[s] \/ at[s] = q)
    BY <1>6 DEF SkipFailedEvent, TypeOK
  <2> QED
    BY <2>1, <2>2, <2>3, RunRefines
<1>7. ASSUME NEW r \in Runs, NEW ok \in BOOLEAN, RetrySettled(r, ok)
      PROVE  [D!Next]_D!vars
  <2> DEFINE p == at[r]
  <2>1. p \in failures
    BY <1>7 DEF RetrySettled, TypeOK
  <2>2. UNCHANGED <<called, running, failures, retries>>
    BY <1>7 DEF RetrySettled
  <2>3. processed' \in {processed, processed \cup {p}}
    BY <1>7 DEF RetrySettled
  <2>4. \A q \in Pairs \ {p}, s \in Runs :
          (q \in todo'[s] \/ at'[s] = q) <=> (q \in todo[s] \/ at[s] = q)
    BY <1>7, ConstantsAssumption DEF RetrySettled, TypeOK
  <2>5. at[r] = p
    OBVIOUS
  <2> HIDE DEF p
  <2> QED
    BY <2>1, <2>2, <2>3, <2>4, <2>5, RunRefines
<1> QED
  BY <1>1, <1>2, <1>3, <1>4, <1>5, <1>6, <1>7
  DEF Next, Resume, vars, registerEventHandler, clear

\* Every behaviour of the broker on node's EventEmitter is one of Delivery: what
\* fails is neither lost nor given up before its retries are used up, and what
\* was handled stays so.
THEOREM Refinement == Spec => ImplementsDelivery
<1>1. TypeOK /\ FreshOK /\ [Next]_vars => [D!Next]_D!vars
  BY NextRefines
<1> QED
  BY <1>1, InitRefines, TypeCorrect, FreshCorrect, PTL
  DEF Spec, D!Spec, ImplementsDelivery

-----------------------------------------------------------------------------
(* RabbitMQ: what holds of the links and the channel                       *)

\* At most one call is connecting, and where one awaits the connection there is none.
OneConnects ==
  ~overlapped =>
    /\ \A c, d \in MQ!Calls : pc[c] \in MQ!Connecting /\ pc[d] \in MQ!Connecting => c = d
    /\ \A c \in MQ!Calls : pc[c] = "connect" => connection = None

\* As long as no connection was lost: a channel lives on the connection, no call
\* creates a second one, and calls and consumers use this.channel.
OneChannel ==
  ~overlapped /\ losses = 0 =>
    /\ channel # None => connection # None
    /\ \A c \in MQ!Calls : pc[c] \in {"connect", "create"} => channel = None
    /\ \A c \in MQ!Calls : pc[c] \in MQ!Steps => via[c] = channel /\ channel # None
    /\ \A h \in Consumers :
         consumer[h] \in {channel, None} /\ (handling[h] # None => consumer[h] # None)

ChannelFacts == MQ!ConnectionIsKnown /\ MQ!SettledOnTheirChannel /\ OneConnects /\ OneChannel

\* The types of what a call awaits and of what it sent its request on.
Typed == /\ pc \in [MQ!Calls -> {"new", "done", "failed"} \cup MQ!Connecting \cup MQ!Steps]
         /\ via \in [MQ!Calls -> MQ!Calls \cup {None}]

\* To ask something on a channel types the call, and leaves the other calls.
LEMMA AskTyped ==
  ASSUME MQ!ConstantsAssumption, Typed, NEW c \in MQ!Calls, NEW k \in MQ!Calls \cup {None},
         NEW step \in MQ!Steps, MQ!Ask(c, step, k)
  PROVE  /\ Typed'
         /\ pc'[c] = "failed" \/ (pc'[c] \in MQ!Steps /\ via'[c] = k /\ k # None)
         /\ \A d \in MQ!Calls \ {c} : pc'[d] = pc[d] /\ via'[d] = via[d]
<1>1. CASE k = None
  BY <1>1 DEF MQ!Ask, Typed
<1>2. CASE k # None
  BY <1>2 DEF MQ!Ask, Typed
<1> QED
  BY <1>1, <1>2

\* The same of publish(), which goes on to the consumers of its name or is done.
LEMMA DirectTyped ==
  ASSUME MQ!ConstantsAssumption, Typed, NEW e \in MQ!Calls, NEW k \in MQ!Calls \cup {None},
         MQ!Direct(e, k)
  PROVE  /\ Typed'
         /\ pc'[e] \in {"done", "failed"} \/ (pc'[e] \in MQ!Steps /\ via'[e] = k /\ k # None)
         /\ \A d \in MQ!Calls \ {e} : pc'[d] = pc[d] /\ via'[d] = via[d]
<1>1. CASE MQ!Ask(e, "direct", k)
  BY <1>1, AskTyped DEF MQ!Steps
<1>2. CASE pc' = [pc EXCEPT ![e] = "done"] /\ via' = [via EXCEPT ![e] = None]
  BY <1>2 DEF Typed
<1> QED
  BY <1>1, <1>2 DEF MQ!Direct

\* The same of every call that is connected.
LEMMA ProceedTyped ==
  ASSUME MQ!ConstantsAssumption, Typed, NEW c \in MQ!Calls, NEW k \in MQ!Calls \cup {None},
         MQ!Proceed(c, k)
  PROVE  /\ Typed'
         /\ pc'[c] \in {"done", "failed"} \/ (pc'[c] \in MQ!Steps /\ via'[c] = k /\ k # None)
         /\ \A d \in MQ!Calls \ {c} : pc'[d] = pc[d] /\ via'[d] = via[d]
<1>1. CASE MQ!Ask(c, "exchange", k)
  BY <1>1, AskTyped DEF MQ!Steps
<1>2. CASE MQ!Ask(c, "fanout", k)
  BY <1>2, AskTyped DEF MQ!Steps
<1>3. CASE c \in Messages /\ MQ!Direct(c, k)
  BY <1>3, DirectTyped
<1> QED
  BY <1>1, <1>2, <1>3 DEF MQ!Proceed, MQ!Calls

\* A connected call creates a channel where there is none, or proceeds on the one
\* there is.
LEMMA WithConnectionTyped ==
  ASSUME MQ!ConstantsAssumption, Typed, NEW c \in MQ!Calls, NEW k \in MQ!Calls \cup {None},
         channel \in MQ!Calls \cup {None}, MQ!WithConnection(c, k)
  PROVE  /\ Typed'
         /\ \/ (channel = None /\ pc'[c] = "create")
            \/ (channel # None /\ pc'[c] \in {"done", "failed"})
            \/ (channel # None /\ pc'[c] \in MQ!Steps /\ via'[c] = channel)
         /\ \A d \in MQ!Calls \ {c} : pc'[d] = pc[d] /\ via'[d] = via[d]
<1>1. CASE channel = None
  BY <1>1 DEF MQ!WithConnection, MQ!NeedsChannel, Typed, MQ!Connecting
<1>2. CASE channel # None
  <2>1. MQ!Proceed(c, channel)
    BY <1>2 DEF MQ!WithConnection, MQ!NeedsChannel
  <2> QED
    BY <1>2, <2>1, ProceedTyped
<1> QED
  BY <1>1, <1>2

\* The links and the consumers stay as they are.
Quiet ==
  /\ UNCHANGED <<connection, channel, open, host, losses, overlapped, crashed>>
  /\ UNCHANGED <<consumer, handling>>

\* A call that goes on without connecting, on the channel there is, keeps what is
\* known where the links and the consumers stay as they are.
LEMMA GoesOn ==
  ASSUME ChannelFacts, NEW c \in MQ!Calls, Quiet,
         \/ pc'[c] \in {"new", "done", "failed"}
         \/ (pc'[c] \in MQ!Steps /\ via'[c] = channel /\ channel # None),
         \A d \in MQ!Calls \ {c} : pc'[d] = pc[d] /\ via'[d] = via[d]
  PROVE  ChannelFacts'
<1>1. MQ!ConnectionIsKnown' /\ MQ!SettledOnTheirChannel'
  BY DEF Quiet, ChannelFacts, MQ!ConnectionIsKnown, MQ!SettledOnTheirChannel
<1>2. pc'[c] \notin MQ!Connecting
  BY DEF MQ!Connecting, MQ!Steps
<1>3. OneConnects'
  BY <1>2 DEF Quiet, ChannelFacts, OneConnects, MQ!Connecting
<1>4. OneChannel'
  BY <1>2 DEF Quiet, ChannelFacts, OneChannel, MQ!Connecting, MQ!Steps
<1> QED
  BY <1>1, <1>3, <1>4 DEF ChannelFacts

\* Queues hold events, whoever is given one.
LEMMA DeliveredTyped ==
  ASSUME MQ!TypeOK, NEW e \in Messages, NEW S, MQ!Delivered(e, S)
  PROVE  queue' \in [Consumers -> Seq(Messages)]
BY DEF MQ!TypeOK, MQ!Delivered

\* A part of TypeOK.
LEMMA TypedVia ==
  ASSUME MQ!TypeOK
  PROVE  Typed
BY DEF MQ!TypeOK, Typed

\* Every step of the broker keeps its types.
LEMMA BrokerTypeStep ==
  ASSUME MQ!ConstantsAssumption, MQ!TypeOK, MQ!Next
  PROVE  MQ!TypeOK'
<1> USE TypedVia
<1>1. ASSUME NEW c \in MQ!Calls, MQ!Begin(c)
      PROVE  MQ!TypeOK'
  <2>1. Typed'
    <3>1. CASE connection = None
      BY <1>1, <3>1 DEF MQ!Begin, MQ!NeedsConnection, Typed, MQ!Connecting
    <3>2. CASE connection # None
      <4>1. MQ!WithConnection(c, connection)
        BY <1>1, <3>2 DEF MQ!Begin, MQ!NeedsConnection
      <4> QED
        BY <4>1, WithConnectionTyped DEF MQ!TypeOK
    <3> QED
      BY <3>1, <3>2
  <2>2. overlapped' \in BOOLEAN
    BY <1>1 DEF MQ!Begin, MQ!TypeOK
  <2>3. expected' \in [Messages -> SUBSET Consumers]
    BY <1>1 DEF MQ!Begin, MQ!TypeOK
  <2> QED
    BY <1>1, <2>1, <2>2, <2>3
    DEF MQ!Begin, MQ!TypeOK, Typed, MQ!links, MQ!server, MQ!topology, MQ!deliveries
<1>2. ASSUME NEW c \in MQ!Calls, MQ!ConnectFails(c)
      PROVE  MQ!TypeOK'
  BY <1>2
  DEF MQ!ConnectFails, MQ!TypeOK, MQ!links, MQ!server, MQ!topology, MQ!deliveries, MQ!history
<1>3. ASSUME NEW c \in MQ!Calls, MQ!Connected(c)
      PROVE  MQ!TypeOK'
  <2>1. Typed'
    BY <1>3, WithConnectionTyped DEF MQ!Connected, MQ!TypeOK
  <2> QED
    BY <1>3, <2>1 DEF MQ!Connected, MQ!TypeOK, Typed, MQ!topology, MQ!deliveries, MQ!history
<1>4. ASSUME NEW c \in MQ!Calls, MQ!Created(c)
      PROVE  MQ!TypeOK'
  BY <1>4 DEF MQ!Created, MQ!TypeOK, MQ!Connecting, MQ!topology, MQ!deliveries, MQ!history
<1>5. ASSUME NEW c \in MQ!Calls, MQ!Prefetched(c)
      PROVE  MQ!TypeOK'
  <2>1. Typed'
    BY <1>5, ProceedTyped DEF MQ!Prefetched, MQ!TypeOK
  <2> QED
    BY <1>5, <2>1
    DEF MQ!Prefetched, MQ!TypeOK, Typed, MQ!links, MQ!server, MQ!topology, MQ!deliveries,
        MQ!history
<1>6. ASSUME NEW c \in MQ!Calls, MQ!Rejected(c)
      PROVE  MQ!TypeOK'
  BY <1>6 DEF MQ!Rejected, MQ!TypeOK, MQ!links, MQ!server, MQ!topology, MQ!deliveries, MQ!history
<1>7. ASSUME NEW e \in Messages, MQ!PublishedToAll(e)
      PROVE  MQ!TypeOK'
  <2>1. e \in MQ!Calls
    BY DEF MQ!Calls
  <2>2. CASE channel = None
    BY <1>7, <2>1, <2>2
    DEF MQ!PublishedToAll, MQ!TypeOK, MQ!links, MQ!server, MQ!topology, MQ!deliveries, MQ!history
  <2>3. CASE channel # None
    <3>1. queue' \in [Consumers -> Seq(Messages)]
      BY <1>7, <2>3, DeliveredTyped DEF MQ!PublishedToAll
    <3>2. Typed'
      BY <1>7, <2>1, <2>3, DirectTyped DEF MQ!PublishedToAll, MQ!TypeOK
    <3> QED
      BY <1>7, <3>1, <3>2
      DEF MQ!PublishedToAll, MQ!TypeOK, Typed, MQ!links, MQ!server, MQ!topology, MQ!history
  <2> QED
    BY <2>2, <2>3
<1>8. ASSUME NEW e \in Messages, MQ!PublishedToNamed(e)
      PROVE  MQ!TypeOK'
  <2>1. e \in MQ!Calls
    BY DEF MQ!Calls
  <2>2. queue' \in [Consumers -> Seq(Messages)]
    BY <1>8, DeliveredTyped DEF MQ!PublishedToNamed, MQ!TypeOK
  <2>3. pc' \in [MQ!Calls -> {"new", "done", "failed"} \cup MQ!Connecting \cup MQ!Steps]
    BY <1>8, <2>1 DEF MQ!PublishedToNamed, MQ!TypeOK
  <2> QED
    BY <1>8, <2>2, <2>3
    DEF MQ!PublishedToNamed, MQ!TypeOK, MQ!links, MQ!server, MQ!topology, MQ!history
<1>9. ASSUME NEW h \in MQ!Calls, NEW step, NEW next \in MQ!Steps, MQ!Asserted(h, step, next)
      PROVE  MQ!TypeOK'
  <2>1. Typed'
    BY <1>9, AskTyped DEF MQ!Asserted, MQ!TypeOK
  <2> QED
    BY <1>9, <2>1
    DEF MQ!Asserted, MQ!TypeOK, Typed, MQ!links, MQ!server, MQ!topology, MQ!deliveries,
        MQ!history
<1>10. ASSUME NEW h \in Consumers, MQ!Bound(h)
       PROVE  MQ!TypeOK'
  <2>1. Typed'
    BY <1>10, AskTyped DEF MQ!Bound, MQ!TypeOK, MQ!Calls, MQ!Steps
  <2> QED
    BY <1>10, <2>1
    DEF MQ!Bound, MQ!TypeOK, Typed, MQ!links, MQ!server, MQ!deliveries, MQ!history
<1>11. ASSUME NEW h \in Consumers, MQ!Consuming(h)
       PROVE  MQ!TypeOK'
  <2>1. MQ!Flag(h) \in Names \cup {"Universal"}
    BY DEF MQ!Flag, MQ!ConstantsAssumption
  <2>2. h \in MQ!Calls
    BY DEF MQ!Calls
  <2> QED
    BY <1>11, <2>1, <2>2
    DEF MQ!Consuming, MQ!TypeOK, MQ!links, MQ!server, MQ!deliveries, MQ!history
<1>12. ASSUME NEW h \in Consumers, MQ!Deliver(h)
       PROVE  MQ!TypeOK'
  <2>1. queue[h] \in Seq(Messages) /\ queue[h] # <<>>
    BY <1>12 DEF MQ!Deliver, MQ!TypeOK
  <2>2. Head(queue[h]) \in Messages /\ Tail(queue[h]) \in Seq(Messages)
    BY <2>1
  <2> QED
    BY <1>12, <2>2 DEF MQ!Deliver, MQ!TypeOK, MQ!links, MQ!server, MQ!topology, MQ!history
<1>13. ASSUME NEW h \in Consumers, MQ!HandlerSucceeds(h)
       PROVE  MQ!TypeOK'
  <2>1. handling' \in [Consumers -> Messages \cup {None}] /\ crashed' \in BOOLEAN
    BY <1>13 DEF MQ!HandlerSucceeds, MQ!Settled, MQ!TypeOK
  <2> QED
    BY <1>13, <2>1
    DEF MQ!HandlerSucceeds, MQ!TypeOK, MQ!links, MQ!server, MQ!topology, MQ!history
<1>14. ASSUME NEW h \in Consumers, MQ!HandlerFails(h)
       PROVE  MQ!TypeOK'
  <2>1. handling' \in [Consumers -> Messages \cup {None}] /\ crashed' \in BOOLEAN
    BY <1>14 DEF MQ!HandlerFails, MQ!Settled, MQ!TypeOK
  <2> QED
    BY <1>14, <2>1 DEF MQ!HandlerFails, MQ!TypeOK, MQ!links, MQ!server, MQ!topology, MQ!history
<1>15. ASSUME NEW k, MQ!Closes(k)
       PROVE  MQ!TypeOK'
  <2>1. losses' \in 0 .. MaxLosses
    BY <1>15 DEF MQ!Closes, MQ!TypeOK, MQ!ConstantsAssumption
  <2>2. queue' \in [Consumers -> Seq(Messages)]
    <3>1. \A h \in Consumers :
            handling[h] # None => <<handling[h]>> \o queue[h] \in Seq(Messages)
      BY DEF MQ!TypeOK
    <3> QED
      BY <1>15, <3>1 DEF MQ!Closes, MQ!TypeOK
  <2>3. consumer' \in [Consumers -> MQ!Calls \cup {None}]
    BY <1>15 DEF MQ!Closes, MQ!TypeOK
  <2> QED
    BY <1>15, <2>1, <2>2, <2>3 DEF MQ!Closes, MQ!TypeOK, MQ!topology, MQ!deliveries, MQ!history
<1> QED
  BY <1>1, <1>2, <1>3, <1>4, <1>5, <1>6, <1>7, <1>8, <1>9, <1>10, <1>11, <1>12,
     <1>13, <1>14, <1>15
  DEF MQ!Next, MQ!Answer, MQ!Lost, MQ!clear, MQ!Steps

-----------------------------------------------------------------------------
(* The connection and the channel                                          *)

\* A call that begins connects where nobody does, or two calls have overlapped.
LEMMA BeginKeeps ==
  ASSUME MQ!ConstantsAssumption, MQ!TypeOK, ChannelFacts, NEW c \in MQ!Calls, MQ!Begin(c)
  PROVE  ChannelFacts'
<1> USE TypedVia
<1>0. /\ UNCHANGED <<connection, channel, open, losses, crashed, consumer, handling>>
      /\ pc[c] = "new"
      /\ overlapped' = (overlapped \/ (MQ!Overlaps(c) /\ pc'[c] \in MQ!Connecting))
  BY DEF MQ!Begin, MQ!links, MQ!server, MQ!topology, MQ!deliveries
<1>1. MQ!ConnectionIsKnown' /\ MQ!SettledOnTheirChannel'
  BY <1>0 DEF ChannelFacts, MQ!ConnectionIsKnown, MQ!SettledOnTheirChannel
<1>2. /\ \/ (connection = None /\ pc'[c] = "connect" /\ via' = via)
         \/ (connection # None /\ channel = None /\ pc'[c] = "create")
         \/ (connection # None /\ channel # None /\ pc'[c] \in {"done", "failed"})
         \/ (connection # None /\ channel # None /\ pc'[c] \in MQ!Steps /\ via'[c] = channel)
      /\ \A d \in MQ!Calls \ {c} : pc'[d] = pc[d] /\ via'[d] = via[d]
  <2>1. CASE connection = None
    BY <2>1 DEF MQ!Begin, MQ!NeedsConnection, Typed
  <2>2. CASE connection # None
    <3>1. MQ!WithConnection(c, connection)
      BY <2>2 DEF MQ!Begin, MQ!NeedsConnection
    <3> QED
      BY <2>2, <3>1, WithConnectionTyped DEF MQ!TypeOK
  <2> QED
    BY <2>1, <2>2
<1>3. OneConnects'
  <2> SUFFICES ASSUME ~overlapped'
               PROVE  /\ \A a, b \in MQ!Calls :
                           pc'[a] \in MQ!Connecting /\ pc'[b] \in MQ!Connecting => a = b
                      /\ \A a \in MQ!Calls : pc'[a] = "connect" => connection' = None
    BY DEF OneConnects
  <2>1. ~overlapped
    BY <1>0
  <2>2. pc'[c] \in MQ!Connecting => \A d \in MQ!Calls \ {c} : pc[d] \notin MQ!Connecting
    BY <1>0 DEF MQ!Overlaps
  <2>3. \A a \in MQ!Calls : pc'[a] = "connect" => connection' = None
    BY <1>0, <1>2, <2>1 DEF ChannelFacts, OneConnects, MQ!Steps
  <2> QED
    BY <1>2, <2>1, <2>2, <2>3 DEF ChannelFacts, OneConnects
<1>4. OneChannel'
  BY <1>0, <1>2 DEF ChannelFacts, OneChannel, MQ!Steps, MQ!Connecting
<1> QED
  BY <1>1, <1>3, <1>4 DEF ChannelFacts

\* A connection is made where there is none.
LEMMA ConnectedKeeps ==
  ASSUME MQ!ConstantsAssumption, MQ!TypeOK, ChannelFacts, NEW c \in MQ!Calls, MQ!Connected(c)
  PROVE  ChannelFacts'
<1> USE TypedVia
<1>0. /\ UNCHANGED <<channel, losses, overlapped, crashed, consumer, handling>>
      /\ pc[c] = "connect" /\ connection' = c /\ open' = open \cup {c} /\ c # None
      /\ MQ!WithConnection(c, c)
  BY DEF MQ!Connected, MQ!topology, MQ!deliveries, MQ!history, MQ!ConstantsAssumption
<1>1. MQ!ConnectionIsKnown' /\ MQ!SettledOnTheirChannel'
  BY <1>0 DEF ChannelFacts, MQ!ConnectionIsKnown, MQ!SettledOnTheirChannel, OneConnects
<1>2. /\ \/ (channel = None /\ pc'[c] = "create")
         \/ (channel # None /\ pc'[c] \in {"done", "failed"})
         \/ (channel # None /\ pc'[c] \in MQ!Steps /\ via'[c] = channel)
      /\ \A d \in MQ!Calls \ {c} : pc'[d] = pc[d] /\ via'[d] = via[d]
  BY <1>0, WithConnectionTyped DEF MQ!TypeOK
<1>3. OneConnects'
  BY <1>0, <1>2 DEF ChannelFacts, OneConnects, MQ!Connecting, MQ!Steps
<1>4. OneChannel'
  BY <1>0, <1>2 DEF ChannelFacts, OneChannel, MQ!Connecting, MQ!Steps
<1> QED
  BY <1>1, <1>3, <1>4 DEF ChannelFacts

\* A channel is created where there is none.
LEMMA CreatedKeeps ==
  ASSUME MQ!ConstantsAssumption, MQ!TypeOK, ChannelFacts, NEW c \in MQ!Calls, MQ!Created(c)
  PROVE  ChannelFacts'
<1>0. /\ UNCHANGED <<connection, open, losses, overlapped, crashed, consumer, handling>>
      /\ pc[c] = "create" /\ via[c] \in open /\ channel' = c /\ c # None
      /\ pc'[c] = "prefetch"
      /\ \A d \in MQ!Calls \ {c} : pc'[d] = pc[d] /\ via'[d] = via[d]
  BY DEF MQ!Created, MQ!TypeOK, MQ!topology, MQ!deliveries, MQ!history, MQ!ConstantsAssumption
<1>1. MQ!ConnectionIsKnown' /\ MQ!SettledOnTheirChannel'
  BY <1>0 DEF ChannelFacts, MQ!ConnectionIsKnown, MQ!SettledOnTheirChannel
<1>2. OneConnects'
  BY <1>0 DEF ChannelFacts, OneConnects, MQ!Connecting
<1>3. OneChannel'
  <2> SUFFICES ASSUME ~overlapped, losses = 0
               PROVE  OneChannel'
    BY <1>0 DEF OneChannel
  <2>1. connection # None /\ channel = None
    BY <1>0 DEF ChannelFacts, MQ!ConnectionIsKnown, OneChannel
  <2>2. \A d \in MQ!Calls \ {c} : pc[d] \notin MQ!Connecting
    BY <1>0 DEF ChannelFacts, OneConnects, MQ!Connecting
  <2> QED
    BY <1>0, <2>1, <2>2 DEF ChannelFacts, OneChannel, MQ!Connecting, MQ!Steps
<1> QED
  BY <1>1, <1>2, <1>3 DEF ChannelFacts

\* The consumers settle on this.channel unless the connection was lost.
LEMMA SettledKeeps ==
  ASSUME MQ!ConstantsAssumption, MQ!TypeOK, ChannelFacts, NEW h \in Consumers,
         handling[h] # None, MQ!Settled(h),
         UNCHANGED <<connection, channel, open, losses, overlapped, pc, via, consumer>>
  PROVE  ChannelFacts'
<1>1. crashed' => crashed \/ overlapped \/ losses > 0
  <2>1. CASE channel # None /\ consumer[h] = channel
    BY <2>1 DEF MQ!Settled
  <2>2. CASE ~(channel # None /\ consumer[h] = channel)
    <3>1. overlapped \/ losses # 0
      BY <2>2 DEF ChannelFacts, OneChannel
    <3> QED
      BY <3>1 DEF MQ!TypeOK, MQ!ConstantsAssumption
  <2> QED
    BY <2>1, <2>2
<1>2. \A g \in Consumers : handling'[g] # None => handling[g] # None
  BY DEF MQ!Settled, MQ!TypeOK
<1>3. MQ!ConnectionIsKnown' /\ MQ!SettledOnTheirChannel' /\ OneConnects'
  BY <1>1 DEF ChannelFacts, MQ!ConnectionIsKnown, MQ!SettledOnTheirChannel, OneConnects
<1>4. OneChannel'
  BY <1>2 DEF ChannelFacts, OneChannel
<1> QED
  BY <1>3, <1>4 DEF ChannelFacts

\* Each step of the broker keeps the one connection and the one channel known.
LEMMA ChannelStep ==
  ASSUME MQ!ConstantsAssumption, MQ!TypeOK, ChannelFacts, MQ!Next
  PROVE  ChannelFacts'
<1> USE TypedVia
<1>1. ASSUME NEW c \in MQ!Calls, MQ!ConnectFails(c)
      PROVE  ChannelFacts'
  BY <1>1, GoesOn
  DEF MQ!ConnectFails, MQ!TypeOK, Quiet, MQ!links, MQ!server, MQ!topology, MQ!deliveries,
      MQ!history
<1>2. ASSUME NEW c \in MQ!Calls, MQ!Prefetched(c)
      PROVE  ChannelFacts'
  BY <1>2, GoesOn, ProceedTyped
  DEF MQ!Prefetched, MQ!TypeOK, Quiet, MQ!links, MQ!server, MQ!topology, MQ!deliveries,
      MQ!history
<1>3. ASSUME NEW c \in MQ!Calls, MQ!Rejected(c)
      PROVE  ChannelFacts'
  BY <1>3, GoesOn
  DEF MQ!Rejected, MQ!TypeOK, Quiet, MQ!links, MQ!server, MQ!topology, MQ!deliveries, MQ!history
<1>4. ASSUME NEW e \in Messages, MQ!PublishedToAll(e)
      PROVE  ChannelFacts'
  <2>1. e \in MQ!Calls
    BY DEF MQ!Calls
  <2>2. CASE channel = None
    BY <1>4, <2>1, <2>2, GoesOn
    DEF MQ!PublishedToAll, MQ!TypeOK, Quiet, MQ!links, MQ!server, MQ!topology, MQ!history
  <2>3. CASE channel # None
    BY <1>4, <2>1, <2>3, GoesOn, DirectTyped
    DEF MQ!PublishedToAll, MQ!TypeOK, Quiet, MQ!links, MQ!server, MQ!topology, MQ!history
  <2> QED
    BY <2>2, <2>3
<1>5. ASSUME NEW e \in Messages, MQ!PublishedToNamed(e)
      PROVE  ChannelFacts'
  <2>1. e \in MQ!Calls
    BY DEF MQ!Calls
  <2> QED
    BY <1>5, <2>1, GoesOn
    DEF MQ!PublishedToNamed, MQ!TypeOK, Quiet, MQ!links, MQ!server, MQ!topology, MQ!history
<1>6. ASSUME NEW h \in MQ!Calls, NEW step, NEW next \in MQ!Steps, MQ!Asserted(h, step, next)
      PROVE  ChannelFacts'
  BY <1>6, GoesOn, AskTyped
  DEF MQ!Asserted, MQ!TypeOK, Quiet, MQ!links, MQ!server, MQ!topology, MQ!deliveries, MQ!history
<1>7. ASSUME NEW h \in Consumers, MQ!Bound(h)
      PROVE  ChannelFacts'
  <2>1. h \in MQ!Calls /\ "consume" \in MQ!Steps
    BY DEF MQ!Calls, MQ!Steps
  <2> QED
    BY <1>7, <2>1, GoesOn, AskTyped
    DEF MQ!Bound, MQ!TypeOK, Quiet, MQ!links, MQ!server, MQ!deliveries, MQ!history
<1>8. ASSUME NEW h \in Consumers, MQ!Consuming(h)
      PROVE  ChannelFacts'
  <2>1. h \in MQ!Calls /\ pc[h] = "consume" /\ "consume" \in MQ!Steps
    BY <1>8 DEF MQ!Consuming, MQ!Answered, MQ!Calls, MQ!Steps
  <2>2. /\ UNCHANGED <<connection, channel, open, losses, overlapped, crashed, handling, via>>
        /\ pc' = [pc EXCEPT ![h] = "done"] /\ consumer' = [consumer EXCEPT ![h] = via[h]]
    BY <1>8 DEF MQ!Consuming, MQ!links, MQ!server, MQ!deliveries, MQ!history
  <2>3. MQ!ConnectionIsKnown' /\ MQ!SettledOnTheirChannel'
    BY <2>2 DEF ChannelFacts, MQ!ConnectionIsKnown, MQ!SettledOnTheirChannel
  <2>4. OneConnects'
    BY <2>1, <2>2 DEF ChannelFacts, OneConnects, MQ!Connecting, MQ!TypeOK
  <2>5. OneChannel'
    BY <2>1, <2>2 DEF ChannelFacts, OneChannel, MQ!Steps, MQ!TypeOK
  <2> QED
    BY <2>3, <2>4, <2>5 DEF ChannelFacts
<1>9. ASSUME NEW h \in Consumers, MQ!Deliver(h)
      PROVE  ChannelFacts'
  <2>1. /\ UNCHANGED <<connection, channel, open, losses, overlapped, crashed>>
        /\ UNCHANGED <<pc, via, consumer>>
        /\ consumer[h] # None /\ \A g \in Consumers \ {h} : handling'[g] = handling[g]
    BY <1>9 DEF MQ!Deliver, MQ!TypeOK, MQ!links, MQ!server, MQ!topology, MQ!history
  <2>2. OneChannel'
    BY <2>1 DEF ChannelFacts, OneChannel
  <2> QED
    BY <2>1, <2>2
    DEF ChannelFacts, MQ!ConnectionIsKnown, MQ!SettledOnTheirChannel, OneConnects
<1>10. ASSUME NEW h \in Consumers, MQ!HandlerSucceeds(h) \/ MQ!HandlerFails(h)
       PROVE  ChannelFacts'
  BY <1>10, SettledKeeps
  DEF MQ!HandlerSucceeds, MQ!HandlerFails, MQ!links, MQ!server, MQ!topology, MQ!history
<1>11. ASSUME NEW k, MQ!Closes(k)
       PROVE  ChannelFacts'
  <2>1. /\ k \in open /\ open' = open \ {k} /\ connection' = None
        /\ losses' > 0 /\ UNCHANGED <<pc, crashed, overlapped>>
    BY <1>11 DEF MQ!Closes, MQ!TypeOK
  <2> QED
    BY <2>1
    DEF ChannelFacts, MQ!ConnectionIsKnown, MQ!SettledOnTheirChannel, OneConnects,
        OneChannel
<1> QED
  BY <1>1, <1>2, <1>3, <1>4, <1>5, <1>6, <1>7, <1>8, <1>9, <1>10, <1>11,
     BeginKeeps, ConnectedKeeps, CreatedKeeps
  DEF MQ!Next, MQ!Answer, MQ!Lost, MQ!clear, MQ!Steps

\* The broker knows its one open connection and settles on the channel it came on,
\* for any events, handlers and number of losses: clear() and health() speak of
\* the connection there is, and only calls that connect at once or a lost
\* connection end the process.
THEOREM ChannelsKept ==
  ASSUME MQ!ConstantsAssumption
  PROVE  MQ!Spec => []ChannelsAreKept
<1>1. MQ!Init => MQ!TypeOK /\ ChannelFacts
  <2> SUFFICES ASSUME MQ!Init
               PROVE  MQ!TypeOK /\ ChannelFacts
    OBVIOUS
  <2>1. queue \in [Consumers -> Seq(Messages)]
    BY DEF MQ!Init
  <2>2. losses \in 0 .. MaxLosses
    BY DEF MQ!Init, MQ!ConstantsAssumption
  <2>3. MQ!TypeOK
    BY <2>1, <2>2 DEF MQ!Init, MQ!TypeOK
  <2>4. ChannelFacts
    BY DEF MQ!Init, ChannelFacts, MQ!ConnectionIsKnown, MQ!SettledOnTheirChannel, OneConnects,
           OneChannel, MQ!Connecting, MQ!Steps, MQ!Calls
  <2> QED
    BY <2>3, <2>4
<1>2. MQ!TypeOK /\ ChannelFacts /\ [MQ!Next]_(MQ!vars) => (MQ!TypeOK /\ ChannelFacts)'
  <2>1. CASE MQ!Next
    BY <2>1, BrokerTypeStep, ChannelStep
  <2>2. ASSUME UNCHANGED MQ!vars, MQ!TypeOK, ChannelFacts
        PROVE  (MQ!TypeOK /\ ChannelFacts)'
    BY <2>2
    DEF MQ!vars, MQ!server, MQ!topology, MQ!deliveries, MQ!TypeOK, ChannelFacts,
        MQ!ConnectionIsKnown,
        MQ!SettledOnTheirChannel, OneConnects, OneChannel
  <2> QED
    BY <2>1, <2>2
<1>3. MQ!TypeOK /\ ChannelFacts => ChannelsAreKept
  BY DEF ChannelFacts, ChannelsAreKept, MQ!ChannelsAreKept
<1> QED
  BY <1>1, <1>2, <1>3, PTL DEF MQ!Spec

=============================================================================
