------------------------------ MODULE Brokers ------------------------------
(***************************************************************************)
(* The two brokers that call handlers concurrently: the one on node's      *)
(* EventEmitter, and the one on RabbitMQ (MQ), which has its own           *)
(* messages and consumers here.  They share nothing, and a behaviour is of *)
(* one of three kinds:                                                     *)
(*   emitter  the broker on node's EventEmitter                            *)
(*   calls    calls of one publication and the registrations to the        *)
(*            RabbitMQ broker, with a connection that may be lost, two     *)
(*            calls at a time                                              *)
(*   queue    events in the queues of named events, on a connection that   *)
(*            holds                                                        *)
(***************************************************************************)
EXTENDS NodeNativeBroker, Sequences, FiniteSets

CONSTANTS
  Messages, Names, NameOf, Consumers, Universal, Subject, MaxLosses,
  once, twice, never

VARIABLES
  kind,
  connection, channel, open, host, pc, via, flags, bound, consumer, queue,
  handling, calls, handled, expected, crashed, losses, overlapped

rabbitVars ==
  <<connection, channel, open, host, pc, via, flags, bound, consumer, queue,
    handling, calls, handled, expected, crashed, losses, overlapped>>

MQ == INSTANCE RabbitmqBroker WITH Events <- Messages, Handlers <- Consumers

-----------------------------------------------------------------------------

UnderWay == {c \in MQ!Calls : pc[c] \notin {"new", "done", "failed"}}

FirstMessage == CHOOSE e \in Messages : TRUE

KindInit == Init /\ MQ!Init /\ kind \in {"emitter", "calls", "queue"}

KindNext ==
  /\ kind' = kind
  /\ \/ kind = "emitter" /\ Next /\ UNCHANGED rabbitVars
     \/ /\ kind = "calls" /\ MQ!Next /\ UNCHANGED vars
        /\ \A e \in Messages \ {FirstMessage} : pc'[e] = "new"
        /\ Cardinality(UnderWay') <= 2
     \/ /\ kind = "queue" /\ MQ!Next /\ UNCHANGED <<vars, losses>>
        /\ \A h \in Universal : pc'[h] = "new"

\* Nothing of a component is enabled in behaviours of another kind.
KindSpec ==
  /\ KindInit /\ [][KindNext]_<<vars, rabbitVars, kind>>
  /\ Fairness /\ MQ!Fairness

-----------------------------------------------------------------------------

\* RabbitMQ: clear() and health() know the one open connection, and messages are
\* settled on the channel they came on.
ChannelsAreKept == MQ!ChannelsAreKept

\* EventEmitter: what is owed to a handler is handled or given up; RabbitMQ:
\* events reach the handlers that were registered before them.
EventsAreHandledInTheEnd == OwedIsSettled /\ MQ!EventsReachHandlers

-----------------------------------------------------------------------------
(* Values for the constants                                                *)

HandlerRetries == [h \in Handlers |-> IF h = never THEN 0 ELSE IF h = once THEN 1 ELSE 2]

OneName == [e \in Messages |-> CHOOSE n \in Names : TRUE]

OneSubject == [h \in Consumers \ Universal |-> CHOOSE n \in Names : TRUE]

ASSUME RabbitAssumption == MQ!ConstantsAssumption

=============================================================================
