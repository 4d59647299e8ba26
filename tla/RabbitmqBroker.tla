--------------------------- MODULE RabbitmqBroker ---------------------------
(***************************************************************************)
(* The events broker on RabbitMQ: handlers consume a queue of their own,   *)
(* bound to an exchange, and settle each message on `this.channel`.        *)
(*                                                                         *)
(* publish() and the two registrations are calls that interleave at every  *)
(* await.  Each first makes sure that there is a connection and a channel, *)
(* a check that awaits between looking and assigning.  Connections may be  *)
(* lost at any time and are closed by clear(); the next call reconnects.   *)
(*                                                                         *)
(* RabbitMQ and amqplib are external: queues deliver in order, one message *)
(* per consumer until it is settled (prefetch 1); a closed connection puts *)
(* the unsettled messages back and takes its consumers away.  To settle a  *)
(* message on another channel, or with no channel, is an error that nobody *)
(* catches: it ends the process.                                           *)
(***************************************************************************)
EXTENDS Integers, Sequences, FiniteSets

CONSTANTS
  Events,         \* the events that are published, each once
  Names,          \* event names
  NameOf,         \* NameOf[e]: the name of event e
  Handlers,       \* handlers, each registered once
  Universal,      \* the handlers registered for all events
  Subject,        \* Subject[h]: the event name another handler is for
  MaxLosses,      \* bound: how often a connection is lost or closed
  None            \* undefined

Calls == Events \cup Handlers

ConstantsAssumption ==
  /\ NameOf \in [Events -> Names]
  /\ Universal \subseteq Handlers
  /\ Subject \in [Handlers \ Universal -> Names]
  /\ Events \cap Handlers = {}
  /\ MaxLosses \in Nat
  /\ None \notin Calls \cup Names

VARIABLES
  connection,     \* connection; connections are named after the call that opened them
  channel,        \* channel; likewise
  open,           \* the connections that are open at the server
  host,           \* host[k]: the connection of channel k
  pc,             \* pc[c]: what call c awaits
  via,            \* via[c]: the connection or channel c sent its request on
  flags,          \* eventsThatHaveConsumers, and "Universal" for haveAtLeastOneUniversalConsumer
  bound,          \* the handlers whose queues are bound to their exchange
  consumer,       \* consumer[h]: the channel h consumes on
  queue,          \* queue[h]: the events waiting in h's queue
  handling,       \* handling[h]: the event h has been given and not settled
  calls,          \* calls[h]: history: the events h was called with
  handled,        \* handled[h]: history: those it handled without throwing
  expected,       \* expected[e]: history: the handlers registered when e was published
  crashed,        \* an error nobody caught has ended the process
  losses,         \* history: connections lost or closed so far
  overlapped      \* history: two calls were connecting at once

server == <<open, host>>
links == <<connection, channel, server>>
history == <<expected, losses, overlapped>>
topology == <<flags, bound, consumer>>
deliveries == <<queue, handling, calls, handled>>
vars == <<connection, channel, server, pc, via, topology, deliveries,
          expected, crashed, losses, overlapped>>

-----------------------------------------------------------------------------

Connecting == {"connect", "create", "prefetch"}
Steps == {"fanout", "direct", "exchange", "queue", "bind", "consume"}

TypeOK ==
  /\ connection \in Calls \cup {None}
  /\ channel \in Calls \cup {None}
  /\ open \subseteq Calls
  /\ host \in [Calls -> Calls \cup {None}]
  /\ pc \in [Calls -> {"new", "done", "failed"} \cup Connecting \cup Steps]
  /\ via \in [Calls -> Calls \cup {None}]
  /\ flags \subseteq Names \cup {"Universal"}
  /\ bound \subseteq Handlers
  /\ consumer \in [Handlers -> Calls \cup {None}]
  /\ queue \in [Handlers -> Seq(Events)]
  /\ handling \in [Handlers -> Events \cup {None}]
  /\ calls \in [Handlers -> SUBSET Events]
  /\ handled \in [Handlers -> SUBSET Events]
  /\ expected \in [Events -> SUBSET Handlers]
  /\ crashed \in BOOLEAN
  /\ losses \in 0 .. MaxLosses
  /\ overlapped \in BOOLEAN

Init ==
  /\ connection = None /\ channel = None
  /\ open = {} /\ host = [k \in Calls |-> None]
  /\ pc = [c \in Calls |-> "new"] /\ via = [c \in Calls |-> None]
  /\ flags = {} /\ bound = {} /\ consumer = [h \in Handlers |-> None]
  /\ queue = [h \in Handlers |-> <<>>]
  /\ handling = [h \in Handlers |-> None]
  /\ calls = [h \in Handlers |-> {}]
  /\ handled = [h \in Handlers |-> {}]
  /\ expected = [e \in Events |-> {}]
  /\ crashed = FALSE /\ losses = 0 /\ overlapped = FALSE

-----------------------------------------------------------------------------
(* What a call does on this.channel                                        *)

\* Call c sends its next request on channel k, or throws where there is none.
Ask(c, step, k) ==
  /\ pc' = [pc EXCEPT ![c] = IF k = None THEN "failed" ELSE step]
  /\ via' = [via EXCEPT ![c] = k]

\* publish() looks at who consumes only after it is connected.
Direct(e, k) ==
  IF NameOf[e] \in flags
  THEN Ask(e, "direct", k)
  ELSE pc' = [pc EXCEPT ![e] = "done"] /\ via' = [via EXCEPT ![e] = None]

Proceed(c, k) ==
  IF c \in Handlers THEN Ask(c, "exchange", k)
  ELSE IF "Universal" \in flags THEN Ask(c, "fanout", k)
  ELSE Direct(c, k)

-----------------------------------------------------------------------------
(* assertConnected                                                         *)

NeedsConnection(k) == k = None

\* Mutant: a channel is created for each call.
NeedsChannel_Always(k) == TRUE

NeedsChannel(k) == k = None

Overlaps(c) == \E d \in Calls \ {c} : pc[d] \in Connecting

\* Once connected through k, c goes on with the channel there is, or creates one.
WithConnection(c, k) ==
  IF NeedsChannel(channel)
  THEN /\ pc' = [pc EXCEPT ![c] = "create"]
       /\ via' = [via EXCEPT ![c] = k]
  ELSE Proceed(c, channel)

\* publish(), registerEventHandler() and registerUniversalEventHandler() begin.
Begin(c) ==
  /\ ~crashed /\ pc[c] = "new"
  /\ IF NeedsConnection(connection)
     THEN /\ pc' = [pc EXCEPT ![c] = "connect"]
          /\ UNCHANGED via
     ELSE WithConnection(c, connection)
  /\ overlapped' = (overlapped \/ (Overlaps(c) /\ pc'[c] \in Connecting))
  /\ expected' = IF c \in Events
                 THEN [expected EXCEPT ![c] =
                         {h \in Handlers : pc[h] = "done"
                                           /\ (h \in Universal \/ Subject[h] = NameOf[c])}]
                 ELSE expected
  /\ UNCHANGED <<links, topology, deliveries, crashed, losses>>

Connected(c) ==
  /\ ~crashed /\ pc[c] = "connect"
  /\ connection' = c
  /\ open' = open \cup {c}
  /\ WithConnection(c, c)
  /\ UNCHANGED <<channel, host, topology, deliveries, crashed, history>>

ConnectFails(c) ==
  /\ ~crashed /\ pc[c] = "connect"
  /\ pc' = [pc EXCEPT ![c] = "failed"]
  /\ UNCHANGED <<links, via, topology, deliveries, crashed, history>>

Created(c) ==
  /\ ~crashed /\ pc[c] = "create" /\ via[c] \in open
  /\ channel' = c
  /\ host' = [host EXCEPT ![c] = via[c]]
  /\ pc' = [pc EXCEPT ![c] = "prefetch"]
  /\ via' = [via EXCEPT ![c] = c]
  /\ UNCHANGED <<connection, open, topology, deliveries, crashed, history>>

Prefetched(c) ==
  /\ ~crashed /\ pc[c] = "prefetch" /\ host[via[c]] \in open
  /\ Proceed(c, channel)
  /\ UNCHANGED <<links, topology, deliveries, crashed, history>>

-----------------------------------------------------------------------------
(* The answers to the requests of a call                                   *)

Answered(c, step) == ~crashed /\ pc[c] = step /\ host[via[c]] \in open

Delivered(e, handlers) ==
  queue' = [h \in Handlers |->
              IF h \in handlers \cap bound THEN Append(queue[h], e) ELSE queue[h]]

\* publish: the exchange is there, the event goes to every queue bound to it.
PublishedToAll(e) ==
  /\ Answered(e, "fanout")
  /\ IF channel = None
     THEN pc' = [pc EXCEPT ![e] = "failed"] /\ UNCHANGED <<via, queue>>
     ELSE Delivered(e, Universal) /\ Direct(e, channel)
  /\ UNCHANGED <<links, topology, handling, calls, handled, crashed, history>>

PublishedToNamed(e) ==
  /\ Answered(e, "direct")
  /\ IF channel = None
     THEN pc' = [pc EXCEPT ![e] = "failed"] /\ UNCHANGED queue
     ELSE /\ Delivered(e, {h \in Handlers \ Universal : Subject[h] = NameOf[e]})
          /\ pc' = [pc EXCEPT ![e] = "done"]
  /\ UNCHANGED <<links, via, topology, handling, calls, handled, crashed, history>>

\* registerEventHandler and registerUniversalEventHandler, one await after the other.
Asserted(h, step, next) ==
  /\ Answered(h, step)
  /\ Ask(h, next, channel)
  /\ UNCHANGED <<links, topology, deliveries, crashed, history>>

Bound(h) ==
  /\ Answered(h, "bind")
  /\ bound' = bound \cup {h}
  /\ Ask(h, "consume", channel)
  /\ UNCHANGED <<links, flags, consumer, deliveries, crashed, history>>

\* Mutant: the handler's id is remembered instead of the event's name.
Flag_Id(h) == h

Flag(h) == IF h \in Universal THEN "Universal" ELSE Subject[h]

Consuming(h) ==
  /\ Answered(h, "consume")
  /\ consumer' = [consumer EXCEPT ![h] = via[h]]
  /\ flags' = flags \cup {Flag(h)}
  /\ pc' = [pc EXCEPT ![h] = "done"]
  /\ UNCHANGED <<links, via, bound, deliveries, crashed, history>>

\* The connection a request was sent on is gone: the call rejects.
Rejected(c) ==
  /\ ~crashed
  /\ \/ pc[c] = "create" /\ via[c] \notin open
     \/ pc[c] \in {"prefetch"} \cup Steps /\ host[via[c]] \notin open
  /\ pc' = [pc EXCEPT ![c] = "failed"]
  /\ UNCHANGED <<links, via, topology, deliveries, crashed, history>>

-----------------------------------------------------------------------------
(* The consumers                                                           *)

Deliver(h) ==
  /\ ~crashed /\ consumer[h] # None /\ handling[h] = None /\ queue[h] # <<>>
  /\ handling' = [handling EXCEPT ![h] = Head(queue[h])]
  /\ queue' = [queue EXCEPT ![h] = Tail(@)]
  /\ calls' = [calls EXCEPT ![h] = @ \cup {Head(queue[h])}]
  /\ UNCHANGED <<links, pc, via, topology, handled, crashed, history>>

\* The message of h is settled, for good, if this.channel is the one it came on.
Settled(h) ==
  IF channel # None /\ consumer[h] = channel
  THEN handling' = [handling EXCEPT ![h] = None] /\ UNCHANGED crashed
  ELSE crashed' = TRUE /\ UNCHANGED handling

HandlerSucceeds(h) ==
  /\ ~crashed /\ handling[h] # None
  /\ handled' = [handled EXCEPT ![h] = @ \cup {handling[h]}]
  /\ Settled(h)
  /\ UNCHANGED <<links, pc, via, topology, queue, calls, history>>

\* nack(msg, false, false): the message is refused and not put back.
HandlerFails(h) ==
  /\ ~crashed /\ handling[h] # None
  /\ Settled(h)
  /\ UNCHANGED <<links, pc, via, topology, queue, calls, handled, history>>

-----------------------------------------------------------------------------
(* Connections that go away                                                *)

\* Mutant: the connection is not forgotten.
Closes_Channel(k) ==
  /\ ~crashed /\ k \in open /\ losses < MaxLosses
  /\ losses' = losses + 1
  /\ open' = open \ {k}
  /\ connection' = k /\ channel' = None
  /\ UNCHANGED <<host, pc, via, topology, deliveries, expected, crashed, overlapped>>

\* The 'close' listener of connection k forgets the current connection and
\* channel, whether they are k's or not.
Closes(k) ==
  /\ ~crashed /\ k \in open /\ losses < MaxLosses
  /\ losses' = losses + 1
  /\ open' = open \ {k}
  /\ connection' = None /\ channel' = None
  /\ LET gone == {h \in Handlers : consumer[h] # None /\ host[consumer[h]] = k}
     IN /\ consumer' = [h \in Handlers |-> IF h \in gone THEN None ELSE consumer[h]]
        /\ queue' = [h \in Handlers |->
                       IF h \in gone /\ handling[h] # None
                       THEN <<handling[h]>> \o queue[h] ELSE queue[h]]
  /\ UNCHANGED <<host, pc, via, flags, bound, handling, calls, handled,
                 expected, crashed, overlapped>>

Lost == \E k \in Calls : Closes(k)

\* Cancelling the consumers after that finds no channel.
clear == connection # None /\ Closes(connection)

-----------------------------------------------------------------------------

Answer(c) ==
  \/ Connected(c) \/ Created(c) \/ Prefetched(c) \/ Rejected(c)
  \/ (c \in Events /\ (PublishedToAll(c) \/ PublishedToNamed(c)))
  \/ /\ c \in Handlers
     /\ \/ Asserted(c, "exchange", "queue") \/ Asserted(c, "queue", "bind")
        \/ Bound(c) \/ Consuming(c)

Next ==
  \/ \E c \in Calls : Begin(c) \/ ConnectFails(c) \/ Answer(c)
  \/ \E h \in Handlers : Deliver(h) \/ HandlerSucceeds(h) \/ HandlerFails(h)
  \/ Lost
  \/ clear

Spec == Init /\ [][Next]_vars

\* RabbitMQ answers and delivers as long as the connection lives, and handlers
\* settle; nothing says that anyone publishes or registers.
Fairness ==
  /\ WF_vars(\E c \in Calls : Answer(c))
  /\ WF_vars(\E h \in Handlers : Deliver(h) \/ HandlerSucceeds(h) \/ HandlerFails(h))

-----------------------------------------------------------------------------
(* Properties                                                              *)

\* `connection`, which clear() closes and health() reports on, is the one open
\* connection, unless two calls were connecting at once: none is leaked, and
\* 'up' is never said of one that is gone.
ConnectionIsKnown == overlapped \/ open = {connection} \ {None}

\* Messages are acknowledged on the channel they came on although the callback
\* reads this.channel when the handler has settled: only a lost connection or
\* calls that connect at once end the process with an error nobody catches.
SettledOnTheirChannel == crashed => overlapped \/ losses > 0

\* Both, of variables that keep their types.
ChannelsAreKept == TypeOK /\ ConnectionIsKnown /\ SettledOnTheirChannel

\* A handler whose registration was over when an event was published is given
\* the event, however many wait in its queue and whichever of them fail, unless
\* a connection was lost or calls connected at once.
EventsReachHandlers ==
  \A e \in Events, h \in Handlers :
    (h \in expected[e]) ~> (e \in calls[h] \/ overlapped \/ losses > 0)

=============================================================================
