-------------------------- MODULE WebhookDispatch --------------------------
(***************************************************************************)
(* The registry of webhooks together with what reads it: the handler of    *)
(* all application events, which creates an outbox event for each webhook  *)
(* that wants the event, and the test command, which sends one generated   *)
(* event for each name a webhook is registered for.  Both await between    *)
(* what they read and what they create, while the commands of              *)
(* WebhookRegistry change the webhooks.  What happens to an outbox event   *)
(* afterwards is the subject of WebhookOutbox.                             *)
(***************************************************************************)
EXTENDS WebhookRegistry, Naturals, Sequences, FiniteSets

CONSTANTS
  Names,          \* names of application events
  Urls,
  Publications,   \* application events that reach the handler
  NameOf,         \* NameOf[p]: the name of the event p
  Tests           \* calls of the test command

DispatchAssumption ==
  /\ IsFiniteSet(Ids) /\ IsFiniteSet(Names)
  /\ Contents \subseteq [events : SUBSET Names, deliveryUrl : Urls]
  /\ NameOf \in [Publications -> Names]
  /\ Publications \cap Tests = {}

VARIABLES
  repo,       \* the outbox events, in the order of their creation
  handling,   \* handling[p]: where the handler is with event p, and what it read
  testing,    \* testing[t]: where the test is, what it read and has left to send
  ever,       \* history: who wanted an event, or what a webhook was, at any time
  always      \* and all the time, until it was read

dispatchVars == <<repo, handling, testing, ever, always>>

-----------------------------------------------------------------------------

OutboxEvents == [cause : Publications \cup Tests, name : Names, id : Ids, deliveryUrl : Urls]

CreateOutboxEvent(cause, name, id, webhook) ==
  [cause |-> cause, name |-> name, id |-> id, deliveryUrl |-> webhook.content.deliveryUrl]

NoTest == [pc |-> "new", id |-> Null, webhook |-> Null, left |-> {}]

DispatchTypeOK ==
  /\ repo \in Seq(OutboxEvents)
  /\ handling \in [Publications -> [pc : {"new", "called", "read", "done"},
                                    webhooks : SUBSET (Ids \X Webhooks)]]
  /\ testing \in [Tests -> [pc : {"new", "allowed", "sending", "done"}, id : Ids \cup {Null},
                            webhook : Webhooks \cup {Null}, left : SUBSET Names]]

DispatchInit ==
  /\ Init
  /\ repo = <<>>
  /\ handling = [p \in Publications |-> [pc |-> "new", webhooks |-> {}]]
  /\ testing = [t \in Tests |-> NoTest]
  /\ ever = [x \in Publications \cup Tests |-> {}]
  /\ always = [x \in Publications |-> {}]

\* The webhooks that want events of a name, disabled ones included.
ofEvent(webhooks, name) ==
  {w \in Ids \X Webhooks : w[2] = webhooks[w[1]] /\ name \in w[2].content.events}

-----------------------------------------------------------------------------
(* All events                                                              *)

\* The handler is called; its decorator logs that before it reads anything.
publish(p) ==
  /\ handling[p].pc = "new"
  /\ handling' = [handling EXCEPT ![p].pc = "called"]
  /\ UNCHANGED <<vars, repo, testing>>

handle(p) ==
  /\ handling[p].pc = "called"
  /\ handling' = [handling EXCEPT ![p] =
                    [pc |-> "read", webhooks |-> ofEvent(map, NameOf[p])]]
  /\ UNCHANGED <<vars, repo, testing>>

\* Mutant: the webhooks are looked up again when their outbox events are created.
Targets_Now(p) == ofEvent(map, NameOf[p])

Targets(p) == handling[p].webhooks

\* One outbox event for each webhook that was read, in the order of the map.
CreateBatchOutboxEvents(p) ==
  /\ handling[p].pc = "read"
  /\ \E batch \in [1 .. Cardinality(Targets(p)) -> Targets(p)] :
       /\ \A i, j \in DOMAIN batch : batch[i] = batch[j] => i = j
       /\ repo' = repo \o [i \in DOMAIN batch |->
                     CreateOutboxEvent(p, NameOf[p], batch[i][1], batch[i][2])]
  /\ handling' = [handling EXCEPT ![p] = [pc |-> "done", webhooks |-> {}]]
  /\ UNCHANGED <<vars, testing>>

-----------------------------------------------------------------------------
(* Tests                                                                   *)

\* Only the assignee may test a webhook.
testWebhook(t, id, user) ==
  /\ testing[t].pc = "new"
  /\ map[id] # Null /\ map[id].assigneeId = user
  /\ testing' = [testing EXCEPT ![t] = [NoTest EXCEPT !.pc = "allowed", !.id = id]]
  /\ UNCHANGED <<vars, repo, handling>>

\* The handler reads the webhook again, and throws if it has gone meanwhile.
ReadTested(t) ==
  /\ testing[t].pc = "allowed"
  /\ LET webhook == map[testing[t].id] IN
     testing' = [testing EXCEPT ![t] =
       IF webhook = Null THEN [@ EXCEPT !.pc = "done"]
       ELSE [@ EXCEPT !.pc = "sending", !.webhook = webhook, !.left = webhook.content.events]]
  /\ UNCHANGED <<vars, repo, handling>>

\* Mutant: each event is sent to the url the webhook has by now.
Tested_Now(t) ==
  IF map[testing[t].id] # Null THEN map[testing[t].id] ELSE testing[t].webhook

Tested(t) == testing[t].webhook

\* One event after the other is created and sent.
SendEventToWebhook(t) ==
  /\ testing[t].pc = "sending"
  /\ \E name \in testing[t].left :
       /\ repo' = Append(repo, CreateOutboxEvent(t, name, testing[t].id, Tested(t)))
       /\ testing' = [testing EXCEPT ![t].left = @ \ {name}]
  /\ UNCHANGED <<vars, handling>>

TestDone(t) ==
  /\ testing[t].pc = "sending" /\ testing[t].left = {}
  /\ testing' = [testing EXCEPT ![t].pc = "done"]
  /\ UNCHANGED <<vars, repo, handling>>

-----------------------------------------------------------------------------

Dispatch ==
  \/ \E p \in Publications : publish(p) \/ handle(p) \/ CreateBatchOutboxEvents(p)
  \/ \E t \in Tests :
       \/ \E id \in Ids, user \in Users : testWebhook(t, id, user)
       \/ ReadTested(t)
       \/ SendEventToWebhook(t)
       \/ TestDone(t)

\* What the histories remember of the state that a step leads to.
Watch ==
  LET Wanted(p) == {<<w[1], w[2].content.deliveryUrl>> : w \in ofEvent(map', NameOf[p])}
      Watched(x) == IF x \in Tests THEN testing'[x].pc = "allowed" ELSE handling'[x].pc = "called"
      Seen(x) == IF x \in Tests THEN {map'[testing'[x].id]} ELSE Wanted(x)
  IN /\ ever' = [x \in Publications \cup Tests |->
                   IF Watched(x) THEN ever[x] \cup Seen(x) ELSE ever[x]]
     /\ always' = [p \in Publications |->
                     IF handling'[p].pc # "called" THEN always[p]
                     ELSE IF handling[p].pc = "new" THEN Wanted(p)
                     ELSE always[p] \cap Wanted(p)]

DispatchNext == (Dispatch \/ (Next /\ UNCHANGED <<repo, handling, testing>>)) /\ Watch

DispatchSpec == DispatchInit /\ [][DispatchNext]_<<vars, dispatchVars>>

-----------------------------------------------------------------------------
(* Properties                                                              *)

Of(x) == {i \in DOMAIN repo : repo[i].cause = x}

\* An event has one outbox event for every webhook that wanted it all the time
\* from the call of the handler until it read the registry, at most one for any
\* webhook, and none for a webhook that did not want it, or at a url that was
\* not its own, at any time in between - though commands come at every await.
EverySubscriberIsSentOnce ==
  \A p \in Publications :
    /\ handling[p].pc = "done" =>
         \A target \in always[p] :
           \E i \in Of(p) : <<repo[i].id, repo[i].deliveryUrl>> = target
    /\ \A i \in Of(p) : /\ <<repo[i].id, repo[i].deliveryUrl>> \in ever[p]
                        /\ \A j \in Of(p) : repo[j].id = repo[i].id => i = j

\* A test sends, once and to one url, the events of a content the webhook had
\* between the check of the assignee and the read after it, however often the
\* webhook is edited, or even deleted, while the events are sent one by one.
TestsSendOneContent ==
  \A t \in Tests :
    testing[t].pc = "done" =>
      \/ Of(t) = {} /\ Null \in ever[t]
      \/ \E webhook \in ever[t] \ {Null} :
           /\ {repo[i].name : i \in Of(t)} = webhook.content.events
           /\ Cardinality(Of(t)) = Cardinality(webhook.content.events)
           /\ \A i \in Of(t) : repo[i].deliveryUrl = webhook.content.deliveryUrl

\* Whatever commands come meanwhile, webhooks are sent the events they
\* subscribed to, with one content each, for events of the application and for
\* tests.
WebhooksAreSentTheirEvents == DispatchTypeOK /\ EverySubscriberIsSentOnce /\ TestsSendOneContent

=============================================================================
