--------------------------- MODULE WebhooksProofs ---------------------------
(***************************************************************************)
(* What the run of the webhooks checks, for any webhooks, users, contents, *)
(* commands, application events and tests.                                 *)
(*                                                                         *)
(* A command remembers its user and a copy of a webhook across two awaits. *)
(* AssigneeInv says that both are still right by the time it writes, which *)
(* they are since a webhook's assignee never changes.  SingleInv says that *)
(* a webhook without overlaps has one command at most, whose copy is good. *)
(***************************************************************************)
EXTENDS WebhookDispatch, FiniteSetTheorems, TLAPS

UnderWay(c) == command[c] # Null

\* Whoever may command a webhook created it, and so did the assignee of each
\* copy of it.
AssigneeInv ==
  /\ \A id \in Ids : map[id] # Null => map[id].assigneeId = createdBy[id]
  /\ \A c \in Commands : UnderWay(c) =>
       /\ createdBy[command[c].id] = command[c].user
       /\ command[c].webhook # Null =>
            command[c].webhook.assigneeId = createdBy[command[c].id]

\* A webhook on which no commands overlapped.
ExactOn(id) ==
  /\ map[id] = intended[id]
  /\ \A c, d \in Commands :
       UnderWay(c) /\ UnderWay(d) /\ command[c].id = id /\ command[d].id = id => c = d
  /\ \A c \in Commands :
       UnderWay(c) /\ command[c].id = id /\ command[c].webhook # Null =>
         command[c].webhook = map[id]

SingleInv == \A id \in Ids \ overlapped : ExactOn(id)

-----------------------------------------------------------------------------
(* Lemmas                                                                  *)

\* What a command makes of a webhook is a webhook, or nothing.
LEMMA ChangedType ==
  ASSUME NEW cmd \in CommandsUnderWay, NEW webhook \in Webhooks \cup {Null}
  PROVE  Changed(cmd, webhook) \in Webhooks \cup {Null}
<1>1. cmd.kind \in Kinds /\ cmd.content \in Contents
  BY DEF CommandsUnderWay
<1>2. CASE webhook = Null
  BY <1>2 DEF Changed
<1>3. CASE webhook # Null
  <2>1. webhook \in Webhooks
    BY <1>3
  <2>2. /\ EditWebhook(webhook, cmd.content) \in Webhooks
        /\ DisableWebhook(webhook) \in Webhooks
        /\ EnableWebhook(webhook) \in Webhooks
    BY <1>1, <2>1 DEF Webhooks, EditWebhook, DisableWebhook, EnableWebhook
  <2>3. CASE cmd.kind = "edit"
    BY <1>3, <2>2, <2>3 DEF Changed
  <2>4. CASE cmd.kind = "disable"
    BY <1>3, <2>2, <2>4 DEF Changed
  <2>5. CASE cmd.kind = "enable"
    BY <1>3, <2>2, <2>5 DEF Changed
  <2>6. CASE cmd.kind = "delete"
    BY <1>3, <2>6 DEF Changed
  <2> QED
    BY <1>1, <2>3, <2>4, <2>5, <2>6 DEF Kinds
<1> QED
  BY <1>2, <1>3

\* Nor does it change the assignee.
LEMMA ChangedAssignee ==
  ASSUME NEW cmd \in CommandsUnderWay, NEW webhook \in Webhooks,
         Changed(cmd, webhook) # Null
  PROVE  Changed(cmd, webhook).assigneeId = webhook.assigneeId
<1>1. cmd.kind \in Kinds
  BY DEF CommandsUnderWay
<1>2. webhook # Null
  BY ConstantsAssumption
<1>3. CASE cmd.kind = "edit"
  BY <1>2, <1>3 DEF Changed, EditWebhook, Webhooks
<1>4. CASE cmd.kind = "disable"
  BY <1>2, <1>4 DEF Changed, DisableWebhook, Webhooks
<1>5. CASE cmd.kind = "enable"
  BY <1>2, <1>5 DEF Changed, EnableWebhook, Webhooks
<1>6. CASE cmd.kind = "delete"
  BY <1>2, <1>6 DEF Changed
<1> QED
  BY <1>1, <1>3, <1>4, <1>5, <1>6 DEF Kinds

\* A command that is under way, as TypeOK describes it.
LEMMA CommandType ==
  ASSUME TypeOK, NEW c \in Commands, UnderWay(c)
  PROVE  /\ command[c] \in CommandsUnderWay
         /\ command[c].id \in Ids
         /\ command[c].user \in Users
         /\ command[c].webhook \in Webhooks \cup {Null}
<1>1. command[c] \in CommandsUnderWay
  BY DEF TypeOK, UnderWay
<1> QED
  BY <1>1 DEF CommandsUnderWay

-----------------------------------------------------------------------------
(* Types                                                                   *)

\* What a command stores or remembers is a webhook, or nothing.
LEMMA RegistryTypeStep == TypeOK /\ [Next]_vars => TypeOK'
<1> SUFFICES ASSUME TypeOK, [Next]_vars
             PROVE  TypeOK'
  OBVIOUS
<1>1. ASSUME NEW id \in Ids, NEW user \in Users, NEW content \in Contents,
             createWebhook(id, user, content)
      PROVE  TypeOK'
  <2>1. [assigneeId |-> user, content |-> content, isActive |-> TRUE] \in Webhooks
    BY DEF Webhooks
  <2> QED
    BY <1>1, <2>1 DEF TypeOK, createWebhook
<1>2. ASSUME NEW id \in Ids, NEW user \in Users, NEW content \in Contents,
             NEW c \in Commands, NEW kind \in Kinds,
             assertWebhookAccessPossiblity(c, kind, id, user, content)
      PROVE  TypeOK'
  <2>1. [kind |-> kind, id |-> id, user |-> user, content |-> content, webhook |-> Null]
          \in CommandsUnderWay
    BY DEF CommandsUnderWay
  <2>2. overlapped' \in SUBSET Ids
    BY <1>2 DEF TypeOK, assertWebhookAccessPossiblity, Start
  <2> QED
    BY <1>2, <2>1, <2>2 DEF TypeOK, assertWebhookAccessPossiblity, Start
<1>3. ASSUME NEW c \in Commands, ofId(c)
      PROVE  TypeOK'
  <2>1. command[c] \in CommandsUnderWay /\ command[c].id \in Ids
    BY <1>3, CommandType DEF ofId, UnderWay
  <2>2. map[command[c].id] \in Webhooks \cup {Null}
    BY <2>1 DEF TypeOK
  <2>3. [command[c] EXCEPT !.webhook = map[command[c].id]] \in CommandsUnderWay
    BY <2>1, <2>2 DEF CommandsUnderWay
  <2> QED
    BY <1>3, <2>3 DEF TypeOK, ofId
<1>4. ASSUME NEW c \in Commands, NEW kind \in Kinds, Execute(c, kind)
      PROVE  TypeOK'
  <2>1. /\ command[c] \in CommandsUnderWay
        /\ command[c].id \in Ids
        /\ command[c].webhook \in Webhooks \cup {Null}
    BY <1>4, CommandType DEF Execute, UnderWay
  <2>2. /\ Changed(command[c], command[c].webhook) \in Webhooks \cup {Null}
        /\ Changed(command[c], intended[command[c].id]) \in Webhooks \cup {Null}
    BY <2>1, ChangedType DEF TypeOK
  <2> QED
    BY <1>4, <2>1, <2>2 DEF TypeOK, Execute
<1>5. ASSUME NEW c \in Commands, Throw(c)
      PROVE  TypeOK'
  BY <1>5 DEF TypeOK, Throw
<1>6. CASE UNCHANGED vars
  BY <1>6 DEF TypeOK, vars
<1> QED
  BY <1>1, <1>2, <1>3, <1>4, <1>5, <1>6
     DEF Next, editWebhook, disableWebhook, enableWebhook, deleteWebhook, Kinds

\* The registry holds webhooks, and commands hold what they read of them.
THEOREM TypeCorrect == Spec => []TypeOK
<1>1. Init => TypeOK
  BY DEF Init, TypeOK
<1> QED
  BY <1>1, RegistryTypeStep, PTL DEF Spec

-----------------------------------------------------------------------------
(* The assignee                                                            *)

\* A webhook that has not been created yet has no command under way.
LEMMA NoCommandBeforeCreation ==
  ASSUME TypeOK, AssigneeInv, NEW id \in Ids, createdBy[id] = Null,
         NEW c \in Commands, UnderWay(c)
  PROVE  command[c].id # id
<1>1. createdBy[command[c].id] = command[c].user /\ command[c].user \in Users
  BY CommandType DEF AssigneeInv
<1> QED
  BY <1>1, ConstantsAssumption

\* What the user of a command created is still the user's when it writes.
THEOREM AssigneeInvariant == Spec => []AssigneeInv
<1>1. Init => AssigneeInv
  BY DEF Init, AssigneeInv, UnderWay
<1>2. TypeOK /\ TypeOK' /\ AssigneeInv /\ [Next]_vars => AssigneeInv'
  <2> SUFFICES ASSUME TypeOK, TypeOK', AssigneeInv, [Next]_vars
               PROVE  AssigneeInv'
    OBVIOUS
  <2>1. ASSUME NEW id \in Ids, NEW user \in Users, NEW content \in Contents,
               createWebhook(id, user, content)
        PROVE  AssigneeInv'
    <3>1. \A c \in Commands : UnderWay(c) => command[c].id # id /\ command[c].id \in Ids
      BY <2>1, NoCommandBeforeCreation, CommandType DEF createWebhook
    <3>2. /\ map'[id].assigneeId = user /\ createdBy'[id] = user
          /\ \A i \in Ids \ {id} : map'[i] = map[i] /\ createdBy'[i] = createdBy[i]
          /\ command' = command
      BY <2>1 DEF createWebhook, TypeOK
    <3> QED
      BY <3>1, <3>2 DEF AssigneeInv, UnderWay
  <2>2. ASSUME NEW id \in Ids, NEW user \in Users, NEW content \in Contents,
               NEW c \in Commands, NEW kind \in Kinds,
               assertWebhookAccessPossiblity(c, kind, id, user, content)
        PROVE  AssigneeInv'
    <3>1. /\ map' = map /\ createdBy' = createdBy
          /\ createdBy[id] = user
          /\ command'[c].id = id /\ command'[c].user = user /\ command'[c].webhook = Null
          /\ \A d \in Commands \ {c} : command'[d] = command[d]
      BY <2>2 DEF assertWebhookAccessPossiblity, Start, TypeOK, AssigneeInv
    <3> QED
      BY <3>1 DEF AssigneeInv, UnderWay
  <2>3. ASSUME NEW c \in Commands, ofId(c)
        PROVE  AssigneeInv'
    <3>1. command[c] \in CommandsUnderWay /\ command[c].id \in Ids /\ UnderWay(c)
      BY <2>3, CommandType DEF ofId, UnderWay
    <3>2. /\ map' = map /\ createdBy' = createdBy
          /\ \A d \in Commands \ {c} : command'[d] = command[d]
      BY <2>3 DEF ofId, TypeOK
    <3>3. CASE map[command[c].id] = Null
      <4>1. command'[c] = Null
        BY <2>3, <3>3 DEF ofId, TypeOK
      <4> QED
        BY <3>2, <4>1 DEF AssigneeInv, UnderWay
    <3>4. CASE map[command[c].id] # Null
      <4>1. command'[c] = [command[c] EXCEPT !.webhook = map[command[c].id]]
        BY <2>3, <3>4 DEF ofId, TypeOK
      <4>2. /\ command'[c].id = command[c].id /\ command'[c].user = command[c].user
            /\ command'[c].webhook = map[command[c].id]
        BY <3>1, <4>1 DEF CommandsUnderWay
      <4> QED
        BY <3>1, <3>2, <4>2 DEF AssigneeInv, UnderWay
    <3> QED
      BY <3>3, <3>4
  <2>4. ASSUME NEW c \in Commands, NEW kind \in Kinds, Execute(c, kind)
        PROVE  AssigneeInv'
    <3>1. /\ command[c] \in CommandsUnderWay /\ command[c].id \in Ids
          /\ command[c].webhook \in Webhooks /\ UnderWay(c) /\ command[c].webhook # Null
      BY <2>4, CommandType DEF Execute, UnderWay
    <3>2. /\ createdBy' = createdBy /\ command'[c] = Null
          /\ map'[command[c].id] = Changed(command[c], command[c].webhook)
          /\ \A i \in Ids \ {command[c].id} : map'[i] = map[i]
          /\ \A d \in Commands \ {c} : command'[d] = command[d]
      BY <2>4, <3>1 DEF Execute, TypeOK
    <3>3. map'[command[c].id] # Null =>
            map'[command[c].id].assigneeId = createdBy[command[c].id]
      BY <3>1, <3>2, ChangedAssignee DEF AssigneeInv
    <3> QED
      BY <3>2, <3>3 DEF AssigneeInv, UnderWay
  <2>5. ASSUME NEW c \in Commands, Throw(c)
        PROVE  AssigneeInv'
    <3>1. /\ map' = map /\ createdBy' = createdBy /\ command'[c] = Null
          /\ \A d \in Commands \ {c} : command'[d] = command[d]
      BY <2>5 DEF Throw, TypeOK
    <3> QED
      BY <3>1 DEF AssigneeInv, UnderWay
  <2>6. CASE UNCHANGED vars
    BY <2>6 DEF AssigneeInv, UnderWay, vars
  <2> QED
    BY <2>1, <2>2, <2>3, <2>4, <2>5, <2>6
       DEF Next, editWebhook, disableWebhook, enableWebhook, deleteWebhook, Kinds
<1> QED
  BY <1>1, <1>2, TypeCorrect, PTL DEF Spec

\* Only a command of the user who created a webhook changes it, for any number
\* of overlapping commands, although it looked at the assignee two awaits before.
THEOREM AssigneeCorrect == Spec => OnlyTheAssigneeChanges
<1> DEFINE Step ==
      \A id \in Ids : createdBy[id] # Null /\ map'[id] # map[id] =>
        /\ map'[id] # Null => map'[id].assigneeId = createdBy[id]
        /\ \E c \in Commands : /\ command[c] # Null /\ command'[c] = Null
                               /\ command[c].id = id
                               /\ command[c].user = createdBy[id]
<1>1. TypeOK /\ AssigneeInv /\ AssigneeInv' /\ [Next]_vars => [Step]_vars
  <2> SUFFICES ASSUME TypeOK, AssigneeInv, AssigneeInv', Next,
                      NEW id \in Ids, createdBy[id] # Null, map'[id] # map[id]
               PROVE  /\ map'[id] # Null => map'[id].assigneeId = createdBy[id]
                      /\ \E c \in Commands : /\ command[c] # Null /\ command'[c] = Null
                                             /\ command[c].id = id
                                             /\ command[c].user = createdBy[id]
    OBVIOUS
  <2>1. PICK c \in Commands, kind \in Kinds : Execute(c, kind)
    <3>1. ASSUME NEW i \in Ids, NEW user \in Users, NEW content \in Contents,
                 createWebhook(i, user, content)
          PROVE  FALSE
      BY <3>1 DEF createWebhook, TypeOK
    <3>2. ASSUME NEW i \in Ids, NEW user \in Users, NEW content \in Contents,
                 NEW c \in Commands, NEW kind \in Kinds,
                 assertWebhookAccessPossiblity(c, kind, i, user, content)
          PROVE  FALSE
      BY <3>2 DEF assertWebhookAccessPossiblity, Start
    <3>3. ASSUME NEW c \in Commands, ofId(c) \/ Throw(c)
          PROVE  FALSE
      BY <3>3 DEF ofId, Throw
    <3> QED
      BY <3>1, <3>2, <3>3
      DEF Next, editWebhook, disableWebhook, enableWebhook, deleteWebhook, Kinds
  <2>2. command[c].id \in Ids /\ UnderWay(c)
    BY <2>1, CommandType DEF Execute, UnderWay
  <2>3. /\ command'[c] = Null /\ createdBy' = createdBy
        /\ command[c].id = id
    BY <2>1, <2>2 DEF Execute, TypeOK
  <2>4. command[c].user = createdBy[id]
    BY <2>2, <2>3 DEF AssigneeInv
  <2>5. map'[id] # Null => map'[id].assigneeId = createdBy[id]
    BY <2>3 DEF AssigneeInv
  <2> QED
    BY <2>2, <2>3, <2>4, <2>5 DEF UnderWay
<1> QED
  BY <1>1, TypeCorrect, AssigneeInvariant, PTL DEF Spec, OnlyTheAssigneeChanges

-----------------------------------------------------------------------------
(* Lost updates                                                            *)

\* What a webhook without overlaps is does not depend on the commands on others.
LEMMA OnlyOwnCommands ==
  ASSUME NEW id \in Ids, ExactOn(id), NEW c \in Commands,
         map'[id] = map[id], intended'[id] = intended[id],
         \A d \in Commands \ {c} : command'[d] = command[d],
         UnderWay(c)' => command'[c].id # id
  PROVE  ExactOn(id)'
  BY DEF ExactOn, UnderWay

\* A webhook no two commands of which overlapped is what its commands made of
\* it: no update was lost and nothing deleted is back.
THEOREM Exact == Spec => []ExactUnlessOverlapped
<1>1. Init => SingleInv
  BY DEF Init, SingleInv, ExactOn, UnderWay
<1>2. TypeOK /\ AssigneeInv /\ SingleInv /\ [Next]_vars => SingleInv'
  <2> SUFFICES ASSUME TypeOK, AssigneeInv, SingleInv, [Next]_vars,
                      NEW id \in Ids, id \notin overlapped'
               PROVE  ExactOn(id)'
    BY DEF SingleInv
  <2>1. ASSUME NEW i \in Ids, NEW user \in Users, NEW content \in Contents,
               createWebhook(i, user, content)
        PROVE  ExactOn(id)'
    <3>1. overlapped' = overlapped /\ command' = command /\ ExactOn(id)
      BY <2>1 DEF createWebhook, SingleInv
    <3>2. map'[id] = intended'[id]
      BY <2>1, <3>1 DEF createWebhook, TypeOK, ExactOn
    <3>3. CASE i = id
      <4>1. \A c \in Commands : UnderWay(c) => command[c].id # id
        BY <2>1, <3>3, NoCommandBeforeCreation DEF createWebhook
      <4> QED
        BY <3>1, <3>2, <4>1 DEF ExactOn, UnderWay
    <3>4. CASE i # id
      <4>1. map'[id] = map[id]
        BY <2>1, <3>4 DEF createWebhook, TypeOK
      <4> QED
        BY <3>1, <3>2, <4>1 DEF ExactOn, UnderWay
    <3> QED
      BY <3>3, <3>4
  <2>2. ASSUME NEW i \in Ids, NEW user \in Users, NEW content \in Contents,
               NEW c \in Commands, NEW kind \in Kinds,
               assertWebhookAccessPossiblity(c, kind, i, user, content)
        PROVE  ExactOn(id)'
    <3>1. /\ map' = map /\ intended' = intended /\ ExactOn(id)
          /\ command'[c].id = i /\ command'[c].webhook = Null
          /\ \A d \in Commands \ {c} : command'[d] = command[d]
      BY <2>2 DEF assertWebhookAccessPossiblity, Start, TypeOK, SingleInv
    <3>2. CASE i = id
      <4>1. \A d \in Commands : UnderWay(d) => command[d].id # id
        BY <2>2, <3>2 DEF assertWebhookAccessPossiblity, Start, UnderWayFor, UnderWay
      <4> QED
        BY <3>1, <3>2, <4>1 DEF ExactOn, UnderWay
    <3>3. CASE i # id
      BY <3>1, <3>3, OnlyOwnCommands
    <3> QED
      BY <3>2, <3>3
  <2>3. ASSUME NEW c \in Commands, ofId(c)
        PROVE  ExactOn(id)'
    <3>1. command[c] \in CommandsUnderWay /\ command[c].id \in Ids /\ UnderWay(c)
      BY <2>3, CommandType DEF ofId, UnderWay
    <3>2. /\ map' = map /\ intended' = intended /\ ExactOn(id)
          /\ \A d \in Commands \ {c} : command'[d] = command[d]
      BY <2>3 DEF ofId, TypeOK, SingleInv
    <3>3. CASE map[command[c].id] = Null
      <4>1. command'[c] = Null
        BY <2>3, <3>3 DEF ofId, TypeOK
      <4> QED
        BY <3>2, <4>1, OnlyOwnCommands DEF UnderWay
    <3>4. CASE map[command[c].id] # Null
      <4>1. command'[c] = [command[c] EXCEPT !.webhook = map[command[c].id]]
        BY <2>3, <3>4 DEF ofId, TypeOK
      <4>2. command'[c].id = command[c].id /\ command'[c].webhook = map[command[c].id]
        BY <3>1, <4>1 DEF CommandsUnderWay
      <4> QED
        BY <3>1, <3>2, <4>2 DEF ExactOn, UnderWay
    <3> QED
      BY <3>3, <3>4
  <2>4. ASSUME NEW c \in Commands, NEW kind \in Kinds, Execute(c, kind)
        PROVE  ExactOn(id)'
    <3>1. /\ command[c].id \in Ids /\ UnderWay(c) /\ command[c].webhook # Null
      BY <2>4, CommandType DEF Execute, UnderWay
    <3>2. /\ ExactOn(id) /\ command'[c] = Null
          /\ \A d \in Commands \ {c} : command'[d] = command[d]
      BY <2>4 DEF Execute, TypeOK, SingleInv
    <3>3. CASE command[c].id = id
      <4>1. command[c].webhook = map[id] /\ map[id] = intended[id]
        BY <3>1, <3>2, <3>3 DEF ExactOn
      <4>2. map'[id] = intended'[id]
        BY <2>4, <3>3, <4>1 DEF Execute, TypeOK
      <4>3. \A d \in Commands \ {c} : UnderWay(d) => command[d].id # id
        BY <3>1, <3>2, <3>3 DEF ExactOn
      <4> QED
        BY <3>2, <4>2, <4>3 DEF ExactOn, UnderWay
    <3>4. CASE command[c].id # id
      <4>1. map'[id] = map[id] /\ intended'[id] = intended[id]
        BY <2>4, <3>1, <3>4 DEF Execute, TypeOK
      <4> QED
        BY <3>2, <4>1, OnlyOwnCommands DEF UnderWay
    <3> QED
      BY <3>3, <3>4
  <2>5. ASSUME NEW c \in Commands, Throw(c)
        PROVE  ExactOn(id)'
    <3>1. /\ map' = map /\ intended' = intended /\ ExactOn(id) /\ command'[c] = Null
          /\ \A d \in Commands \ {c} : command'[d] = command[d]
      BY <2>5 DEF Throw, TypeOK, SingleInv
    <3> QED
      BY <3>1, OnlyOwnCommands DEF UnderWay
  <2>6. CASE UNCHANGED vars
    BY <2>6 DEF SingleInv, ExactOn, UnderWay, vars
  <2> QED
    BY <2>1, <2>2, <2>3, <2>4, <2>5, <2>6
       DEF Next, editWebhook, disableWebhook, enableWebhook, deleteWebhook, Kinds
<1>3. SingleInv => ExactUnlessOverlapped
  BY DEF SingleInv, ExactOn, ExactUnlessOverlapped
<1> QED
  BY <1>1, <1>2, <1>3, TypeCorrect, AssigneeInvariant, PTL DEF Spec

-----------------------------------------------------------------------------
(* What webhooks are sent                                                  *)

\* The webhooks that want an event now, with the url it is to be sent to.
Wants(p) == {<<w[1], w[2].content.deliveryUrl>> : w \in ofEvent(map, NameOf[p])}

\* The ones that the handler has read.
Read(p) == {<<w[1], w[2].content.deliveryUrl>> : w \in handling[p].webhooks}

\* What the handler has read, and then created outbox events for, lies between
\* those that wanted the event all the time and those that did at any time.
HandlerInv(p) ==
  /\ handling[p].pc # "done" => Of(p) = {}
  /\ handling[p].pc = "called" => always[p] \subseteq Wants(p) /\ Wants(p) \subseteq ever[p]
  /\ handling[p].pc = "read" =>
       /\ always[p] \subseteq Read(p) /\ Read(p) \subseteq ever[p]
       /\ IsFiniteSet(handling[p].webhooks)
       /\ \A v, w \in handling[p].webhooks : v[1] = w[1] => v = w
  /\ handling[p].pc = "done" =>
       \A target \in always[p] : \E i \in Of(p) : <<repo[i].id, repo[i].deliveryUrl>> = target
  /\ \A i \in Of(p) : /\ <<repo[i].id, repo[i].deliveryUrl>> \in ever[p]
                      /\ \A j \in Of(p) : repo[j].id = repo[i].id => i = j

\* A test has sent the events of the webhook it read but for those it has left.
SentButFor(t, webhook, left) ==
  /\ webhook \in ever[t] \ {Null}
  /\ left \subseteq webhook.content.events
  /\ {repo[i].name : i \in Of(t)} = webhook.content.events \ left
  /\ \A i, j \in Of(t) : repo[i].name = repo[j].name => i = j
  /\ \A i \in Of(t) : repo[i].deliveryUrl = webhook.content.deliveryUrl

TestInv(t) ==
  /\ testing[t].pc \in {"new", "allowed"} => Of(t) = {}
  /\ testing[t].pc = "allowed" => testing[t].id \in Ids /\ map[testing[t].id] \in ever[t]
  /\ testing[t].pc = "sending" => /\ testing[t].id \in Ids
                                  /\ SentButFor(t, testing[t].webhook, testing[t].left)
  /\ testing[t].pc = "done" =>
       \/ Of(t) = {} /\ Null \in ever[t]
       \/ \E webhook \in Webhooks : SentButFor(t, webhook, {})

DispatchInv ==
  /\ TypeOK /\ DispatchTypeOK
  /\ \A p \in Publications : HandlerInv(p)
  /\ \A t \in Tests : TestInv(t)

-----------------------------------------------------------------------------

\* What a step adds to the outbox.
LEMMA Created ==
  ASSUME NEW s \in Seq(OutboxEvents), repo \in Seq(OutboxEvents), repo' = repo \o s
  PROVE  /\ repo' \in Seq(OutboxEvents)
         /\ \A x : \A i \in Of(x) : i \in Of(x)' /\ repo'[i] = repo[i]
         /\ \A x : \A j \in DOMAIN s :
              s[j].cause = x => Len(repo) + j \in Of(x)' /\ repo'[Len(repo) + j] = s[j]
         /\ \A x : \A i \in Of(x)' :
              i \in Of(x) \/ \E j \in DOMAIN s : i = Len(repo) + j /\ s[j].cause = x
<1>1. /\ repo' \in Seq(OutboxEvents) /\ Len(repo) \in Nat /\ Len(s) \in Nat
      /\ Len(repo') = Len(repo) + Len(s)
  OBVIOUS
<1>2. \A i \in DOMAIN repo : i \in DOMAIN repo' /\ repo'[i] = repo[i]
  OBVIOUS
<1>3. \A j \in DOMAIN s : Len(repo) + j \in DOMAIN repo' /\ repo'[Len(repo) + j] = s[j]
  OBVIOUS
<1>4. ASSUME NEW i \in DOMAIN repo', i \notin DOMAIN repo
      PROVE  \E j \in DOMAIN s : i = Len(repo) + j
  <2>1. i \in Nat /\ i > Len(repo) /\ i <= Len(repo) + Len(s)
    BY <1>1, <1>4
  <2>2. i - Len(repo) \in DOMAIN s /\ i = Len(repo) + (i - Len(repo))
    BY <1>1, <2>1
  <2> QED
    BY <2>2
<1> QED
  BY <1>1, <1>2, <1>3, <1>4 DEF Of

\* The outbox events of x are what they were.
SameOf(x) == Of(x)' = Of(x) /\ \A i \in Of(x) : repo'[i] = repo[i]

\* What the histories remember.
LEMMA Remembered ==
  ASSUME DispatchAssumption, Watch
  PROVE  /\ \A x \in Publications \cup Tests : ever[x] \subseteq ever'[x]
         /\ \A p \in Publications :
              IF handling'[p].pc # "called" THEN always'[p] = always[p]
              ELSE /\ ever'[p] = ever[p] \cup Wants(p)'
                   /\ always'[p] = IF handling[p].pc = "new" THEN Wants(p)'
                                   ELSE always[p] \cap Wants(p)'
         /\ \A t \in Tests : testing'[t].pc = "allowed" => map'[testing'[t].id] \in ever'[t]
<1>1. \A p \in Publications : p \notin Tests
  BY DEF DispatchAssumption
<1>2. ASSUME NEW x \in Publications \cup Tests
      PROVE  ever'[x] = IF IF x \in Tests
                           THEN testing'[x].pc = "allowed"
                           ELSE handling'[x].pc = "called"
                        THEN ever[x] \cup IF x \in Tests THEN {map'[testing'[x].id]} ELSE Wants(x)'
                        ELSE ever[x]
  BY DEF Watch, Wants, ofEvent
<1>3. ASSUME NEW p \in Publications
      PROVE  always'[p] = IF handling'[p].pc # "called" THEN always[p]
                          ELSE IF handling[p].pc = "new" THEN Wants(p)'
                          ELSE always[p] \cap Wants(p)'
  BY DEF Watch, Wants, ofEvent
<1> QED
  BY <1>1, <1>2, <1>3

\* A step that does not touch the handling of an event.
LEMMA HandlerKept ==
  ASSUME DispatchAssumption, Watch, NEW p \in Publications, HandlerInv(p),
         handling'[p] = handling[p], SameOf(p)
  PROVE  HandlerInv(p)'
<1>1. /\ ever[p] \subseteq ever'[p]
      /\ IF handling'[p].pc # "called" THEN always'[p] = always[p]
         ELSE /\ ever'[p] = ever[p] \cup Wants(p)'
              /\ always'[p] = IF handling[p].pc = "new" THEN Wants(p)'
                              ELSE always[p] \cap Wants(p)'
  BY Remembered
<1>2. Read(p)' = Read(p)
  BY DEF Read
<1>3. handling'[p].pc # "done" => Of(p)' = {}
  BY DEF HandlerInv, SameOf
<1>4. handling'[p].pc = "called" => always'[p] \subseteq Wants(p)' /\ Wants(p)' \subseteq ever'[p]
  BY <1>1
<1>5. handling'[p].pc = "read" =>
        /\ always'[p] \subseteq Read(p)' /\ Read(p)' \subseteq ever'[p]
        /\ IsFiniteSet(handling'[p].webhooks)
        /\ \A v, w \in handling'[p].webhooks : v[1] = w[1] => v = w
  BY <1>1, <1>2 DEF HandlerInv
<1>6. handling'[p].pc = "done" =>
        \A target \in always'[p] :
          \E i \in Of(p)' : <<repo'[i].id, repo'[i].deliveryUrl>> = target
  BY <1>1 DEF HandlerInv, SameOf
<1>7. \A i \in Of(p)' : /\ <<repo'[i].id, repo'[i].deliveryUrl>> \in ever'[p]
                        /\ \A j \in Of(p)' : repo'[j].id = repo'[i].id => i = j
  BY <1>1 DEF HandlerInv, SameOf
<1> QED
  BY <1>3, <1>4, <1>5, <1>6, <1>7 DEF HandlerInv

\* One that does not touch a test.
LEMMA TestKept ==
  ASSUME DispatchAssumption, Watch, NEW t \in Tests, TestInv(t),
         testing'[t] = testing[t], SameOf(t)
  PROVE  TestInv(t)'
<1>1. /\ ever[t] \subseteq ever'[t]
      /\ testing'[t].pc = "allowed" => map'[testing'[t].id] \in ever'[t]
  BY Remembered
<1>2. ASSUME NEW webhook, NEW left, SentButFor(t, webhook, left)
      PROVE  SentButFor(t, webhook, left)'
  BY <1>1, <1>2 DEF SentButFor, SameOf
<1>3. testing'[t].pc \in {"new", "allowed"} => Of(t)' = {}
  BY DEF TestInv, SameOf
<1>4. testing'[t].pc = "allowed" => testing'[t].id \in Ids /\ map'[testing'[t].id] \in ever'[t]
  BY <1>1 DEF TestInv
<1>5. testing'[t].pc = "sending" =>
        testing'[t].id \in Ids /\ SentButFor(t, testing[t].webhook, testing[t].left)'
  BY <1>2 DEF TestInv
<1>6. testing'[t].pc = "done" =>
        \/ Of(t)' = {} /\ Null \in ever'[t]
        \/ \E webhook \in Webhooks : SentButFor(t, webhook, {})'
  BY <1>1, <1>2 DEF TestInv, SameOf
<1> QED
  BY <1>3, <1>4, <1>5, <1>6 DEF TestInv

\* Types of what the handler and the tests remember.
LEMMA DispatchTypes ==
  ASSUME DispatchAssumption, TypeOK, DispatchTypeOK
  PROVE  /\ \A p \in Publications : /\ NameOf[p] \in Names
                                    /\ handling[p].pc \in {"new", "called", "read", "done"}
                                    /\ handling[p].webhooks \in SUBSET (Ids \X Webhooks)
         /\ \A t \in Tests : /\ testing[t].pc \in {"new", "allowed", "sending", "done"}
                             /\ testing[t].id \in Ids \cup {Null}
                             /\ testing[t].webhook \in Webhooks \cup {Null}
                             /\ testing[t].left \in SUBSET Names
         /\ \A webhook \in Webhooks : /\ webhook.content.events \in SUBSET Names
                                      /\ webhook.content.deliveryUrl \in Urls
BY DEF DispatchAssumption, DispatchTypeOK, Webhooks

\* The handler is called: from now on who wants the event is watched.
LEMMA PublishKeeps ==
  ASSUME DispatchAssumption, DispatchInv, Watch, NEW p \in Publications, publish(p)
  PROVE  DispatchInv'
<1>1. /\ handling[p].pc = "new" /\ handling' = [handling EXCEPT ![p].pc = "called"]
      /\ UNCHANGED <<vars, repo, testing>>
  BY DEF publish
<1>2. TypeOK' /\ DispatchTypeOK'
  BY <1>1 DEF DispatchInv, TypeOK, DispatchTypeOK, vars
<1>3. \A x : SameOf(x)
  BY <1>1 DEF SameOf, Of
<1>4. HandlerInv(p)'
  <2>1. handling'[p].pc = "called" /\ Of(p) = {} /\ Of(p)' = {}
    BY <1>1, <1>3 DEF DispatchInv, DispatchTypeOK, HandlerInv, SameOf
  <2>2. always'[p] \subseteq Wants(p)' /\ Wants(p)' \subseteq ever'[p]
    BY <2>1, Remembered
  <2> QED
    BY <2>1, <2>2 DEF HandlerInv
<1>5. ASSUME NEW q \in Publications \ {p}
      PROVE  HandlerInv(q)'
  BY <1>1, <1>3, HandlerKept DEF DispatchInv, DispatchTypeOK
<1>6. ASSUME NEW t \in Tests
      PROVE  TestInv(t)'
  BY <1>1, <1>3, TestKept DEF DispatchInv
<1> QED
  BY <1>2, <1>4, <1>5, <1>6 DEF DispatchInv

\* It reads the webhooks that want it at that moment.
LEMMA HandleKeeps ==
  ASSUME DispatchAssumption, DispatchInv, Watch, NEW p \in Publications, handle(p)
  PROVE  DispatchInv'
<1> DEFINE found == ofEvent(map, NameOf[p])
<1>1. /\ handling[p].pc = "called"
      /\ handling' = [handling EXCEPT ![p] = [pc |-> "read", webhooks |-> found]]
      /\ UNCHANGED <<vars, repo, testing>>
  BY DEF handle
<1>2. found \in SUBSET (Ids \X Webhooks)
  BY DEF ofEvent
<1>3. TypeOK' /\ DispatchTypeOK'
  BY <1>1, <1>2 DEF DispatchInv, TypeOK, DispatchTypeOK, vars
<1>4. \A x : SameOf(x)
  BY <1>1 DEF SameOf, Of
<1>5. HandlerInv(p)'
  <2>1. handling'[p] = [pc |-> "read", webhooks |-> found] /\ Of(p) = {} /\ Of(p)' = {}
    BY <1>1, <1>4 DEF DispatchInv, DispatchTypeOK, HandlerInv, SameOf
  <2>2. Read(p)' = Wants(p)
    BY <2>1 DEF Read, Wants
  <2>3. always'[p] = always[p] /\ ever[p] \subseteq ever'[p]
    <3>1. handling'[p].pc # "called"
      BY <2>1
    <3> QED
      BY <3>1, Remembered
  <2>4. \A v, w \in found : v[1] = w[1] => v = w
    BY DEF ofEvent
  <2>5. IsFiniteSet(found)
    <3> DEFINE f == [w \in found |-> w[1]]
    <3>1. f \in Injection(found, Ids)
      BY <1>2, <2>4 DEF Injection, IsInjective
    <3> QED
      BY <3>1, FS_Injection DEF DispatchAssumption
  <2> HIDE DEF found
  <2>6. always[p] \subseteq Wants(p) /\ Wants(p) \subseteq ever[p]
    BY <1>1 DEF DispatchInv, HandlerInv
  <2> QED
    BY <2>1, <2>2, <2>3, <2>4, <2>5, <2>6 DEF HandlerInv
<1> HIDE DEF found
<1>6. ASSUME NEW q \in Publications \ {p}
      PROVE  HandlerInv(q)'
  BY <1>1, <1>4, HandlerKept DEF DispatchInv, DispatchTypeOK
<1>7. ASSUME NEW t \in Tests
      PROVE  TestInv(t)'
  BY <1>1, <1>4, TestKept DEF DispatchInv
<1> QED
  BY <1>3, <1>5, <1>6, <1>7 DEF DispatchInv

\* The webhooks that were read get one outbox event each.
LEMMA CreateBatchKeeps ==
  ASSUME DispatchAssumption, DispatchInv, Watch, NEW p \in Publications,
         CreateBatchOutboxEvents(p)
  PROVE  DispatchInv'
<1> DEFINE T == handling[p].webhooks
           n == Cardinality(T)
<1>1. PICK batch \in [1 .. n -> T] :
        /\ \A i, j \in DOMAIN batch : batch[i] = batch[j] => i = j
        /\ repo' = repo \o [i \in DOMAIN batch |->
                     CreateOutboxEvent(p, NameOf[p], batch[i][1], batch[i][2])]
  BY DEF CreateBatchOutboxEvents, Targets
<1> DEFINE s == [i \in DOMAIN batch |->
                   CreateOutboxEvent(p, NameOf[p], batch[i][1], batch[i][2])]
<1>2. /\ handling[p].pc = "read"
      /\ handling' = [handling EXCEPT ![p] = [pc |-> "done", webhooks |-> {}]]
      /\ UNCHANGED <<vars, testing>>
  BY DEF CreateBatchOutboxEvents
<1>3. /\ T \in SUBSET (Ids \X Webhooks) /\ NameOf[p] \in Names /\ Of(p) = {}
      /\ always[p] \subseteq Read(p) /\ Read(p) \subseteq ever[p]
      /\ IsFiniteSet(T) /\ n \in Nat /\ repo \in Seq(OutboxEvents)
      /\ \A v, w \in T : v[1] = w[1] => v = w
  <2>1. DispatchTypeOK /\ TypeOK /\ HandlerInv(p)
    BY DEF DispatchInv
  <2>2. repo \in Seq(OutboxEvents)
    BY <2>1 DEF DispatchTypeOK
  <2> QED
    BY <1>2, <2>1, <2>2, DispatchTypes, FS_CardinalityType DEF HandlerInv
<1>4. DOMAIN batch = 1 .. n /\ \A i \in 1 .. n : batch[i] \in T
  BY <1>1
<1>5. \A w \in T : \E i \in 1 .. n : batch[i] = w
  <2>1. batch \in Injection(1 .. n, T)
    BY <1>1, <1>4 DEF Injection, IsInjective
  <2>2. IsFiniteSet(1 .. n) /\ Cardinality(1 .. n) = n
    BY <1>3, FS_Interval
  <2>3. batch \in Surjection(1 .. n, T)
    BY <1>3, <2>1, <2>2, FS_Injection
  <2> QED
    BY <2>3 DEF Surjection
<1>6. /\ s \in Seq(OutboxEvents) /\ DOMAIN s = 1 .. n
      /\ \A i \in 1 .. n : /\ s[i].cause = p /\ s[i].id = batch[i][1]
                           /\ s[i].deliveryUrl = batch[i][2].content.deliveryUrl
  <2>1. ASSUME NEW i \in 1 .. n
        PROVE  CreateOutboxEvent(p, NameOf[p], batch[i][1], batch[i][2]) \in OutboxEvents
    <3>1. batch[i][1] \in Ids /\ batch[i][2] \in Webhooks
      BY <1>3, <1>4
    <3>2. batch[i][2].content.deliveryUrl \in Urls
      BY <3>1, DispatchTypes DEF DispatchInv
    <3> QED
      BY <1>3, <3>1, <3>2 DEF CreateOutboxEvent, OutboxEvents
  <2>2. s = [i \in 1 .. n |-> CreateOutboxEvent(p, NameOf[p], batch[i][1], batch[i][2])]
    BY <1>4
  <2>3. s \in [1 .. n -> OutboxEvents]
    BY <2>1, <2>2
  <2>4. s \in Seq(OutboxEvents)
    <3> HIDE DEF s, n
    <3> QED
      BY <1>3, <2>3
  <2> QED
    BY <2>2, <2>4 DEF CreateOutboxEvent
<1> HIDE DEF s, n, T
<1>7. /\ repo' \in Seq(OutboxEvents)
      /\ \A x : \A i \in Of(x) : i \in Of(x)' /\ repo'[i] = repo[i]
      /\ \A x : \A j \in DOMAIN s :
           s[j].cause = x => Len(repo) + j \in Of(x)' /\ repo'[Len(repo) + j] = s[j]
      /\ \A x : \A i \in Of(x)' :
           i \in Of(x) \/ \E j \in DOMAIN s : i = Len(repo) + j /\ s[j].cause = x
  BY <1>1, <1>3, <1>6, Created DEF s
<1>8. ASSUME NEW x, x # p
      PROVE  SameOf(x)
  <2>1. \A i \in Of(x) : i \in Of(x)' /\ repo'[i] = repo[i]
    BY <1>7
  <2>2. \A j \in DOMAIN s : s[j].cause # x
    BY <1>6, <1>8
  <2>3. \A i \in Of(x)' : i \in Of(x)
    BY <1>7, <2>2
  <2> QED
    BY <2>1, <2>3 DEF SameOf
<1>9. TypeOK' /\ DispatchTypeOK'
  BY <1>2, <1>7 DEF DispatchInv, TypeOK, DispatchTypeOK, vars
<1>10. HandlerInv(p)'
  <2>1. handling'[p].pc = "done" /\ always'[p] = always[p] /\ ever[p] \subseteq ever'[p]
    <3>1. handling'[p].pc = "done"
      BY <1>2 DEF DispatchInv, DispatchTypeOK
    <3> QED
      BY <3>1, Remembered
  <2>2. \A i \in Of(p)' : \E j \in 1 .. n : i = Len(repo) + j /\ repo'[i] = s[j]
    <3>1. ASSUME NEW i \in Of(p)'
          PROVE  \E j \in DOMAIN s : i = Len(repo) + j /\ s[j].cause = p
      BY <1>3, <1>7
    <3>2. \A j \in DOMAIN s : s[j].cause = p => repo'[Len(repo) + j] = s[j]
      BY <1>7
    <3> QED
      BY <1>6, <3>1, <3>2
  <2>3. ASSUME NEW target \in always[p]
        PROVE  \E i \in Of(p)' : <<repo'[i].id, repo'[i].deliveryUrl>> = target
    <3>1. PICK w \in T : target = <<w[1], w[2].content.deliveryUrl>>
      BY <1>3 DEF Read, T
    <3>2. PICK j \in 1 .. n : batch[j] = w
      BY <1>5
    <3>3. Len(repo) + j \in Of(p)' /\ repo'[Len(repo) + j] = s[j]
      BY <1>6, <1>7
    <3> QED
      BY <1>6, <3>1, <3>2, <3>3
  <2>4. ASSUME NEW i \in Of(p)'
        PROVE  /\ <<repo'[i].id, repo'[i].deliveryUrl>> \in ever'[p]
               /\ \A k \in Of(p)' : repo'[k].id = repo'[i].id => i = k
    <3>1. PICK j \in 1 .. n : i = Len(repo) + j /\ repo'[i] = s[j]
      BY <2>2
    <3>2. <<repo'[i].id, repo'[i].deliveryUrl>> \in Read(p)
      BY <1>4, <1>6, <3>1 DEF Read, T
    <3>3. ASSUME NEW k \in Of(p)', repo'[k].id = repo'[i].id
          PROVE  i = k
      <4>1. PICK l \in 1 .. n : k = Len(repo) + l /\ repo'[k] = s[l]
        BY <2>2
      <4>2. batch[l][1] = batch[j][1]
        BY <1>6, <3>1, <3>3, <4>1
      <4>3. batch[l] = batch[j]
        BY <1>3, <1>4, <4>2
      <4> QED
        BY <1>1, <1>4, <3>1, <4>1, <4>3
    <3> QED
      BY <1>3, <2>1, <3>2, <3>3
  <2> QED
    BY <2>1, <2>3, <2>4 DEF HandlerInv
<1>11. ASSUME NEW q \in Publications \ {p}
       PROVE  HandlerInv(q)'
  BY <1>2, <1>8, HandlerKept DEF DispatchInv, DispatchTypeOK
<1>12. ASSUME NEW t \in Tests
       PROVE  TestInv(t)'
  BY <1>2, <1>8, TestKept DEF DispatchInv, DispatchAssumption
<1> QED
  BY <1>9, <1>10, <1>11, <1>12 DEF DispatchInv

\* A test is allowed: from now on its webhook is watched.
LEMMA TestWebhookKeeps ==
  ASSUME DispatchAssumption, DispatchInv, Watch, NEW t \in Tests, NEW id \in Ids,
         NEW user \in Users, testWebhook(t, id, user)
  PROVE  DispatchInv'
<1>1. /\ testing[t].pc = "new"
      /\ testing' = [testing EXCEPT ![t] = [NoTest EXCEPT !.pc = "allowed", !.id = id]]
      /\ UNCHANGED <<vars, repo, handling>>
  BY DEF testWebhook
<1>2. TypeOK' /\ DispatchTypeOK'
  BY <1>1 DEF DispatchInv, TypeOK, DispatchTypeOK, vars, NoTest
<1>3. \A x : SameOf(x)
  BY <1>1 DEF SameOf, Of
<1>4. TestInv(t)'
  <2>1. testing'[t].pc = "allowed" /\ testing'[t].id = id
    BY <1>1 DEF DispatchInv, DispatchTypeOK, NoTest
  <2>2. Of(t)' = {}
    BY <1>1, <1>3 DEF DispatchInv, TestInv, SameOf
  <2>3. map'[testing'[t].id] \in ever'[t]
    BY <2>1, Remembered
  <2> QED
    BY <2>1, <2>2, <2>3 DEF TestInv
<1>5. ASSUME NEW q \in Publications
      PROVE  HandlerInv(q)'
  BY <1>1, <1>3, HandlerKept DEF DispatchInv
<1>6. ASSUME NEW u \in Tests \ {t}
      PROVE  TestInv(u)'
  BY <1>1, <1>3, TestKept DEF DispatchInv, DispatchTypeOK
<1> QED
  BY <1>2, <1>4, <1>5, <1>6 DEF DispatchInv

\* It reads one of the contents the webhook had since, or that it has gone.
LEMMA ReadTestedKeeps ==
  ASSUME DispatchAssumption, DispatchInv, Watch, NEW t \in Tests, ReadTested(t)
  PROVE  DispatchInv'
<1> DEFINE webhook == map[testing[t].id]
<1>1. /\ testing[t].pc = "allowed"
      /\ testing' = [testing EXCEPT ![t] =
           IF webhook = Null THEN [testing[t] EXCEPT !.pc = "done"]
           ELSE [testing[t] EXCEPT !.pc = "sending", !.webhook = webhook,
                                   !.left = webhook.content.events]]
      /\ UNCHANGED <<vars, repo, handling>>
  BY DEF ReadTested
<1>2. /\ testing[t].id \in Ids /\ webhook \in ever[t] /\ webhook \in Webhooks \cup {Null}
      /\ Of(t) = {}
  BY <1>1 DEF DispatchInv, TestInv, TypeOK
<1>3. webhook # Null => webhook.content.events \in SUBSET Names
  BY <1>2, DispatchTypes DEF DispatchInv
<1> HIDE DEF webhook
<1>4. TypeOK' /\ DispatchTypeOK'
  <2>1. testing \in [Tests -> [pc : {"new", "allowed", "sending", "done"}, id : Ids \cup {Null},
                              webhook : Webhooks \cup {Null}, left : SUBSET Names]]
    BY DEF DispatchInv, DispatchTypeOK
  <2>2. CASE webhook = Null
    BY SMTT(30), <1>1, <2>1, <2>2 DEF DispatchInv, TypeOK, DispatchTypeOK, vars
  <2>3. CASE webhook # Null
    <3> DEFINE read == [testing[t] EXCEPT !.pc = "sending", !.webhook = webhook,
                                          !.left = webhook.content.events]
    <3>1. read \in [pc : {"new", "allowed", "sending", "done"}, id : Ids \cup {Null},
                    webhook : Webhooks \cup {Null}, left : SUBSET Names]
      BY <1>2, <1>3, <2>1, <2>3
    <3>2. testing' = [testing EXCEPT ![t] = read]
      BY <1>1, <2>3
    <3> HIDE DEF read
    <3>3. testing' \in [Tests -> [pc : {"new", "allowed", "sending", "done"},
                                  id : Ids \cup {Null}, webhook : Webhooks \cup {Null},
                                  left : SUBSET Names]]
      BY <2>1, <3>1, <3>2
    <3> QED
      BY <1>1, <3>3 DEF DispatchInv, TypeOK, DispatchTypeOK, vars
  <2> QED
    BY <2>2, <2>3
<1>5. \A x : SameOf(x)
  BY <1>1 DEF SameOf, Of
<1>6. TestInv(t)'
  <2>1. /\ ever[t] \subseteq ever'[t] /\ Of(t)' = {}
        /\ testing \in [Tests -> [pc : {"new", "allowed", "sending", "done"}, id : Ids \cup {Null},
                                  webhook : Webhooks \cup {Null}, left : SUBSET Names]]
    BY <1>2, <1>5, Remembered DEF SameOf, DispatchInv, DispatchTypeOK
  <2>2. CASE webhook = Null
    <3>1. testing'[t].pc = "done"
      BY <1>1, <2>1, <2>2
    <3> QED
      BY <1>2, <2>1, <2>2, <3>1 DEF TestInv
  <2>3. CASE webhook # Null
    <3>1. /\ testing'[t].pc = "sending" /\ testing'[t].id = testing[t].id
          /\ testing'[t].webhook = webhook /\ testing'[t].left = webhook.content.events
      BY <1>1, <2>1, <2>3
    <3>2. SentButFor(t, testing[t].webhook, testing[t].left)'
      BY <1>2, <2>1, <2>3, <3>1 DEF SentButFor
    <3> QED
      BY <1>2, <3>1, <3>2 DEF TestInv
  <2> QED
    BY <2>2, <2>3
<1>7. ASSUME NEW q \in Publications
      PROVE  HandlerInv(q)'
  BY <1>1, <1>5, HandlerKept DEF DispatchInv
<1>8. ASSUME NEW u \in Tests \ {t}
      PROVE  TestInv(u)'
  BY <1>1, <1>5, TestKept DEF DispatchInv, DispatchTypeOK
<1> QED
  BY <1>4, <1>6, <1>7, <1>8 DEF DispatchInv

\* One more name is sent, at the url of the webhook that was read.
LEMMA SendKeeps ==
  ASSUME DispatchAssumption, DispatchInv, Watch, NEW t \in Tests, SendEventToWebhook(t)
  PROVE  DispatchInv'
<1> DEFINE webhook == testing[t].webhook
<1>1. PICK name \in testing[t].left :
        /\ repo' = Append(repo, CreateOutboxEvent(t, name, testing[t].id, webhook))
        /\ testing' = [testing EXCEPT ![t].left = testing[t].left \ {name}]
  BY DEF SendEventToWebhook, Tested
<1> DEFINE event == CreateOutboxEvent(t, name, testing[t].id, webhook)
<1>2. testing[t].pc = "sending" /\ UNCHANGED <<vars, handling>>
  BY DEF SendEventToWebhook
<1>3. /\ testing[t].id \in Ids /\ webhook \in Webhooks /\ testing[t].left \in SUBSET Names
      /\ SentButFor(t, webhook, testing[t].left) /\ repo \in Seq(OutboxEvents)
      /\ webhook.content.deliveryUrl \in Urls
      /\ testing \in [Tests -> [pc : {"new", "allowed", "sending", "done"}, id : Ids \cup {Null},
                                webhook : Webhooks \cup {Null}, left : SUBSET Names]]
  <2>1. SentButFor(t, webhook, testing[t].left) /\ testing[t].id \in Ids
    BY <1>2 DEF DispatchInv, TestInv
  <2>2. webhook \in Webhooks /\ testing[t].left \in SUBSET Names
    BY <2>1, DispatchTypes DEF DispatchInv, SentButFor
  <2> QED
    BY <2>1, <2>2, DispatchTypes DEF DispatchInv, DispatchTypeOK
<1>4. event \in OutboxEvents
  BY <1>3 DEF OutboxEvents, CreateOutboxEvent
<1>5. /\ event.cause = t /\ event.name = name
      /\ event.deliveryUrl = webhook.content.deliveryUrl
  BY DEF CreateOutboxEvent
<1> HIDE DEF event, webhook
<1>6. /\ repo' \in Seq(OutboxEvents) /\ Len(repo) \in Nat
      /\ \A x : \A i \in Of(x) : i \in Of(x)' /\ repo'[i] = repo[i]
      /\ Len(repo) + 1 \in Of(t)' /\ repo'[Len(repo) + 1] = event
      /\ \A x : \A i \in Of(x)' : i \in Of(x) \/ (i = Len(repo) + 1 /\ x = t)
  <2> DEFINE s == <<event>>
  <2>1. s \in Seq(OutboxEvents) /\ DOMAIN s = {1} /\ s[1] = event /\ repo' = repo \o s
    BY <1>1, <1>3, <1>4 DEF event
  <2> HIDE DEF s
  <2> QED
    <3>1. /\ repo' \in Seq(OutboxEvents)
          /\ \A x : \A i \in Of(x) : i \in Of(x)' /\ repo'[i] = repo[i]
          /\ \A x : \A j \in DOMAIN s :
               s[j].cause = x => Len(repo) + j \in Of(x)' /\ repo'[Len(repo) + j] = s[j]
          /\ \A x : \A i \in Of(x)' :
               i \in Of(x) \/ \E j \in DOMAIN s : i = Len(repo) + j /\ s[j].cause = x
      BY <1>3, <2>1, Created
    <3>2. Len(repo) + 1 \in Of(t)' /\ repo'[Len(repo) + 1] = event
      BY ZenonT(30), <1>5, <2>1, <3>1
    <3>3. ASSUME NEW x, NEW i \in Of(x)', i \notin Of(x)
          PROVE  i = Len(repo) + 1 /\ x = t
      BY <1>5, <2>1, <3>1, <3>3
    <3>4. Len(repo) \in Nat
      BY <1>3
    <3> QED
      BY <3>1, <3>2, <3>3, <3>4
<1>7. ASSUME NEW x, x # t
      PROVE  SameOf(x)
  <2>1. \A i \in Of(x) : i \in Of(x)' /\ repo'[i] = repo[i]
    BY <1>6
  <2>2. \A i \in Of(x)' : i \in Of(x)
    BY <1>6, <1>7
  <2> QED
    BY <2>1, <2>2 DEF SameOf
<1>8. /\ testing'[t].pc = "sending" /\ testing'[t].id = testing[t].id
      /\ testing'[t].webhook = webhook /\ testing'[t].left = testing[t].left \ {name}
      /\ \A u \in Tests \ {t} : testing'[u] = testing[u]
  BY <1>1, <1>2, <1>3 DEF webhook
<1>9. TypeOK' /\ DispatchTypeOK'
  <2>1. testing' \in [Tests -> [pc : {"new", "allowed", "sending", "done"}, id : Ids \cup {Null},
                                webhook : Webhooks \cup {Null}, left : SUBSET Names]]
    BY <1>1, <1>3
  <2> QED
    BY <1>2, <1>6, <2>1 DEF DispatchInv, TypeOK, DispatchTypeOK, vars
<1>10. SentButFor(t, testing[t].webhook, testing[t].left)'
  <2>1. webhook \in ever'[t] \ {Null} /\ testing[t].left \ {name} \subseteq webhook.content.events
    BY <1>3, Remembered DEF SentButFor
  <2>2. Of(t)' = Of(t) \cup {Len(repo) + 1}
    BY <1>6
  <2>3. \A i \in Of(t) : /\ repo'[i] = repo[i] /\ repo[i].name # name
                         /\ repo[i].deliveryUrl = webhook.content.deliveryUrl
    BY <1>3, <1>6 DEF SentButFor
  <2>4. {repo'[i].name : i \in Of(t)'} = webhook.content.events \ (testing[t].left \ {name})
    <3>1. {repo'[i].name : i \in Of(t)'} = {repo[i].name : i \in Of(t)} \cup {name}
      BY <1>5, <1>6, <2>2, <2>3
    <3>2. name \in webhook.content.events
      BY <1>3 DEF SentButFor
    <3> QED
      BY <1>3, <3>1, <3>2 DEF SentButFor
  <2>5. \A i, j \in Of(t)' : repo'[i].name = repo'[j].name => i = j
    BY <1>3, <1>5, <1>6, <2>2, <2>3 DEF SentButFor
  <2>6. \A i \in Of(t)' : repo'[i].deliveryUrl = webhook.content.deliveryUrl
    BY <1>5, <1>6, <2>2, <2>3
  <2> QED
    BY <1>8, <2>1, <2>4, <2>5, <2>6 DEF SentButFor
<1>11. TestInv(t)'
  BY <1>3, <1>8, <1>10 DEF TestInv
<1>12. ASSUME NEW q \in Publications
       PROVE  HandlerInv(q)'
  BY <1>2, <1>7, HandlerKept DEF DispatchInv, DispatchAssumption
<1>13. ASSUME NEW u \in Tests \ {t}
       PROVE  TestInv(u)'
  BY <1>7, <1>8, TestKept DEF DispatchInv
<1> QED
  BY <1>9, <1>11, <1>12, <1>13 DEF DispatchInv

\* It has sent everything.
LEMMA TestDoneKeeps ==
  ASSUME DispatchAssumption, DispatchInv, Watch, NEW t \in Tests, TestDone(t)
  PROVE  DispatchInv'
<1>1. /\ testing[t].pc = "sending" /\ testing[t].left = {}
      /\ testing' = [testing EXCEPT ![t].pc = "done"]
      /\ UNCHANGED <<vars, repo, handling>>
  BY DEF TestDone
<1>2. TypeOK' /\ DispatchTypeOK'
  BY SMTT(30), <1>1 DEF DispatchInv, TypeOK, DispatchTypeOK, vars
<1>3. \A x : SameOf(x)
  BY <1>1 DEF SameOf, Of
<1>4. TestInv(t)'
  <2> DEFINE webhook == testing[t].webhook
  <2>1. testing'[t].pc = "done" /\ ever[t] \subseteq ever'[t]
    BY <1>1, Remembered DEF DispatchInv, DispatchTypeOK
  <2>2. SentButFor(t, webhook, {}) /\ webhook \in Webhooks
    <3>1. SentButFor(t, webhook, {})
      BY <1>1 DEF DispatchInv, TestInv
    <3> QED
      BY <3>1, DispatchTypes DEF DispatchInv, SentButFor
  <2>3. PICK w \in Webhooks : SentButFor(t, w, {})
    BY <2>2
  <2>4. SentButFor(t, w, {})'
    BY <1>3, <2>1, <2>3 DEF SentButFor, SameOf
  <2> QED
    BY <2>1, <2>4 DEF TestInv
<1>5. ASSUME NEW q \in Publications
      PROVE  HandlerInv(q)'
  BY <1>1, <1>3, HandlerKept DEF DispatchInv
<1>6. ASSUME NEW u \in Tests \ {t}
      PROVE  TestInv(u)'
  BY <1>1, <1>3, TestKept DEF DispatchInv, DispatchTypeOK
<1> QED
  BY <1>2, <1>4, <1>5, <1>6 DEF DispatchInv

\* Commands change what is wanted, not what was read.
LEMMA RegistryKeeps ==
  ASSUME DispatchAssumption, DispatchInv, Watch, Next, UNCHANGED <<repo, handling, testing>>
  PROVE  DispatchInv'
<1>1. TypeOK'
  BY RegistryTypeStep DEF DispatchInv
<1>2. DispatchTypeOK'
  BY DEF DispatchInv, DispatchTypeOK
<1>3. \A x : SameOf(x)
  BY DEF SameOf, Of
<1>4. ASSUME NEW q \in Publications
      PROVE  HandlerInv(q)'
  BY <1>3, HandlerKept DEF DispatchInv
<1>5. ASSUME NEW u \in Tests
      PROVE  TestInv(u)'
  BY <1>3, TestKept DEF DispatchInv
<1> QED
  BY <1>1, <1>2, <1>4, <1>5 DEF DispatchInv

\* A step that changes nothing keeps the invariant of the dispatch.
LEMMA StutteringKeeps ==
  ASSUME DispatchInv, UNCHANGED <<vars, dispatchVars>>
  PROVE  DispatchInv'
<1>1. UNCHANGED <<map, command, createdBy, overlapped, intended, repo, handling, testing,
                  ever, always>>
  BY DEF vars, dispatchVars
<1>2. TypeOK' /\ DispatchTypeOK'
  BY <1>1 DEF DispatchInv, TypeOK, DispatchTypeOK
<1>3. ASSUME NEW q \in Publications
      PROVE  HandlerInv(q)'
  BY <1>1 DEF DispatchInv, HandlerInv, Of, Read, Wants, ofEvent
<1>4. ASSUME NEW u \in Tests
      PROVE  TestInv(u)'
  <2>1. Of(u)' = Of(u)
    BY <1>1 DEF Of
  <2>2. \A webhook, left : SentButFor(u, webhook, left) => SentButFor(u, webhook, left)'
    BY <1>1, <2>1 DEF SentButFor
  <2>3. TestInv(u)
    BY DEF DispatchInv
  <2> QED
    BY <1>1, <2>1, <2>2, <2>3 DEF TestInv
<1> QED
  BY <1>2, <1>3, <1>4 DEF DispatchInv

\* The invariant of the dispatch holds at first.
LEMMA DispatchInitially ==
  ASSUME DispatchAssumption, DispatchInit
  PROVE  DispatchInv
<1>1. TypeOK /\ DispatchTypeOK
  BY DEF DispatchInit, Init, TypeOK, DispatchTypeOK, NoTest
<1>2. \A x : Of(x) = {}
  BY DEF DispatchInit, Of
<1>3. /\ \A p \in Publications : handling[p].pc = "new" /\ always[p] = {}
      /\ \A t \in Tests : testing[t].pc = "new"
  BY DEF DispatchInit, NoTest
<1> QED
  BY <1>1, <1>2, <1>3 DEF DispatchInv, HandlerInv, TestInv

\* A test that has sent all names has sent as many events as there are names.
LEMMA SentOnce ==
  ASSUME DispatchAssumption, NEW t \in Tests, NEW webhook \in Webhooks,
         SentButFor(t, webhook, {})
  PROVE  /\ webhook \in ever[t] \ {Null}
         /\ {repo[i].name : i \in Of(t)} = webhook.content.events
         /\ Cardinality(Of(t)) = Cardinality(webhook.content.events)
         /\ \A i \in Of(t) : repo[i].deliveryUrl = webhook.content.deliveryUrl
<1> DEFINE events == webhook.content.events
           f == [i \in Of(t) |-> repo[i].name]
<1>1. {repo[i].name : i \in Of(t)} = events
  BY DEF SentButFor
<1>2. f \in Injection(Of(t), events) /\ f \in Surjection(Of(t), events)
  BY <1>1 DEF SentButFor, Injection, IsInjective, Surjection
<1>3. IsFiniteSet(events)
  BY FS_Subset DEF DispatchAssumption, Webhooks
<1>4. Cardinality(Of(t)) = Cardinality(events)
  <2> HIDE DEF events, f
  <2> QED
    BY <1>2, <1>3, FS_Injection
<1> QED
  BY <1>1, <1>4 DEF SentButFor

\* Whatever commands come at the awaits of the handler and of a test: an event gets
\* one outbox event for each webhook that wanted it all the while, at most one for
\* any and none for one that never did; a test sends one content, each name once.
THEOREM EventsAreSent ==
  ASSUME DispatchAssumption
  PROVE  DispatchSpec => []WebhooksAreSentTheirEvents
<1>1. DispatchInit => DispatchInv
  BY DispatchInitially
<1>2. ASSUME DispatchInv, [DispatchNext]_<<vars, dispatchVars>>
      PROVE  DispatchInv'
  <2>1. CASE Dispatch /\ Watch
    <3>1. ASSUME NEW p \in Publications, publish(p) \/ handle(p) \/ CreateBatchOutboxEvents(p)
          PROVE  DispatchInv'
      BY <1>2, <2>1, <3>1, PublishKeeps, HandleKeeps, CreateBatchKeeps
    <3>2. ASSUME NEW t \in Tests, NEW id \in Ids, NEW user \in Users, testWebhook(t, id, user)
          PROVE  DispatchInv'
      BY <1>2, <2>1, <3>2, TestWebhookKeeps
    <3>3. ASSUME NEW t \in Tests, ReadTested(t) \/ SendEventToWebhook(t) \/ TestDone(t)
          PROVE  DispatchInv'
      BY <1>2, <2>1, <3>3, ReadTestedKeeps, SendKeeps, TestDoneKeeps
    <3> QED
      BY <2>1, <3>1, <3>2, <3>3 DEF Dispatch
  <2>2. CASE Next /\ UNCHANGED <<repo, handling, testing>> /\ Watch
    BY <1>2, <2>2, RegistryKeeps
  <2>3. CASE UNCHANGED <<vars, dispatchVars>>
    BY <1>2, <2>3, StutteringKeeps
  <2> QED
    BY <1>2, <2>1, <2>2, <2>3 DEF DispatchNext
<1>3. DispatchInv => WebhooksAreSentTheirEvents
  <2> SUFFICES ASSUME DispatchInv
               PROVE  WebhooksAreSentTheirEvents
    OBVIOUS
  <2>1. EverySubscriberIsSentOnce
    BY DEF DispatchInv, HandlerInv, EverySubscriberIsSentOnce
  <2>2. TestsSendOneContent
    BY SentOnce DEF DispatchInv, TestInv, TestsSendOneContent
  <2> QED
    BY <2>1, <2>2 DEF DispatchInv, WebhooksAreSentTheirEvents
<1> QED
  BY <1>1, <1>2, <1>3, PTL DEF DispatchSpec

=============================================================================
