-------------------------- MODULE WebhookRegistry --------------------------
(***************************************************************************)
(* The webhooks and the commands that change them.  A command checks that  *)
(* its user is the webhook's assignee, reads the webhook again and writes  *)
(* the changed copy back (or deletes it), with an await before each of the *)
(* last two steps: commands on one webhook interleave there.               *)
(*                                                                         *)
(* The events and the delivery url, which are always set together, are one *)
(* value here, the content; invalid ones are refused and not modelled.     *)
(***************************************************************************)
CONSTANTS
  Ids,          \* the ids of the webhooks that are ever created
  Users,
  Contents,     \* valid pairs of events and delivery url
  Commands,     \* commands that may be under way at once
  Null

Webhooks == [assigneeId : Users, content : Contents, isActive : BOOLEAN]

Kinds == {"edit", "disable", "enable", "delete"}

\* webhook is what the command read, Null until it did.
CommandsUnderWay ==
  [kind : Kinds, id : Ids, user : Users, content : Contents, webhook : Webhooks \cup {Null}]

ASSUME ConstantsAssumption ==
  Null \notin Webhooks /\ Null \notin CommandsUnderWay /\ Null \notin Users

VARIABLES
  map,          \* the repository: the webhook stored under each id
  command,      \* command[c]: the command c that is under way
  createdBy,    \* history: the user who created each webhook
  overlapped,   \* history: webhooks two commands were ever under way for at once
  intended      \* history: the webhooks if every command took effect in one step,
                \* on what the one before it left

vars == <<map, command, createdBy, overlapped, intended>>

TypeOK ==
  /\ map \in [Ids -> Webhooks \cup {Null}]
  /\ command \in [Commands -> CommandsUnderWay \cup {Null}]
  /\ createdBy \in [Ids -> Users \cup {Null}]
  /\ overlapped \in SUBSET Ids
  /\ intended \in [Ids -> Webhooks \cup {Null}]

Init ==
  /\ map = [id \in Ids |-> Null]
  /\ command = [c \in Commands |-> Null]
  /\ createdBy = [id \in Ids |-> Null]
  /\ overlapped = {}
  /\ intended = [id \in Ids |-> Null]

\* The user becomes the assignee, whoever the command names.
createWebhook(id, user, content) ==
  LET webhook == [assigneeId |-> user, content |-> content, isActive |-> TRUE]
  IN /\ createdBy[id] = Null
     /\ createdBy' = [createdBy EXCEPT ![id] = user]
     /\ map' = [map EXCEPT ![id] = webhook]
     /\ intended' = [intended EXCEPT ![id] = webhook]
     /\ UNCHANGED <<command, overlapped>>

-----------------------------------------------------------------------------

UnderWayFor(id) == \E c \in Commands : command[c] # Null /\ command[c].id = id

Start(c, kind, id, user, content) ==
  /\ command[c] = Null
  /\ map[id] # Null
  /\ command' = [command EXCEPT ![c] = [kind |-> kind, id |-> id, user |-> user,
                                        content |-> content, webhook |-> Null]]
  /\ overlapped' = overlapped \cup {i \in {id} : UnderWayFor(id)}
  /\ UNCHANGED <<map, createdBy, intended>>

\* Mutant: the assignee is not compared with the user.
assertWebhookAccessPossiblity_Anyone(c, kind, id, user, content) ==
  Start(c, kind, id, user, content)

\* A command on no webhook or on another user's one throws and changes nothing.
assertWebhookAccessPossiblity(c, kind, id, user, content) ==
  /\ map[id] # Null /\ map[id].assigneeId = user
  /\ Start(c, kind, id, user, content)

\* The handler reads the webhook again and throws if it has gone meanwhile.
ofId(c) ==
  LET cmd == command[c]
  IN /\ cmd # Null /\ cmd.webhook = Null
     /\ command' = [command EXCEPT ![c] =
                      IF map[cmd.id] = Null THEN Null
                      ELSE [cmd EXCEPT !.webhook = map[cmd.id]]]
     /\ UNCHANGED <<map, createdBy, overlapped, intended>>

EditWebhook(webhook, content) == [webhook EXCEPT !.content = content]

DisableWebhook(webhook) == [webhook EXCEPT !.isActive = FALSE]

EnableWebhook(webhook) == [webhook EXCEPT !.isActive = TRUE]

\* Disabling a disabled webhook throws, and so does enabling an enabled one.
Throws(cmd, webhook) ==
  \/ cmd.kind = "disable" /\ ~webhook.isActive
  \/ cmd.kind = "enable" /\ webhook.isActive

Changed(cmd, webhook) ==
  IF webhook = Null THEN Null
  ELSE CASE cmd.kind = "edit" -> EditWebhook(webhook, cmd.content)
         [] cmd.kind = "disable" -> DisableWebhook(webhook)
         [] cmd.kind = "enable" -> EnableWebhook(webhook)
         [] cmd.kind = "delete" -> Null

\* The repository keeps what the command made of the webhook it read, whatever
\* it holds by now; it does not mind if that is nothing any more.
Execute(c, kind) ==
  LET cmd == command[c]
  IN /\ cmd # Null /\ cmd.webhook # Null /\ cmd.kind = kind
     /\ ~Throws(cmd, cmd.webhook)
     /\ map' = [map EXCEPT ![cmd.id] = Changed(cmd, cmd.webhook)]
     /\ intended' = [intended EXCEPT ![cmd.id] = Changed(cmd, @)]
     /\ command' = [command EXCEPT ![c] = Null]
     /\ UNCHANGED <<createdBy, overlapped>>

editWebhook(c) == Execute(c, "edit")

disableWebhook(c) == Execute(c, "disable")

\* Mutant: the enabled webhook is not stored.
enableWebhook_NotStored(c) ==
  /\ command[c] # Null /\ command[c].webhook # Null /\ command[c].kind = "enable"
  /\ ~Throws(command[c], command[c].webhook)
  /\ intended' = [intended EXCEPT ![command[c].id] = Changed(command[c], @)]
  /\ command' = [command EXCEPT ![c] = Null]
  /\ UNCHANGED <<map, createdBy, overlapped>>

enableWebhook(c) == Execute(c, "enable")

deleteWebhook(c) == Execute(c, "delete")

Throw(c) ==
  /\ command[c] # Null /\ command[c].webhook # Null
  /\ Throws(command[c], command[c].webhook)
  /\ command' = [command EXCEPT ![c] = Null]
  /\ UNCHANGED <<map, createdBy, overlapped, intended>>

-----------------------------------------------------------------------------

Next ==
  \/ \E id \in Ids, user \in Users, content \in Contents :
       \/ createWebhook(id, user, content)
       \/ \E c \in Commands, kind \in Kinds :
            assertWebhookAccessPossiblity(c, kind, id, user, content)
  \/ \E c \in Commands :
       \/ ofId(c)
       \/ editWebhook(c) \/ disableWebhook(c) \/ enableWebhook(c) \/ deleteWebhook(c)
       \/ Throw(c)

Spec == Init /\ [][Next]_vars

-----------------------------------------------------------------------------
(* Properties                                                              *)

\* After its creation a webhook is changed, deleted and brought back only by a
\* command of the user who created it, although the command looks at the
\* assignee two awaits before it writes; and that user stays its assignee.
OnlyTheAssigneeChanges ==
  [][\A id \in Ids : createdBy[id] # Null /\ map'[id] # map[id] =>
       /\ map'[id] # Null => map'[id].assigneeId = createdBy[id]
       /\ \E c \in Commands : /\ command[c] # Null /\ command'[c] = Null
                              /\ command[c].id = id
                              /\ command[c].user = createdBy[id]]_vars

\* Whatever commands did to the others, a webhook on which no two commands ever
\* overlapped is what its completed commands made of it, one after the other:
\* no update of it was lost and, once deleted, it stays deleted.
ExactUnlessOverlapped ==
  \A id \in Ids \ overlapped : map[id] = intended[id]

=============================================================================
