------------------------------ MODULE Startup -------------------------------
(***************************************************************************)
(* Managers.Init: the library's logger, data sources and messages broker   *)
(* are set up, then the media and the webhooks manager.  Each part has an  *)
(* initializer with a flag of its own, which it looks at first and sets    *)
(* last; two of them await in between.                                     *)
(*                                                                         *)
(* Init may be called again, after a failure or while a first call is      *)
(* still under way, and everything may be disconnected by Destroy.  The    *)
(* data sources and cloudinary are made from the environment, which may    *)
(* lack what they need: then the factory throws, whatever the flags say.   *)
(***************************************************************************)
EXTENDS Integers

CONSTANT Callers          \* calls of Managers.Init

Parts == {"logger", "persistence", "broker", "media", "webhooks"}
Jobs == {"clearLogs", "backup", "retryFailedEvents", "retryOutboxEvents"}
Questions == {"upload", "delete"}
Sources == {"mongodb", "redis"}

VARIABLES
  pc,            \* pc[c]: the part that call c is about to set up, or awaits
  initialized,   \* the parts whose flag IsInitialized is set
  jobs,          \* jobs[j]: how often j is registered with the scheduler
  answers,       \* the questions that the sync broker has an answer for
  handlers,      \* whether the events broker has AllEventsHandler
  missing,       \* what the environment does not describe; it does not change
  connected,     \* the data sources that are connected
  refused,       \* history: the calls that MongoDB refused
  overlapped,    \* history: two calls awaited one initializer at once
  destroyed      \* history: Destroy was called

vars == <<pc, initialized, jobs, answers, handlers, missing, connected, refused,
          overlapped, destroyed>>

Init ==
  /\ pc = [c \in Callers |-> "logger"]
  /\ initialized = {}
  /\ jobs = [j \in Jobs |-> 0]
  /\ missing \in SUBSET (Sources \cup {"cloudinary"})
  /\ answers = {} /\ handlers = FALSE /\ connected = {}
  /\ refused = {} /\ overlapped = FALSE /\ destroyed = FALSE

-----------------------------------------------------------------------------

Goes(c, next) == pc' = [pc EXCEPT ![c] = next]

Registers(j) == jobs' = [jobs EXCEPT ![j] = @ + 1]

\* An initializer that awaits nothing registers a job, the first time.
\* Mutant: the flag is not set.
RegistersOnce_NoFlag(part, j) ==
  IF part \in initialized
  THEN UNCHANGED <<initialized, jobs>>
  ELSE Registers(j) /\ UNCHANGED initialized

RegistersOnce(part, j) ==
  IF part \in initialized
  THEN UNCHANGED <<initialized, jobs>>
  ELSE Registers(j) /\ initialized' = initialized \cup {part}

LoggerSetup(c) ==
  /\ pc[c] = "logger"
  /\ RegistersOnce("logger", "clearLogs")
  /\ Goes(c, "persistence")
  /\ UNCHANGED <<answers, handlers, missing, connected, refused, overlapped, destroyed>>

\* Both data sources are made before the first is looked at.  The flag is one for
\* both: with it set neither is connected.
PersistenceSetup(c) ==
  /\ pc[c] = "persistence"
  /\ Goes(c, IF missing \cap Sources # {} THEN "failed"
             ELSE IF "persistence" \in initialized THEN "broker" ELSE "connecting")
  /\ overlapped' = (overlapped \/ (pc'[c] = "connecting"
                                   /\ \E d \in Callers : pc[d] = "connecting"))
  /\ UNCHANGED <<initialized, jobs, answers, handlers, missing, connected, refused, destroyed>>

\* MongoDB is connected and backed up; Redis comes after it and finds the flag.
Connected(c) ==
  /\ pc[c] = "connecting"
  /\ connected' = connected \cup {"mongodb"}
  /\ Registers("backup")
  /\ initialized' = initialized \cup {"persistence"}
  /\ Goes(c, "broker")
  /\ UNCHANGED <<answers, handlers, missing, refused, overlapped, destroyed>>

ConnectFails(c) ==
  /\ pc[c] = "connecting"
  /\ refused' = refused \cup {c}
  /\ Goes(c, "failed")
  /\ UNCHANGED <<initialized, jobs, answers, handlers, missing, connected, overlapped, destroyed>>

\* The in-memory broker is one whose failed events must be retried by a job.
MessagesBrokerSetup(c) ==
  /\ pc[c] = "broker"
  /\ RegistersOnce("broker", "retryFailedEvents")
  /\ Goes(c, "media")
  /\ UNCHANGED <<answers, handlers, missing, connected, refused, overlapped, destroyed>>

\* The client of cloudinary is an argument, made before the flag is looked at.  A
\* question that has an answer cannot be given another: registerAnswer throws.
MediaManagerSetup(c) ==
  /\ pc[c] = "media"
  /\ IF "cloudinary" \in missing
     THEN Goes(c, "failed") /\ UNCHANGED <<initialized, answers>>
     ELSE IF "media" \in initialized
     THEN Goes(c, "webhooks") /\ UNCHANGED <<initialized, answers>>
     ELSE IF answers # {}
     THEN Goes(c, "failed") /\ UNCHANGED <<initialized, answers>>
     ELSE /\ answers' = Questions
          /\ initialized' = initialized \cup {"media"}
          /\ Goes(c, "webhooks")
  /\ UNCHANGED <<jobs, handlers, missing, connected, refused, overlapped, destroyed>>

\* Mutant: the flag is set before the await.
WebhooksManagerSetup_FlagFirst(c) ==
  /\ pc[c] = "webhooks"
  /\ Goes(c, IF "webhooks" \in initialized THEN "done" ELSE "registered")
  /\ handlers' = TRUE
  /\ initialized' = initialized \cup {"webhooks"}
  /\ UNCHANGED <<jobs, answers, missing, connected, refused, overlapped, destroyed>>

\* The handler is registered at once, or refused because it is; the rest of the
\* initializer runs after an await.
WebhooksManagerSetup(c) ==
  /\ pc[c] = "webhooks"
  /\ Goes(c, IF "webhooks" \in initialized THEN "done"
             ELSE IF handlers THEN "failed" ELSE "registered")
  /\ handlers' = (handlers \/ "webhooks" \notin initialized)
  /\ overlapped' = (overlapped \/ (pc'[c] = "failed"
                                   /\ \E d \in Callers : pc[d] = "registered"))
  /\ UNCHANGED <<initialized, jobs, answers, missing, connected, refused, destroyed>>

\* Mutant: the flag is not set.
HandlerRegistered_NoFlag(c) ==
  /\ pc[c] = "registered"
  /\ Registers("retryOutboxEvents")
  /\ Goes(c, "done")
  /\ UNCHANGED <<initialized, answers, handlers, missing, connected, refused, overlapped, destroyed>>

HandlerRegistered(c) ==
  /\ pc[c] = "registered"
  /\ Registers("retryOutboxEvents")
  /\ initialized' = initialized \cup {"webhooks"}
  /\ Goes(c, "done")
  /\ UNCHANGED <<answers, handlers, missing, connected, refused, overlapped, destroyed>>

\* Destroy disconnects the data sources and leaves every flag set.  It throws when
\* one cannot be made, or MongoDB was never connected.
Destroy ==
  /\ ~destroyed
  /\ missing \cap Sources = {} /\ connected # {}
  /\ destroyed' = TRUE
  /\ connected' = {}
  /\ UNCHANGED <<pc, initialized, jobs, answers, handlers, missing, refused, overlapped>>

Step(c) ==
  \/ LoggerSetup(c)
  \/ PersistenceSetup(c)
  \/ Connected(c)
  \/ ConnectFails(c)
  \/ MessagesBrokerSetup(c)
  \/ MediaManagerSetup(c)
  \/ WebhooksManagerSetup(c)
  \/ HandlerRegistered(c)

Next == Destroy \/ \E c \in Callers : Step(c)

Spec == Init /\ [][Next]_vars

-----------------------------------------------------------------------------
(* Properties                                                              *)

\* A call of Managers.Init that has returned, however the others fared and
\* though it skipped what they began, leaves every job, both answers and the
\* webhooks' handler registered and, unless Destroy was called, MongoDB connected;
\* redis it never connects.  It returns only if the environment lacks nothing.
ReadyIsComplete ==
  (\E c \in Callers : pc[c] = "done") =>
    /\ \A j \in Jobs : jobs[j] > 0
    /\ answers = Questions
    /\ handlers
    /\ connected = {"mongodb"} \/ destroyed
    /\ missing = {}

\* No job runs on two timers, but the backup where two calls connected at once.
JobsAreRegisteredOnce ==
  \A j \in Jobs : jobs[j] > 1 => j = "backup" /\ overlapped

\* Init can be called again: a call fails if the environment lacks something or
\* MongoDB refuses it, and otherwise only if another call was in the middle of
\* the same initializer.
InitMayBeRepeated ==
  \A c \in Callers : pc[c] = "failed" => missing # {} \/ c \in refused \/ overlapped

\* The three.
StartupIsSound == ReadyIsComplete /\ JobsAreRegisteredOnce /\ InitMayBeRepeated

=============================================================================
