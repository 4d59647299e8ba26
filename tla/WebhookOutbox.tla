--------------------------- MODULE WebhookOutbox ---------------------------
(***************************************************************************)
(* The outbox of the webhooks component: outbox events are created when an *)
(* application event is published (or a webhook is tested), POSTed to the  *)
(* webhook's url, and POSTed again by a scheduled job until the receiver   *)
(* answers 200/201 or the tries are used up.                               *)
(*                                                                         *)
(* Every sender and every run of the job keeps the (immutable) outbox      *)
(* events it read before its first await and writes them back after the    *)
(* answer, whatever the repository holds by then.  The job fires on an     *)
(* interval that does not wait for the previous run, and a pending event   *)
(* is retriable while its first POST is still in flight: attempts overlap. *)
(***************************************************************************)
EXTENDS Integers, Sequences, FiniteSets

CONSTANTS
  Senders,      \* broker callbacks and test commands in flight at once
  Runs,         \* runs of the retry job that may be in flight at once
  MaxOutbox,    \* bound: how many outbox events are ever created
  Delays,       \* Delays[n]: the wait after the n-th failed try
  MAX_RETRIES,
  Null,         \* a nextTryAt that is null
  MaxAge        \* bound: the age history counts no further than this

ASSUME ConstantsAssumption ==
  /\ Senders \cap Runs = {}
  /\ MaxOutbox \in Nat
  /\ Delays \in Seq(Nat \ {0})
  /\ MAX_RETRIES \in Nat
  /\ Null \notin Nat
  /\ MaxAge \in Nat
  /\ \A i \in DOMAIN Delays : Delays[i] <= MaxAge

Procs == Senders \cup Runs

\* Ids in the order of creation, which is the order of the repository's Map.
Outboxes == 1 .. MaxOutbox

VARIABLES
  repo,        \* the repository: the outbox event stored under each id
  work,        \* work[p]: the outbox events p has read and still has to POST
  posting,     \* posting[p]: p awaits the answer to the POST of its first one
  created,     \* how many outbox events were created
  acked,       \* history: POSTs of each event answered with 200 or 201
  refused,     \* history: POSTs of each event that ended in any other way
  overlapped,  \* history: events two processes ever had in hand at once
  age          \* history: time since the last answer, up to MaxAge

vars == <<repo, work, posting, created, acked, refused, overlapped, age>>

-----------------------------------------------------------------------------
(* Outbox events.  nextTryAt is kept as the time left until it.            *)

Statuses == {"absent", "pending", "delivered", "failed", "cancelled"}
Records ==
  {e \in [status : Statuses, tries : Nat, nextTryAt : Nat \cup {Null}] :
     /\ e.nextTryAt = Null <=> e.status \in {"absent", "delivered", "cancelled"}
     /\ e.status = "pending" => e.nextTryAt = 0}

Absent == [status |-> "absent", tries |-> 0, nextTryAt |-> Null]
Nothing == [o \in Outboxes |-> Absent]

CreateOutboxEvent == [status |-> "pending", tries |-> 0, nextTryAt |-> 0]

\* Mutant: the schedule is read one entry too far.
getNextTryAt_OffByOne(tries) ==
  IF tries + 1 \in DOMAIN Delays THEN Delays[tries + 1] ELSE Null

getNextTryAt(tries) ==
  IF tries = 0 THEN 0 ELSE IF tries \in DOMAIN Delays THEN Delays[tries] ELSE Null

OutboxEventDelivered(e) ==
  [status |-> "delivered", tries |-> e.tries + 1, nextTryAt |-> Null]

\* Mutant: the delay is looked up with the tries before this one.
OutboxEventDeliveryFailed_StaleTries(e) ==
  LET next == getNextTryAt(e.tries)
  IN [status |-> IF next # Null THEN "failed" ELSE "cancelled",
      tries |-> e.tries + 1, nextTryAt |-> next]

OutboxEventDeliveryFailed(e) ==
  LET next == getNextTryAt(e.tries + 1)
  IN [status |-> IF next # Null THEN "failed" ELSE "cancelled",
      tries |-> e.tries + 1, nextTryAt |-> next]

\* Mutant: a delivered event can be retried.
CanRetryOutboxEvent_Delivered(e) ==
  \/ e.status \in {"pending", "delivered"}
  \/ e.status = "failed" /\ ~(e.tries > MAX_RETRIES) /\ e.nextTryAt = 0

\* Mutant: one retry less than the schedule has.
CanRetryOutboxEvent_OneLess(e) ==
  \/ e.status = "pending"
  \/ e.status = "failed" /\ e.tries < MAX_RETRIES - 1 /\ e.nextTryAt = 0

CanRetryOutboxEvent(e) ==
  \/ e.status = "pending"
  \/ e.status = "failed" /\ ~(e.tries > MAX_RETRIES) /\ e.nextTryAt = 0

-----------------------------------------------------------------------------

Holds(p, o) == work[p][o].status # "absent"
Idle(p) == \A o \in Outboxes : ~Holds(p, o)

\* Every loop over outbox events goes through them in the repository's order.
First(p, o) == Holds(p, o) /\ \A q \in Outboxes : Holds(p, q) => o <= q

TypeOK ==
  /\ repo \in [Outboxes -> Records]
  /\ work \in [Procs -> [Outboxes -> Records]]
  /\ posting \in [Procs -> BOOLEAN]
  /\ created \in 0 .. MaxOutbox
  /\ acked \in [Outboxes -> Nat]
  /\ refused \in [Outboxes -> Nat]
  /\ overlapped \in SUBSET Outboxes
  /\ age \in [Outboxes -> Nat]

Init ==
  /\ repo = Nothing
  /\ work = [p \in Procs |-> Nothing]
  /\ posting = [p \in Procs |-> FALSE]
  /\ created = 0
  /\ acked = [o \in Outboxes |-> 0]
  /\ refused = [o \in Outboxes |-> 0]
  /\ overlapped = {}
  /\ age = [o \in Outboxes |-> 0]

\* s creates the outbox events `batch` and stores them before its first POST.
Create(s, batch) ==
  /\ Idle(s)
  /\ repo' = [o \in Outboxes |-> IF o \in batch THEN CreateOutboxEvent ELSE repo[o]]
  /\ work' = [work EXCEPT ![s] =
                [o \in Outboxes |-> IF o \in batch THEN CreateOutboxEvent ELSE Absent]]
  /\ UNCHANGED <<posting, acked, refused, overlapped, age>>

\* An application event reached the n webhooks that registered for it.
CreateBatchOutboxEvents(s, n) ==
  /\ created + n <= MaxOutbox
  /\ created' = created + n
  /\ Create(s, (created + 1) .. (created + n))

\* The test command sends one generated event to one webhook.
SendEventToWebhook(s) ==
  /\ created < MaxOutbox
  /\ created' = created + 1
  /\ Create(s, {created + 1})

\* The retry job fires: allToRetry() is read once, before the first POST.
\* A run that finds nothing to retry changes nothing.
StartRun(r) ==
  LET due == {o \in Outboxes : CanRetryOutboxEvent(repo[o])}
  IN /\ Idle(r)
     /\ due # {}
     /\ work' = [work EXCEPT ![r] =
                   [o \in Outboxes |-> IF o \in due THEN repo[o] ELSE Absent]]
     /\ overlapped' = overlapped \cup {o \in due : \E p \in Procs : Holds(p, o)}
     /\ UNCHANGED <<repo, posting, created, acked, refused, age>>

Post(p) ==
  /\ ~posting[p]
  /\ ~Idle(p)
  /\ posting' = [posting EXCEPT ![p] = TRUE]
  /\ UNCHANGED <<repo, work, created, acked, refused, overlapped, age>>

\* The POST of o ended.  ok: with status 200 or 201; not ok: with any other
\* status, a lost answer and an unreadable body included (they count as 500).
\* The new record is computed from the one p read and replaces the stored one.
Answered(p, o, ok) ==
  /\ posting[p]
  /\ First(p, o)
  /\ posting' = [posting EXCEPT ![p] = FALSE]
  /\ repo' = [repo EXCEPT ![o] = IF ok THEN OutboxEventDelivered(work[p][o])
                                       ELSE OutboxEventDeliveryFailed(work[p][o])]
  /\ work' = [work EXCEPT ![p][o] = Absent]
  /\ acked' = [acked EXCEPT ![o] = IF ok THEN @ + 1 ELSE @]
  /\ refused' = [refused EXCEPT ![o] = IF ok THEN @ ELSE @ + 1]
  /\ age' = [age EXCEPT ![o] = 0]
  /\ UNCHANGED <<created, overlapped>>

SendBatchOutboxEvents(s) ==
  \E o \in Outboxes, ok \in BOOLEAN : Answered(s, o, ok)

\* RetryOutboxEvent throws when its argument cannot be retried; the job only
\* passes what allToRetry() returned and time does not undo that.
RetryOutboxEvent(r) ==
  \E o \in Outboxes, ok \in BOOLEAN :
    CanRetryOutboxEvent(work[r][o]) /\ Answered(r, o, ok)

\* One unit of time passes.
Tick ==
  /\ repo' = [o \in Outboxes |->
                IF repo[o].nextTryAt \in Nat \ {0}
                THEN [repo[o] EXCEPT !.nextTryAt = @ - 1] ELSE repo[o]]
  /\ age' = [o \in Outboxes |-> IF age[o] < MaxAge THEN age[o] + 1 ELSE age[o]]
  /\ UNCHANGED <<work, posting, created, acked, refused, overlapped>>

Next ==
  \/ \E s \in Senders :
       \/ \E n \in 1 .. MaxOutbox : CreateBatchOutboxEvents(s, n)
       \/ SendEventToWebhook(s)
       \/ SendBatchOutboxEvents(s)
  \/ \E r \in Runs : StartRun(r) \/ RetryOutboxEvent(r)
  \/ \E p \in Procs : Post(p)
  \/ Tick

Spec == Init /\ [][Next]_vars

\* Every fetch ends (with an answer or an exception), the event loop resumes
\* every continuation, time passes and the interval keeps firing.
Fairness ==
  /\ \A p \in Procs : WF_vars(Post(p))
  /\ \A s \in Senders : WF_vars(SendBatchOutboxEvents(s))
  /\ \A r \in Runs : WF_vars(RetryOutboxEvent(r))
  /\ WF_vars(\E r \in Runs : StartRun(r))
  /\ WF_vars(Tick)

FairSpec == Spec /\ Fairness

-----------------------------------------------------------------------------
(* Properties                                                              *)

Settled(o) == repo[o].status \in {"delivered", "cancelled"}

\* What the repository says of an event really happened: it is "delivered" only
\* if a POST of it was answered 200/201, "cancelled" only if the receiver failed
\* to answer on every try of the schedule, and otherwise it counts no more tries
\* than failed POSTs - although writers overwrite each other with stale records.
StatusIsJustified ==
  \A o \in Outboxes :
    /\ repo[o].status = "delivered" => acked[o] > 0
    /\ repo[o].status = "cancelled" => refused[o] > Len(Delays)
    /\ repo[o].status # "delivered" => repo[o].tries <= refused[o]

\* An event no two processes ever had in hand at once is POSTed exactly tries
\* times, and successfully at most once, after which it is delivered: duplicate
\* deliveries and lost outcomes come from overlapping attempts and nothing else.
ExactUnlessOverlapped ==
  \A o \in Outboxes \ overlapped :
    /\ repo[o].tries = acked[o] + refused[o]
    /\ acked[o] = IF repo[o].status = "delivered" THEN 1 ELSE 0

\* Each POST that goes out for such an event respects the schedule: after n
\* failed tries at least Delays[n] has passed since the last answer.
BackoffIsRespected ==
  [][\A p \in Procs, o \in Outboxes \ overlapped :
        /\ posting'[p] /\ ~posting[p]
        /\ First(p, o)
        /\ refused[o] > 0
        => refused[o] <= Len(Delays) /\ age[o] >= Delays[refused[o]]]_vars

\* Every outbox event ends up delivered or cancelled and then stays so, even
\* though a stale write can take it back to "failed" after either.
EventuallySettled ==
  \A o \in Outboxes : repo[o].status = "pending" ~> []Settled(o)

=============================================================================
