------------------------ MODULE WebhookOutboxProofs ------------------------
(***************************************************************************)
(* Proofs about WebhookOutbox, for any number of senders, runs and events  *)
(* and any schedule of delays.                                             *)
(***************************************************************************)
EXTENDS WebhookOutbox, TLAPS

\* What a process has in hand: events it may retry, with no more tries than
\* failed POSTs of them.
HandsInv ==
  \A p \in Procs, o \in Outboxes : Holds(p, o) =>
    /\ CanRetryOutboxEvent(work[p][o])
    /\ work[p][o].tries <= refused[o]

\* Ids that are not given out yet.
FreshInv ==
  \A o \in Outboxes : o > created =>
    /\ repo[o] = Absent /\ acked[o] = 0 /\ refused[o] = 0
    /\ \A p \in Procs : ~Holds(p, o)

\* At most one process has an event in hand that never overlapped, and what it
\* has is what the repository stores.
SingleHolderInv ==
  \A o \in Outboxes \ overlapped, p \in Procs : Holds(p, o) =>
    /\ work[p][o] = repo[o]
    /\ \A q \in Procs : Holds(q, o) => q = p

\* While an event waits for its next try, the wait that is left and the time
\* since the last answer make up the delay of the schedule.
WaitInv ==
  \A o \in Outboxes \ overlapped :
    /\ repo[o].status = "pending" => repo[o].tries = 0
    /\ repo[o].status = "failed" =>
         /\ repo[o].tries \in DOMAIN Delays
         /\ repo[o].nextTryAt + age[o] >= Delays[repo[o].tries]

JustifiedInv == TypeOK /\ HandsInv /\ StatusIsJustified

ExactInv ==
  JustifiedInv /\ FreshInv /\ SingleHolderInv /\ ExactUnlessOverlapped

-----------------------------------------------------------------------------
(* Outbox events                                                           *)

\* The records the code builds have the shape the type invariant asks for.
LEMMA RecordsAreClosed ==
  /\ Absent \in Records
  /\ CreateOutboxEvent \in Records
  /\ \A e \in Records : OutboxEventDelivered(e) \in Records
                        /\ OutboxEventDeliveryFailed(e) \in Records
<1>. USE ConstantsAssumption
<1>1. Absent \in Records /\ CreateOutboxEvent \in Records
  BY DEF Absent, CreateOutboxEvent, Records, Statuses
<1>2. ASSUME NEW e \in Records
      PROVE  OutboxEventDelivered(e) \in Records
  BY <1>2 DEF OutboxEventDelivered, Records, Statuses
<1>3. ASSUME NEW e \in Records
      PROVE  OutboxEventDeliveryFailed(e) \in Records
  <2>1. e.tries + 1 \in Nat /\ getNextTryAt(e.tries + 1) \in Nat \cup {Null}
    BY DEF getNextTryAt, Records
  <2>2. QED
    BY <2>1 DEF OutboxEventDeliveryFailed, Records, Statuses
<1>4. QED
  BY <1>1, <1>2, <1>3

\* A failed try is recorded as "failed" while the schedule has a delay for it,
\* and as "cancelled" once it has none.
LEMMA FailedRecord ==
  ASSUME NEW e \in Records
  PROVE  LET f == OutboxEventDeliveryFailed(e)
         IN /\ f.tries = e.tries + 1
            /\ f.status \in {"failed", "cancelled"}
            /\ f.status = "failed" => /\ f.tries \in DOMAIN Delays
                                      /\ f.nextTryAt = Delays[f.tries]
            /\ f.status = "cancelled" => f.tries > Len(Delays)
<1>1. e.tries \in Nat /\ e.tries + 1 # 0
  BY DEF Records
<1>2. DOMAIN Delays = 1 .. Len(Delays) /\ Len(Delays) \in Nat
  BY ConstantsAssumption
<1>3. CASE e.tries + 1 \in DOMAIN Delays
  <2>1. getNextTryAt(e.tries + 1) = Delays[e.tries + 1]
    BY <1>1, <1>3 DEF getNextTryAt
  <2>2. Delays[e.tries + 1] # Null
    BY <1>3, ConstantsAssumption
  <2>3. QED
    BY <1>3, <2>1, <2>2 DEF OutboxEventDeliveryFailed
<1>4. CASE e.tries + 1 \notin DOMAIN Delays
  <2>1. getNextTryAt(e.tries + 1) = Null
    BY <1>1, <1>4 DEF getNextTryAt
  <2>2. e.tries + 1 > Len(Delays)
    BY <1>1, <1>2, <1>4
  <2>3. QED
    BY <2>1, <2>2 DEF OutboxEventDeliveryFailed
<1>5. QED
  BY <1>3, <1>4

-----------------------------------------------------------------------------
(* Type correctness                                                        *)

\* The variables keep their types under every interleaving of senders and runs;
\* in particular only delivered and cancelled events have a null nextTryAt.
THEOREM TypeCorrect == Spec => []TypeOK
<1>. USE ConstantsAssumption
<1>1. Init => TypeOK
  BY RecordsAreClosed DEF Init, TypeOK, Nothing, Outboxes
<1>2. TypeOK /\ [Next]_vars => TypeOK'
  <2>. SUFFICES ASSUME TypeOK, [Next]_vars PROVE TypeOK'
    OBVIOUS
  <2>1. ASSUME NEW s \in Procs, NEW STATE batch, Create(s, batch),
               created' \in 0 .. MaxOutbox
        PROVE  TypeOK'
    BY <2>1, RecordsAreClosed DEF TypeOK, Create
  <2>2. ASSUME NEW p \in Procs, NEW o \in Outboxes, NEW ok \in BOOLEAN,
               Answered(p, o, ok)
        PROVE  TypeOK'
    <3>1. work[p][o] \in Records
      BY DEF TypeOK
    <3>2. repo' \in [Outboxes -> Records]
      BY <2>2, <3>1, RecordsAreClosed DEF TypeOK, Answered
    <3>3. work' \in [Procs -> [Outboxes -> Records]]
      BY <2>2, RecordsAreClosed DEF TypeOK, Answered
    <3>4. acked' \in [Outboxes -> Nat] /\ refused' \in [Outboxes -> Nat]
      BY <2>2 DEF TypeOK, Answered
    <3>5. QED
      BY <2>2, <3>2, <3>3, <3>4 DEF TypeOK, Answered
  <2>3. ASSUME NEW s \in Senders, NEW n \in 1 .. MaxOutbox,
               CreateBatchOutboxEvents(s, n)
        PROVE  TypeOK'
    BY <2>1, <2>3 DEF CreateBatchOutboxEvents, Procs, TypeOK
  <2>4. ASSUME NEW s \in Senders, SendEventToWebhook(s)
        PROVE  TypeOK'
    <3>1. Create(s, {created + 1}) /\ created' \in 0 .. MaxOutbox /\ s \in Procs
      BY <2>4 DEF SendEventToWebhook, Procs, TypeOK
    <3>2. QED
      BY <2>1, <3>1
  <2>5. ASSUME NEW s \in Senders, SendBatchOutboxEvents(s)
        PROVE  TypeOK'
    BY <2>2, <2>5 DEF SendBatchOutboxEvents, Procs
  <2>6. ASSUME NEW r \in Runs, StartRun(r)
        PROVE  TypeOK'
    BY <2>6, RecordsAreClosed DEF TypeOK, StartRun
  <2>7. ASSUME NEW r \in Runs, RetryOutboxEvent(r)
        PROVE  TypeOK'
    BY <2>2, <2>7 DEF RetryOutboxEvent, Procs
  <2>8. ASSUME NEW p \in Procs, Post(p)
        PROVE  TypeOK'
    BY <2>8 DEF TypeOK, Post
  <2>9. CASE Tick
    <3>1. ASSUME NEW o \in Outboxes PROVE repo'[o] \in Records
      <4>1. repo[o] \in Records
        BY DEF TypeOK
      <4>2. CASE repo[o].nextTryAt \in Nat \ {0}
        <5>1. repo'[o] = [repo[o] EXCEPT !.nextTryAt = @ - 1]
          BY <2>9, <4>2 DEF Tick
        <5>2. repo[o].nextTryAt - 1 \in Nat /\ repo[o].status # "pending"
          BY <4>1, <4>2 DEF Records
        <5>3. QED
          BY <4>1, <4>2, <5>1, <5>2 DEF Records
      <4>3. CASE repo[o].nextTryAt \notin Nat \ {0}
        BY <2>9, <4>1, <4>3 DEF Tick
      <4>4. QED
        BY <4>2, <4>3
    <3>2. repo' \in [Outboxes -> Records]
      BY <2>9, <3>1 DEF Tick
    <3>3. QED
      BY <2>9, <3>2 DEF TypeOK, Tick
  <2>10. CASE UNCHANGED vars
    BY <2>10 DEF TypeOK, vars
  <2>11. QED
    BY <2>3, <2>4, <2>5, <2>6, <2>7, <2>8, <2>9, <2>10 DEF Next
<1>3. QED
  BY <1>1, <1>2, PTL DEF Spec

-----------------------------------------------------------------------------
(* What the repository says happened                                       *)

\* The two conjuncts of JustifiedInv depend on each other: what a process
\* writes back is justified because what it read was, and the converse.
LEMMA JustifiedInvStep == JustifiedInv /\ [Next]_vars => HandsInv' /\ StatusIsJustified'
<1>. USE ConstantsAssumption
<1>. SUFFICES ASSUME JustifiedInv, [Next]_vars
              PROVE  HandsInv' /\ StatusIsJustified'
  OBVIOUS
<1>. USE DEF JustifiedInv
<1>1. ASSUME NEW s \in Procs, NEW STATE batch, Create(s, batch)
      PROVE  HandsInv' /\ StatusIsJustified'
  <2>1. HandsInv'
    <3>. SUFFICES ASSUME NEW p \in Procs, NEW o \in Outboxes, Holds(p, o)'
                  PROVE  CanRetryOutboxEvent(work'[p][o]) /\ work'[p][o].tries <= refused'[o]
      BY DEF HandsInv, CanRetryOutboxEvent
    <3>1. CASE p = s
      BY <1>1, <3>1 DEF Create, Holds, TypeOK, Absent, CreateOutboxEvent, CanRetryOutboxEvent
    <3>2. CASE p # s
      BY <1>1, <3>2 DEF Create, Holds, TypeOK, HandsInv
    <3>3. QED
      BY <3>1, <3>2
  <2>2. StatusIsJustified'
    BY <1>1 DEF StatusIsJustified, Create, TypeOK, CreateOutboxEvent
  <2>3. QED
    BY <2>1, <2>2
<1>2. ASSUME NEW p \in Procs, NEW o \in Outboxes, NEW ok \in BOOLEAN, Answered(p, o, ok)
      PROVE  HandsInv' /\ StatusIsJustified'
  <2>1. /\ Holds(p, o) /\ work[p][o] \in Records
        /\ work[p][o].tries <= refused[o] /\ work[p][o].tries \in Nat
    BY <1>2 DEF Answered, First, TypeOK, HandsInv, Records
  <2>2. \A x \in Outboxes : acked'[x] \in Nat /\ refused'[x] \in Nat
                            /\ acked[x] <= acked'[x] /\ refused[x] <= refused'[x]
    BY <1>2 DEF Answered, TypeOK
  <2>3. HandsInv'
    <3>. SUFFICES ASSUME NEW q \in Procs, NEW x \in Outboxes, Holds(q, x)'
                  PROVE  CanRetryOutboxEvent(work'[q][x]) /\ work'[q][x].tries <= refused'[x]
      BY DEF HandsInv, CanRetryOutboxEvent
    <3>1. Holds(q, x) /\ work'[q][x] = work[q][x]
      BY <1>2 DEF Answered, Holds, Absent, TypeOK
    <3>2. work[q][x].tries \in Nat /\ refused[x] \in Nat
      BY DEF TypeOK, Records
    <3>3. QED
      BY <2>2, <3>1, <3>2 DEF HandsInv
  <2>4. StatusIsJustified'
    <3>. SUFFICES ASSUME NEW x \in Outboxes
                  PROVE  /\ repo'[x].status = "delivered" => acked'[x] > 0
                         /\ repo'[x].status = "cancelled" => refused'[x] > Len(Delays)
                         /\ repo'[x].status # "delivered" => repo'[x].tries <= refused'[x]
      BY DEF StatusIsJustified
    <3>1. CASE x # o
      <4>1. repo'[x] = repo[x] /\ repo[x].tries \in Nat /\ acked[x] \in Nat /\ refused[x] \in Nat
        BY <1>2, <3>1 DEF Answered, TypeOK, Records
      <4>2. QED
        BY <2>2, <4>1 DEF StatusIsJustified
    <3>2. CASE x = o /\ ok
      BY <1>2, <3>2 DEF Answered, TypeOK, OutboxEventDelivered
    <3>3. CASE x = o /\ ~ok
      <4>1. repo'[x] = OutboxEventDeliveryFailed(work[p][o]) /\ refused'[x] = refused[x] + 1
        BY <1>2, <3>3 DEF Answered, TypeOK
      <4>2. refused[x] \in Nat
        BY DEF TypeOK
      <4>3. QED
        BY SMTT(30), <2>1, <3>3, <4>1, <4>2, FailedRecord
    <3>4. QED
      BY <3>1, <3>2, <3>3
  <2>5. QED
    BY <2>3, <2>4
<1>3. ASSUME NEW s \in Senders, NEW n \in 1 .. MaxOutbox, CreateBatchOutboxEvents(s, n)
      PROVE  HandsInv' /\ StatusIsJustified'
  BY <1>1, <1>3 DEF CreateBatchOutboxEvents, Procs
<1>4. ASSUME NEW s \in Senders, SendEventToWebhook(s)
      PROVE  HandsInv' /\ StatusIsJustified'
  <2>1. Create(s, {created + 1}) /\ s \in Procs
    BY <1>4 DEF SendEventToWebhook, Procs
  <2>2. QED
    BY <1>1, <2>1
<1>5. ASSUME NEW s \in Senders, SendBatchOutboxEvents(s)
      PROVE  HandsInv' /\ StatusIsJustified'
  BY <1>2, <1>5 DEF SendBatchOutboxEvents, Procs
<1>6. ASSUME NEW r \in Runs, StartRun(r)
      PROVE  HandsInv' /\ StatusIsJustified'
  <2>1. HandsInv'
    <3>. SUFFICES ASSUME NEW p \in Procs, NEW o \in Outboxes, Holds(p, o)'
                  PROVE  CanRetryOutboxEvent(work'[p][o]) /\ work'[p][o].tries <= refused'[o]
      BY DEF HandsInv, CanRetryOutboxEvent
    <3>1. CASE p = r
      <4>1. CanRetryOutboxEvent(repo[o]) /\ work'[p][o] = repo[o]
        BY <1>6, <3>1 DEF StartRun, Holds, TypeOK, Absent
      <4>2. repo[o].status # "delivered"
        BY <4>1 DEF CanRetryOutboxEvent
      <4>3. QED
        BY <1>6, <4>1, <4>2 DEF StartRun, StatusIsJustified
    <3>2. CASE p # r
      BY <1>6, <3>2 DEF StartRun, Holds, TypeOK, HandsInv
    <3>3. QED
      BY <3>1, <3>2
  <2>2. StatusIsJustified'
    BY <1>6 DEF StatusIsJustified, StartRun
  <2>3. QED
    BY <2>1, <2>2
<1>7. ASSUME NEW r \in Runs, RetryOutboxEvent(r)
      PROVE  HandsInv' /\ StatusIsJustified'
  BY <1>2, <1>7 DEF RetryOutboxEvent, Procs
<1>8. ASSUME NEW p \in Procs, Post(p)
      PROVE  HandsInv' /\ StatusIsJustified'
  BY <1>8 DEF Post, HandsInv, Holds, StatusIsJustified
<1>9. CASE Tick
  <2>1. \A o \in Outboxes : repo'[o].status = repo[o].status /\ repo'[o].tries = repo[o].tries
    BY <1>9 DEF Tick, TypeOK, Records
  <2>2. HandsInv'
    BY <1>9 DEF Tick, HandsInv, Holds
  <2>3. StatusIsJustified'
    BY <1>9, <2>1 DEF Tick, StatusIsJustified
  <2>4. QED
    BY <2>2, <2>3
<1>10. CASE UNCHANGED vars
  BY <1>10 DEF vars, HandsInv, Holds, StatusIsJustified
<1>11. QED
  BY <1>3, <1>4, <1>5, <1>6, <1>7, <1>8, <1>9, <1>10 DEF Next

\* However senders and overlapping runs interleave, "delivered" and "cancelled"
\* are only ever stored for events whose receiver answered 200/201 once, or
\* failed to on every try of the schedule.
THEOREM StatusJustified == Spec => []StatusIsJustified
<1>1. Init => JustifiedInv
  <2>1. Init => HandsInv /\ StatusIsJustified
    BY DEF Init, HandsInv, Holds, StatusIsJustified, Nothing, Absent
  <2>2. Init => TypeOK
    BY RecordsAreClosed, ConstantsAssumption DEF Init, TypeOK, Nothing, Outboxes
  <2>3. QED
    BY <2>1, <2>2 DEF JustifiedInv
<1>2. JustifiedInv /\ TypeOK' /\ [Next]_vars => JustifiedInv'
  BY JustifiedInvStep DEF JustifiedInv
<1>3. JustifiedInv => StatusIsJustified
  BY DEF JustifiedInv
<1>4. QED
  BY <1>1, <1>2, <1>3, TypeCorrect, PTL DEF Spec

-----------------------------------------------------------------------------
(* Events that never overlapped                                            *)

\* A step that creates the events of batch, none of which was in use before.
LEMMA CreateStep ==
  ASSUME ExactInv, NEW s \in Procs, NEW STATE batch, Create(s, batch),
         created' \in Nat, created <= created',
         \A o \in batch : o > created /\ o <= created'
  PROVE  FreshInv' /\ SingleHolderInv' /\ ExactUnlessOverlapped'
<1>. USE DEF ExactInv, JustifiedInv
<1>0. created \in Nat /\ Outboxes \subseteq Nat
  BY ConstantsAssumption DEF TypeOK, Outboxes
<1>1. /\ \A o \in Outboxes \ batch : repo'[o] = repo[o]
      /\ \A o \in Outboxes \cap batch : repo'[o] = CreateOutboxEvent
      /\ acked' = acked /\ refused' = refused /\ overlapped' = overlapped
  BY DEF Create
<1>2. \A p \in Procs, o \in Outboxes :
        work'[p][o] = IF p = s THEN IF o \in batch THEN CreateOutboxEvent ELSE Absent
                               ELSE work[p][o]
  BY DEF Create, TypeOK
<1>3. FreshInv'
  <2>. SUFFICES ASSUME NEW o \in Outboxes, o > created'
                PROVE  /\ repo'[o] = Absent /\ acked'[o] = 0 /\ refused'[o] = 0
                       /\ \A p \in Procs : ~Holds(p, o)'
    BY DEF FreshInv
  <2>1. o \notin batch /\ o > created
    BY <1>0
  <2>2. QED
    BY <1>1, <1>2, <2>1 DEF FreshInv, Holds, Absent
<1>4. SingleHolderInv'
  <2>. SUFFICES ASSUME NEW o \in Outboxes \ overlapped, NEW p \in Procs, Holds(p, o)'
                PROVE  work'[p][o] = repo'[o] /\ \A q \in Procs : Holds(q, o)' => q = p
    BY <1>1 DEF SingleHolderInv
  <2>1. CASE o \in batch
    BY <1>1, <1>2, <2>1 DEF FreshInv, Holds
  <2>2. CASE o \notin batch
    BY <1>1, <1>2, <2>2 DEF SingleHolderInv, Holds, Absent
  <2>3. QED
    BY <2>1, <2>2
<1>5. ExactUnlessOverlapped'
  BY <1>1 DEF ExactUnlessOverlapped, FreshInv, CreateOutboxEvent
<1>6. QED
  BY <1>3, <1>4, <1>5

\* A POST of an event that never overlapped updates the record it was read from.
LEMMA AnsweredStep ==
  ASSUME ExactInv, NEW p \in Procs, NEW o \in Outboxes, NEW ok \in BOOLEAN,
         Answered(p, o, ok)
  PROVE  FreshInv' /\ SingleHolderInv' /\ ExactUnlessOverlapped'
<1>. USE DEF ExactInv, JustifiedInv
<1>1. /\ Holds(p, o) /\ work[p][o] \in Records /\ CanRetryOutboxEvent(work[p][o])
      /\ created' = created /\ overlapped' = overlapped
  BY DEF Answered, First, TypeOK, HandsInv
<1>2. \A x \in Outboxes \ {o} :
        repo'[x] = repo[x] /\ acked'[x] = acked[x] /\ refused'[x] = refused[x]
  BY DEF Answered, TypeOK
<1>3. \A q \in Procs, x \in Outboxes : Holds(q, x)' =>
        Holds(q, x) /\ work'[q][x] = work[q][x] /\ <<q, x>> # <<p, o>>
  BY DEF Answered, Holds, Absent, TypeOK
<1>4. FreshInv'
  BY <1>1, <1>2, <1>3 DEF FreshInv
<1>5. SingleHolderInv'
  <2>. SUFFICES ASSUME NEW x \in Outboxes \ overlapped, NEW q \in Procs, Holds(q, x)'
                PROVE  work'[q][x] = repo'[x] /\ \A z \in Procs : Holds(z, x)' => z = q
    BY <1>1 DEF SingleHolderInv
  <2>1. Holds(q, x) /\ work'[q][x] = work[q][x] /\ <<q, x>> # <<p, o>>
    BY <1>3
  <2>2. x # o
    BY <1>1, <2>1 DEF SingleHolderInv
  <2>3. QED
    BY <1>2, <1>3, <2>1, <2>2 DEF SingleHolderInv
<1>6. ExactUnlessOverlapped'
  <2>. SUFFICES ASSUME NEW x \in Outboxes \ overlapped
                PROVE  /\ repo'[x].tries = acked'[x] + refused'[x]
                       /\ acked'[x] = IF repo'[x].status = "delivered" THEN 1 ELSE 0
    BY <1>1 DEF ExactUnlessOverlapped
  <2>1. CASE x # o
    BY <1>2, <2>1 DEF ExactUnlessOverlapped
  <2>2. CASE x = o
    <3>1. repo[o] = work[p][o] /\ repo[o].status # "delivered"
      BY <1>1, <2>2 DEF SingleHolderInv, CanRetryOutboxEvent
    <3>2. acked[o] = 0 /\ repo[o].tries = refused[o] /\ refused[o] \in Nat
      BY <2>2, <3>1 DEF ExactUnlessOverlapped, TypeOK
    <3>3. CASE ok
      <4>1. /\ repo'[o] = OutboxEventDelivered(work[p][o])
            /\ acked'[o] = acked[o] + 1 /\ refused'[o] = refused[o]
        BY <3>3 DEF Answered, TypeOK
      <4>2. QED
        BY <2>2, <3>1, <3>2, <4>1 DEF OutboxEventDelivered
    <3>4. CASE ~ok
      <4>1. /\ repo'[o] = OutboxEventDeliveryFailed(work[p][o])
            /\ acked'[o] = acked[o] /\ refused'[o] = refused[o] + 1
        BY <3>4 DEF Answered, TypeOK
      <4>2. QED
        BY <1>1, <2>2, <3>1, <3>2, <4>1, FailedRecord
    <3>5. QED
      BY <3>3, <3>4
  <2>3. QED
    BY <2>1, <2>2
<1>7. QED
  BY <1>4, <1>5, <1>6

\* A run takes what is stored; whatever somebody else has already in hand is
\* counted as overlapped.
LEMMA StartRunStep ==
  ASSUME ExactInv, NEW r \in Runs, StartRun(r)
  PROVE  FreshInv' /\ SingleHolderInv' /\ ExactUnlessOverlapped'
<1>. USE DEF ExactInv, JustifiedInv
<1>1. /\ UNCHANGED <<repo, created, acked, refused>>
      /\ overlapped \subseteq overlapped'
      /\ \A o \in Outboxes : ~Holds(r, o)
  BY DEF StartRun, Idle
<1>2. \A p \in Procs, o \in Outboxes :
        work'[p][o] = IF p # r THEN work[p][o]
                      ELSE IF CanRetryOutboxEvent(repo[o]) THEN repo[o] ELSE Absent
  BY DEF StartRun, TypeOK
<1>3. \A o \in Outboxes : CanRetryOutboxEvent(repo[o]) /\ (\E p \in Procs : Holds(p, o))
        => o \in overlapped'
  BY DEF StartRun
<1>4. FreshInv'
  BY <1>1, <1>2 DEF FreshInv, Holds, Absent
<1>5. SingleHolderInv'
  <2>. SUFFICES ASSUME NEW o \in Outboxes \ overlapped', NEW p \in Procs, Holds(p, o)'
                PROVE  work'[p][o] = repo'[o] /\ \A q \in Procs : Holds(q, o)' => q = p
    BY DEF SingleHolderInv
  <2>1. CASE CanRetryOutboxEvent(repo[o])
    <3>1. \A q \in Procs : ~Holds(q, o)
      BY <1>3, <2>1
    <3>2. \A q \in Procs : Holds(q, o)' => q = r
      BY <1>2, <3>1 DEF Holds
    <3>3. QED
      BY <1>1, <1>2, <2>1, <3>2
  <2>2. CASE ~CanRetryOutboxEvent(repo[o])
    <3>1. \A q \in Procs : Holds(q, o)' => q # r /\ Holds(q, o)
      BY <1>2, <2>2 DEF Holds, Absent
    <3>2. p # r /\ Holds(p, o) /\ o \notin overlapped
      BY <1>1, <3>1
    <3>3. QED
      BY <1>1, <1>2, <3>1, <3>2 DEF SingleHolderInv
  <2>3. QED
    BY <2>1, <2>2
<1>6. ExactUnlessOverlapped'
  BY <1>1 DEF ExactUnlessOverlapped
<1>7. QED
  BY <1>4, <1>5, <1>6

\* Time only shortens waits that are not over, and nobody has such an event in
\* hand unless it overlapped.
LEMMA TickStep ==
  ASSUME ExactInv, Tick
  PROVE  FreshInv' /\ SingleHolderInv' /\ ExactUnlessOverlapped'
<1>. USE DEF ExactInv, JustifiedInv
<1>1. UNCHANGED <<work, created, acked, refused, overlapped>>
  BY DEF Tick
<1>2. \A o \in Outboxes : repo'[o].status = repo[o].status /\ repo'[o].tries = repo[o].tries
  BY DEF Tick, TypeOK, Records
<1>3. \A o \in Outboxes : repo[o].nextTryAt \notin Nat \ {0} => repo'[o] = repo[o]
  BY DEF Tick
<1>4. FreshInv'
  BY <1>1, <1>3, ConstantsAssumption DEF FreshInv, Holds, Absent
<1>5. SingleHolderInv'
  <2>. SUFFICES ASSUME NEW o \in Outboxes \ overlapped, NEW p \in Procs, Holds(p, o)
                PROVE  work[p][o] = repo'[o] /\ \A q \in Procs : Holds(q, o) => q = p
    BY <1>1 DEF SingleHolderInv, Holds
  <2>1. work[p][o] = repo[o] /\ CanRetryOutboxEvent(repo[o]) /\ repo[o] \in Records
    BY DEF SingleHolderInv, HandsInv, TypeOK
  <2>2. repo[o].nextTryAt = 0
    BY <2>1 DEF CanRetryOutboxEvent, Records
  <2>3. QED
    BY <1>3, <2>1, <2>2 DEF SingleHolderInv
<1>6. ExactUnlessOverlapped'
  BY <1>1, <1>2 DEF ExactUnlessOverlapped
<1>7. QED
  BY <1>4, <1>5, <1>6

\* Every step keeps the invariant of exact deliveries.
LEMMA ExactInvStep ==
  ExactInv /\ [Next]_vars => FreshInv' /\ SingleHolderInv' /\ ExactUnlessOverlapped'
<1>. SUFFICES ASSUME ExactInv, [Next]_vars
              PROVE  FreshInv' /\ SingleHolderInv' /\ ExactUnlessOverlapped'
  OBVIOUS
<1>1. ASSUME NEW s \in Senders, NEW n \in 1 .. MaxOutbox, CreateBatchOutboxEvents(s, n)
      PROVE  FreshInv' /\ SingleHolderInv' /\ ExactUnlessOverlapped'
  <2>1. created \in Nat /\ n \in Nat /\ created' = created + n
    BY <1>1, ConstantsAssumption DEF CreateBatchOutboxEvents, ExactInv, JustifiedInv, TypeOK
  <2>2. /\ s \in Procs /\ Create(s, (created + 1) .. (created + n))
        /\ \A o \in (created + 1) .. (created + n) : o > created /\ o <= created'
    BY <1>1, <2>1 DEF CreateBatchOutboxEvents, Procs
  <2>3. QED
    BY <2>1, <2>2, CreateStep
<1>2. ASSUME NEW s \in Senders, SendEventToWebhook(s)
      PROVE  FreshInv' /\ SingleHolderInv' /\ ExactUnlessOverlapped'
  <2>1. created \in Nat /\ created' = created + 1
    BY <1>2, ConstantsAssumption DEF SendEventToWebhook, ExactInv, JustifiedInv, TypeOK
  <2>2. s \in Procs /\ Create(s, {created + 1})
    BY <1>2 DEF SendEventToWebhook, Procs
  <2>3. QED
    BY <2>1, <2>2, CreateStep
<1>3. ASSUME NEW s \in Senders, SendBatchOutboxEvents(s)
      PROVE  FreshInv' /\ SingleHolderInv' /\ ExactUnlessOverlapped'
  BY <1>3, AnsweredStep DEF SendBatchOutboxEvents, Procs
<1>4. ASSUME NEW r \in Runs, RetryOutboxEvent(r)
      PROVE  FreshInv' /\ SingleHolderInv' /\ ExactUnlessOverlapped'
  BY <1>4, AnsweredStep DEF RetryOutboxEvent, Procs
<1>5. ASSUME NEW p \in Procs, Post(p)
      PROVE  FreshInv' /\ SingleHolderInv' /\ ExactUnlessOverlapped'
  BY <1>5 DEF Post, ExactInv, FreshInv, SingleHolderInv, ExactUnlessOverlapped, Holds
<1>6. CASE UNCHANGED vars
  BY <1>6 DEF vars, ExactInv, FreshInv, SingleHolderInv, ExactUnlessOverlapped, Holds
<1>7. QED
  BY <1>1, <1>2, <1>3, <1>4, <1>5, <1>6, StartRunStep, TickStep DEF Next

\* Deliveries are exact in every reachable state.
LEMMA ExactInvCorrect == Spec => []ExactInv
<1>1. Init => ExactInv
  <2>1. Init => HandsInv /\ StatusIsJustified /\ FreshInv /\ SingleHolderInv
                /\ ExactUnlessOverlapped
    BY DEF Init, HandsInv, Holds, StatusIsJustified, FreshInv, SingleHolderInv,
           ExactUnlessOverlapped, Nothing, Absent
  <2>2. Init => TypeOK
    BY RecordsAreClosed, ConstantsAssumption DEF Init, TypeOK, Nothing, Outboxes
  <2>3. QED
    BY <2>1, <2>2 DEF ExactInv, JustifiedInv
<1>2. ExactInv /\ TypeOK' /\ [Next]_vars => ExactInv'
  BY JustifiedInvStep, ExactInvStep DEF ExactInv, JustifiedInv
<1>3. QED
  BY <1>1, <1>2, TypeCorrect, PTL DEF Spec

\* Without overlapping attempts an outbox event counts exactly its POSTs, and
\* its receiver acknowledges it at most once, after which it stays delivered.
THEOREM ExactWithoutOverlap == Spec => []ExactUnlessOverlapped
<1>1. ExactInv => ExactUnlessOverlapped
  BY DEF ExactInv
<1>2. QED
  BY <1>1, ExactInvCorrect, PTL

-----------------------------------------------------------------------------
(* The schedule of the tries                                               *)

\* Every step keeps the invariant of waiting.
LEMMA WaitInvStep == ExactInv /\ WaitInv /\ [Next]_vars => WaitInv'
<1>. USE ConstantsAssumption
<1>. SUFFICES ASSUME ExactInv, WaitInv, [Next]_vars
              PROVE  WaitInv'
  OBVIOUS
<1>. USE DEF ExactInv, JustifiedInv
<1>1. ASSUME UNCHANGED <<repo, age>>, overlapped \subseteq overlapped'
      PROVE  WaitInv'
  BY <1>1 DEF WaitInv
<1>2. ASSUME NEW s \in Procs, NEW STATE batch, Create(s, batch)
      PROVE  WaitInv'
  BY <1>2 DEF WaitInv, Create, CreateOutboxEvent
<1>3. ASSUME NEW p \in Procs, NEW o \in Outboxes, NEW ok \in BOOLEAN, Answered(p, o, ok)
      PROVE  WaitInv'
  <2>. SUFFICES ASSUME NEW x \in Outboxes \ overlapped
                PROVE  /\ repo'[x].status = "pending" => repo'[x].tries = 0
                       /\ repo'[x].status = "failed" =>
                            /\ repo'[x].tries \in DOMAIN Delays
                            /\ repo'[x].nextTryAt + age'[x] >= Delays[repo'[x].tries]
    BY <1>3 DEF WaitInv, Answered
  <2>1. CASE x # o
    BY <1>3, <2>1 DEF Answered, TypeOK, WaitInv
  <2>2. CASE x = o /\ ok
    BY <1>3, <2>2 DEF Answered, TypeOK, OutboxEventDelivered
  <2>3. CASE x = o /\ ~ok
    <3>1. /\ work[p][o] \in Records
          /\ repo'[o] = OutboxEventDeliveryFailed(work[p][o]) /\ age'[o] = 0
      BY <1>3, <2>3 DEF Answered, TypeOK
    <3>2. QED
      BY SMTT(30), <2>3, <3>1, FailedRecord
  <2>4. QED
    BY <2>1, <2>2, <2>3
<1>4. CASE Tick
  <2>. SUFFICES ASSUME NEW o \in Outboxes \ overlapped
                PROVE  /\ repo'[o].status = "pending" => repo'[o].tries = 0
                       /\ repo'[o].status = "failed" =>
                            /\ repo'[o].tries \in DOMAIN Delays
                            /\ repo'[o].nextTryAt + age'[o] >= Delays[repo'[o].tries]
    BY <1>4 DEF Tick, WaitInv
  <2>1. repo'[o].status = repo[o].status /\ repo'[o].tries = repo[o].tries
    BY <1>4 DEF Tick, TypeOK, Records
  <2>2. CASE repo[o].status = "failed"
    <3>1. /\ repo[o].tries \in DOMAIN Delays
          /\ Delays[repo[o].tries] \in Nat /\ Delays[repo[o].tries] <= MaxAge
      BY <2>2 DEF WaitInv
    <3>2. repo[o].nextTryAt \in Nat /\ age[o] \in Nat
      BY <2>2 DEF TypeOK, Records
    <3>3. repo'[o].nextTryAt = IF repo[o].nextTryAt = 0 THEN 0 ELSE repo[o].nextTryAt - 1
      BY <1>4, <3>2 DEF Tick, TypeOK, Records
    <3>4. age'[o] = IF age[o] < MaxAge THEN age[o] + 1 ELSE age[o]
      BY <1>4 DEF Tick
    <3>5. repo[o].nextTryAt + age[o] >= Delays[repo[o].tries]
      BY <2>2 DEF WaitInv
    <3>6. ASSUME NEW w \in Nat, NEW a \in Nat, NEW d \in Nat, d <= MaxAge, w + a >= d
          PROVE  (IF w = 0 THEN 0 ELSE w - 1) + (IF a < MaxAge THEN a + 1 ELSE a) >= d
      BY <3>6
    <3>7. repo'[o].nextTryAt + age'[o] >= Delays[repo[o].tries]
      BY <3>1, <3>2, <3>3, <3>4, <3>5, <3>6
    <3>8. QED
      BY <2>1, <2>2, <3>1, <3>7
  <2>3. CASE repo[o].status # "failed"
    BY <2>1, <2>3 DEF WaitInv
  <2>4. QED
    BY <2>2, <2>3
<1>5. ASSUME NEW s \in Senders, SendEventToWebhook(s)
      PROVE  WaitInv'
  <2>1. Create(s, {created + 1}) /\ s \in Procs
    BY <1>5 DEF SendEventToWebhook, Procs
  <2>2. QED
    BY <1>2, <2>1
<1>6. ASSUME NEW s \in Senders, NEW n \in 1 .. MaxOutbox, CreateBatchOutboxEvents(s, n)
      PROVE  WaitInv'
  BY <1>2, <1>6 DEF CreateBatchOutboxEvents, Procs
<1>7. ASSUME NEW s \in Senders, SendBatchOutboxEvents(s)
      PROVE  WaitInv'
  BY <1>3, <1>7 DEF SendBatchOutboxEvents, Procs
<1>8. ASSUME NEW r \in Runs, StartRun(r) \/ RetryOutboxEvent(r)
      PROVE  WaitInv'
  <2>1. CASE StartRun(r)
    BY <1>1, <2>1 DEF StartRun
  <2>2. CASE RetryOutboxEvent(r)
    BY <1>3, <2>2 DEF RetryOutboxEvent, Procs
  <2>3. QED
    BY <1>8, <2>1, <2>2
<1>9. ASSUME NEW p \in Procs, Post(p)
      PROVE  WaitInv'
  BY <1>1, <1>9 DEF Post
<1>10. CASE UNCHANGED vars
  BY <1>1, <1>10 DEF vars
<1>11. QED
  BY <1>4, <1>5, <1>6, <1>7, <1>8, <1>9, <1>10 DEF Next

\* The POST that follows n failed tries goes out at least Delays[n] after the
\* last answer, for every schedule, unless attempts of the event overlapped.
THEOREM BackoffRespected == Spec => BackoffIsRespected
<1>1. ExactInv /\ WaitInv /\ [Next]_vars =>
        [\A p \in Procs, o \in Outboxes \ overlapped :
           /\ posting'[p] /\ ~posting[p]
           /\ First(p, o)
           /\ refused[o] > 0
           => refused[o] <= Len(Delays) /\ age[o] >= Delays[refused[o]]]_vars
  <2>. SUFFICES ASSUME ExactInv, WaitInv, NEW p \in Procs,
                       NEW o \in Outboxes \ overlapped, First(p, o), refused[o] > 0
                PROVE  refused[o] <= Len(Delays) /\ age[o] >= Delays[refused[o]]
    OBVIOUS
  <2>. USE DEF ExactInv, JustifiedInv
  <2>1. CanRetryOutboxEvent(repo[o])
    BY DEF First, HandsInv, SingleHolderInv
  <2>2. repo[o].tries = refused[o] /\ refused[o] \in Nat
    BY <2>1 DEF CanRetryOutboxEvent, ExactUnlessOverlapped, TypeOK
  <2>3. repo[o].status = "failed" /\ repo[o].nextTryAt = 0
    BY <2>1, <2>2 DEF CanRetryOutboxEvent, WaitInv
  <2>4. refused[o] \in 1 .. Len(Delays) /\ 0 + age[o] >= Delays[refused[o]]
    BY <2>2, <2>3, ConstantsAssumption DEF WaitInv
  <2>5. QED
    BY <2>4 DEF TypeOK
<1>2. Init => WaitInv
  BY DEF Init, WaitInv, Nothing, Absent
<1>3. Spec => []WaitInv
  BY <1>2, WaitInvStep, ExactInvCorrect, PTL DEF Spec
<1>4. QED
  BY <1>1, <1>3, ExactInvCorrect, PTL DEF Spec, BackoffIsRespected

=============================================================================
