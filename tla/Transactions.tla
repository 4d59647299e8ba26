---------------------------- MODULE Transactions ----------------------------
(***************************************************************************)
(* Transactional methods: @Transactional() starts a MongoDB session for    *)
(* the correlation id of its call unless there is one, starts a            *)
(* transaction in it, runs the method, commits or aborts, and ends the     *)
(* session it started.  Sessions are found by correlation id in a map.     *)
(*                                                                         *)
(* Calls interleave at their awaits.  Two calls of one correlation id may  *)
(* overlap: one is called by the other's method, or both by a handler that *)
(* awaits them together.                                                   *)
(***************************************************************************)
EXTENDS Naturals, FiniteSets

CONSTANTS
  Calls,         \* calls of transactional methods
  Ids,           \* correlation ids
  Null,
  MaxFailures    \* bound: how often MongoDB fails to start or to commit

ASSUME ConstantsAssumption == MaxFailures \in Nat /\ Null \notin Calls

VARIABLES
  cid,                 \* cid[c]: the correlation id of a call, its caller's choice
  sessionRequestMap,   \* which session belongs to an id: the one a call started
  session,             \* session[c]: the client session that call c started
  call,                \* call[c]: where it is, whether it started a session
                       \* itself, the session it commits or aborts, whether it
                       \* wrote, and what became of it
  durable,             \* the calls whose write is in the database for good
  failures,            \* history: how often MongoDB failed
  shared               \* history: the calls that overlapped one of the same id

vars == <<cid, sessionRequestMap, session, call, durable, failures, shared>>

NoSession == [active |-> FALSE, ended |-> TRUE, writes |-> {}]

Init ==
  /\ cid \in [Calls -> Ids]
  /\ sessionRequestMap = [i \in Ids |-> Null]
  /\ session = [c \in Calls |-> NoSession]
  /\ call = [c \in Calls |-> [pc |-> "new", own |-> FALSE, session |-> Null,
                              wrote |-> FALSE, result |-> "none"]]
  /\ durable = {}
  /\ failures = 0
  /\ shared = {}

getSession(c) == sessionRequestMap[cid[c]]

sessionStarted(c) == getSession(c) # Null

InTransaction(c) == sessionStarted(c) /\ session[getSession(c)].active

UnderWay(c) == call[c].pc \notin {"new", "done"}

Done(c, result) == call' = [call EXCEPT ![c].pc = "done", ![c].result = result]

\* Mutant: it waits for the other transaction.
startTransaction_Waits(c) ==
  /\ sessionStarted(c) /\ ~InTransaction(c)
  /\ session' = [session EXCEPT ![getSession(c)].active = TRUE]
  /\ call' = [call EXCEPT ![c].pc = "method"]

\* Starting a transaction fails without a session and in one that has started.
\* It is not inside the try: nothing is ended then.
startTransaction(c) ==
  IF sessionStarted(c) /\ ~InTransaction(c)
  THEN /\ session' = [session EXCEPT ![getSession(c)].active = TRUE]
       /\ call' = [call EXCEPT ![c].pc = "method"]
  ELSE /\ Done(c, "failed")
       /\ UNCHANGED session

\* The decorated method is called: there is no await before the session is
\* looked for, and, if there is one, its transaction started.
Transactional(c) ==
  /\ call[c].pc = "new"
  /\ shared' = IF \E d \in Calls : UnderWay(d) /\ cid[d] = cid[c]
               THEN shared \cup {c} \cup {d \in Calls : UnderWay(d) /\ cid[d] = cid[c]}
               ELSE shared
  /\ IF sessionStarted(c)
     THEN startTransaction(c)
     ELSE /\ call' = [call EXCEPT ![c].pc = "starting", ![c].own = TRUE]
          /\ UNCHANGED session
  /\ UNCHANGED <<cid, sessionRequestMap, durable, failures>>

\* The session is there; it replaces another one of the id.
startSession(c) ==
  /\ call[c].pc = "starting"
  /\ sessionRequestMap' = [sessionRequestMap EXCEPT ![cid[c]] = c]
  /\ session' = [session EXCEPT ![c].ended = FALSE]
  /\ call' = [call EXCEPT ![c].pc = "started"]
  /\ UNCHANGED <<cid, durable, failures, shared>>

startSessionFails(c) ==
  /\ call[c].pc = "starting"
  /\ failures < MaxFailures
  /\ failures' = failures + 1
  /\ Done(c, "failed")
  /\ UNCHANGED <<cid, sessionRequestMap, session, durable, shared>>

Started(c) ==
  /\ call[c].pc = "started"
  /\ startTransaction(c)
  /\ UNCHANGED <<cid, sessionRequestMap, durable, failures, shared>>

\* The method writes in the session it finds under its id: in its transaction,
\* or at once if it has none.
Write(c) ==
  /\ call[c].pc = "method"
  /\ ~call[c].wrote
  /\ sessionStarted(c) /\ ~session[getSession(c)].ended
  /\ call' = [call EXCEPT ![c].wrote = TRUE]
  /\ IF InTransaction(c)
     THEN session' = [session EXCEPT ![getSession(c)].writes = @ \cup {c}] /\ UNCHANGED durable
     ELSE durable' = durable \cup {c} /\ UNCHANGED session
  /\ UNCHANGED <<cid, sessionRequestMap, failures, shared>>

\* Mutant: whoever started the session, it is not ended after a failure.
Finally_OnSuccess(c, result, sessions) ==
  IF call[c].own /\ sessionStarted(c) /\ result = "ok"
  THEN /\ session' = [sessions EXCEPT ![getSession(c)] = NoSession]
       /\ call' = [call EXCEPT ![c].pc = "ending", ![c].result = result]
  ELSE /\ session' = sessions
       /\ Done(c, result)

\* The finally block of call c, which found the sessions so.  Whoever started a
\* session ends the one it finds, aborting its transaction, and fails if there
\* is none.
Finally(c, result, sessions) ==
  IF call[c].own /\ sessionStarted(c)
  THEN /\ session' = [sessions EXCEPT ![getSession(c)] = NoSession]
       /\ call' = [call EXCEPT ![c].pc = "ending", ![c].result = result]
  ELSE /\ session' = sessions
       /\ Done(c, IF call[c].own THEN "failed" ELSE result)

\* The method returned: its transaction is committed.  Without one that throws,
\* and so does aborting it then.
commitTransaction(c) ==
  /\ call[c].pc = "method"
  /\ IF InTransaction(c)
     THEN /\ call' = [call EXCEPT ![c].pc = "committing", ![c].session = getSession(c)]
          /\ UNCHANGED session
     ELSE Finally(c, "failed", session)
  /\ UNCHANGED <<cid, sessionRequestMap, durable, failures, shared>>

\* The method threw.
abortTransaction(c) ==
  /\ call[c].pc = "method"
  /\ IF InTransaction(c)
     THEN /\ call' = [call EXCEPT ![c].pc = "aborting", ![c].session = getSession(c)]
          /\ UNCHANGED session
     ELSE Finally(c, "failed", session)
  /\ UNCHANGED <<cid, sessionRequestMap, durable, failures, shared>>

\* The session of c after its transaction.
Closed(c) == [session EXCEPT ![call[c].session].active = FALSE, ![call[c].session].writes = {}]

\* Mutant: the writes do not reach the database.
Committed_Lost(c) ==
  /\ call[c].pc = "committing"
  /\ Finally(c, "ok", Closed(c))
  /\ UNCHANGED <<cid, sessionRequestMap, durable, failures, shared>>

\* A transaction that another call ended meanwhile cannot be committed.
Committed(c) ==
  /\ call[c].pc = "committing"
  /\ IF session[call[c].session].active
     THEN /\ durable' = durable \cup session[call[c].session].writes
          /\ Finally(c, "ok", Closed(c))
     ELSE Finally(c, "failed", session) /\ UNCHANGED durable
  /\ UNCHANGED <<cid, sessionRequestMap, failures, shared>>

\* MongoDB did not commit; there is nothing to abort any more, which throws.
CommitFails(c) ==
  /\ call[c].pc = "committing"
  /\ failures < MaxFailures
  /\ failures' = failures + 1
  /\ Finally(c, "failed", Closed(c))
  /\ UNCHANGED <<cid, sessionRequestMap, durable, shared>>

Aborted(c) ==
  /\ call[c].pc = "aborting"
  /\ Finally(c, "failed", Closed(c))
  /\ UNCHANGED <<cid, sessionRequestMap, durable, failures, shared>>

\* The session has ended; whatever is in the map for the id by now is deleted.
endSession(c) ==
  /\ call[c].pc = "ending"
  /\ sessionRequestMap' = [sessionRequestMap EXCEPT ![cid[c]] = Null]
  /\ Done(c, call[c].result)
  /\ UNCHANGED <<cid, session, durable, failures, shared>>

Step(c) ==
  \/ startSession(c) \/ startSessionFails(c) \/ Started(c)
  \/ commitTransaction(c) \/ abortTransaction(c)
  \/ Committed(c) \/ CommitFails(c) \/ Aborted(c)
  \/ endSession(c)

Next == \E c \in Calls : Transactional(c) \/ Write(c) \/ Step(c)

Spec == Init /\ [][Next]_vars

\* MongoDB answers and methods end.
Fairness == \A c \in Calls : WF_vars(Step(c))

-----------------------------------------------------------------------------
(* Properties                                                              *)

TypeOK ==
  /\ cid \in [Calls -> Ids]
  /\ sessionRequestMap \in [Ids -> Calls \cup {Null}]
  /\ session \in [Calls -> [active : BOOLEAN, ended : BOOLEAN, writes : SUBSET Calls]]
  /\ call \in [Calls -> [pc : {"new", "starting", "started", "method", "committing", "aborting",
                               "ending", "done"},
                         own : BOOLEAN, session : Calls \cup {Null}, wrote : BOOLEAN,
                         result : {"none", "ok", "failed"}]]
  /\ \A c \in Calls :
       /\ call[c].result # "none" <=> call[c].pc \in {"ending", "done"}
       /\ call[c].pc \in {"committing", "aborting"} => call[c].session # Null
       /\ call[c].pc \in {"starting", "started", "ending"} => call[c].own
  /\ \A i \in Ids : sessionRequestMap[i] # Null => cid[sessionRequestMap[i]] = i
  /\ durable \subseteq Calls
  /\ failures \in 0 .. MaxFailures
  /\ shared \subseteq Calls

\* All or nothing: whoever is told that its method succeeded finds its write in
\* the database, and whoever is told that it failed does not; calls that
\* overlapped one of their own correlation id excepted, whose transactions get
\* mixed up.
AtomicUnlessShared ==
  \A c \in Calls \ shared :
    call[c].pc = "done" => (c \in durable <=> call[c].result = "ok" /\ call[c].wrote)

\* A call that shared its id with no other leaves no session behind, in the map
\* or open.
NoSessionLeaks ==
  \A c \in Calls \ shared :
    call[c].pc = "done" => session[c] = NoSession /\ sessionRequestMap[cid[c]] # c

\* Calls that do not share their correlation id with one under way keep the
\* promises of a transaction, whatever calls of other ids and failures do.
SoundUnlessShared == AtomicUnlessShared /\ NoSessionLeaks

\* Every call ends, also when calls of one id end each other's sessions.
EveryCallEnds == \A c \in Calls : UnderWay(c) ~> call[c].pc = "done"

=============================================================================
