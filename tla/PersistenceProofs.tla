-------------------------- MODULE PersistenceProofs -------------------------
(***************************************************************************)
(* Proofs about persistence, for any number of calls, correlation ids and  *)
(* failures: transactional calls, the setting up of the data sources,      *)
(* the builder of queries (Query) and the reading page by page (Pages).    *)
(*                                                                         *)
(* Transactions: sessions, the map and the database are only touched by    *)
(* calls of the correlation id they belong to (Local), and a call that     *)
(* shares its id with none under way is the only one of it (Alone).  What  *)
(* is then true of the call at each of its awaits is Stage.                *)
(*                                                                         *)
(* Sources: the flag is only set together with the backup of MongoDB, and  *)
(* no Setup opens the connection of redis (SetupInv).                      *)
(*                                                                         *)
(* Queries: as long as no field was filtered twice the query finds what is *)
(* wanted (QueryInv).  Pages: the reader has seen every item up to the     *)
(* page at hand once, and none after it (ReadInv).                         *)
(***************************************************************************)
EXTENDS DataAccess, TLAPS

At(c) == call[c].pc

\* Call d commits or aborts session s.
Holds(d, s) == At(d) \in {"committing", "aborting"} /\ call[d].session = s

\* What belongs to one correlation id stays with it.
OfOneId ==
  /\ \A d, s \in Calls : Holds(d, s) => cid[s] = cid[d]
  /\ \A c, s \in Calls : c \in session[s].writes => cid[s] = cid[c]

\* Nobody has a session that call c started.
Sessionless(c) ==
  /\ session[c] = NoSession
  /\ \A i \in Ids : sessionRequestMap[i] # c
  /\ \A d \in Calls : ~Holds(d, c)

\* No open transaction holds a write of c.
Unwritten(c) == \A s \in Calls : c \notin session[s].writes

\* The session of c is open, and it is only c that uses it.
HasSession(c) ==
  /\ getSession(c) = c
  /\ \A d \in Calls : Holds(d, c) => d = c

\* The method of c runs, or has run, in the transaction of its correlation id.
Inside(c) ==
  /\ sessionStarted(c) /\ session[getSession(c)].active
  /\ c \in session[getSession(c)].writes <=> call[c].wrote
  /\ \A s \in Calls : s # getSession(c) => c \notin session[s].writes
  /\ c \notin durable
  /\ IF call[c].own THEN HasSession(c) ELSE Sessionless(c)

\* Call c has written nothing.
Untouched(c) == Unwritten(c) /\ c \notin durable /\ ~call[c].wrote

\* The write of c is in the database exactly if c is told so.
Answer(c) == c \in durable <=> call[c].result = "ok" /\ call[c].wrote

\* What is true of an unshared call at each of its awaits.
Stage(c) ==
  /\ At(c) = "new" => Sessionless(c) /\ Untouched(c) /\ ~call[c].own
  /\ At(c) = "starting" => Sessionless(c) /\ Untouched(c)
  /\ At(c) = "started" => HasSession(c) /\ Untouched(c) /\ ~session[c].active
  /\ At(c) = "method" => Inside(c)
  /\ At(c) \in {"committing", "aborting"} => Inside(c) /\ call[c].session = getSession(c)
  /\ At(c) = "ending" => HasSession(c) /\ session[c] = NoSession /\ Unwritten(c) /\ Answer(c)
  /\ At(c) = "done" => Sessionless(c) /\ Unwritten(c) /\ Answer(c)

\* No other call of its correlation id is under way.
Alone(c) == UnderWay(c) => \A d \in Calls \ {c} : UnderWay(d) => cid[d] # cid[c]

\* The inductive invariant.
IInv == TypeOK /\ OfOneId /\ \A c \in Calls \ shared : Stage(c) /\ Alone(c)

\* What a step of call d does to the others.
Local(d) ==
  /\ cid' = cid
  /\ \A e \in Calls \ {d} : call'[e] = call[e]
  /\ \A s \in Calls : session'[s] # session[s] => s = d \/ getSession(d) = s \/ Holds(d, s)
  /\ \A e, s \in Calls : e \in session'[s].writes =>
       e \in session[s].writes \/ (e = d /\ s = getSession(d))
  /\ \A i \in Ids : sessionRequestMap'[i] # sessionRequestMap[i] =>
       i = cid[d] /\ sessionRequestMap'[i] \in {d, Null}
  /\ \A e \in durable' :
       e \in durable \/ e = d \/ \E s \in Calls : Holds(d, s) /\ e \in session[s].writes
  /\ durable \subseteq durable'
  /\ shared \subseteq shared'
  /\ \A s \in Calls : Holds(d, s)' => Holds(d, s) \/ s = getSession(d)
  /\ \A e \in Calls : UnderWay(e) /\ cid[e] = cid[d] => UnderWay(d) \/ e \in shared'

\* What is shown of each step of a call.
Keeps(c) ==
  /\ TypeOK'
  /\ Local(c)
  /\ c \notin shared' /\ Stage(c) => Stage(c)'

-----------------------------------------------------------------------------
(* Steps written out                                                       *)

Pcs == {"new", "starting", "started", "method", "committing", "aborting", "ending", "done"}

CallType ==
  [pc : Pcs, own : BOOLEAN, session : Calls \cup {Null}, wrote : BOOLEAN,
   result : {"none", "ok", "failed"}]

SessionType == [active : BOOLEAN, ended : BOOLEAN, writes : SUBSET Calls]

\* Call c goes to p, and the rest of its record is as given.
Moved(c, p, own, s, wrote, result) ==
  /\ call' \in [Calls -> CallType]
  /\ At(c)' = p /\ call'[c].own = own /\ call'[c].session = s
  /\ call'[c].wrote = wrote /\ call'[c].result = result
  /\ \A d \in Calls \ {c} : call'[d] = call[d]

MovedTo(c, p, result) == Moved(c, p, call[c].own, call[c].session, call[c].wrote, result)

\* Of the sessions only s is another one.
Changed(s, sessions, active, ended, writes) ==
  /\ sessions \in [Calls -> SessionType]
  /\ sessions[s].active = active /\ sessions[s].ended = ended /\ sessions[s].writes = writes
  /\ \A t \in Calls \ {s} : sessions[t] = session[t]

\* The change of a call that goes to p, is settled, or takes a session to close.
Goes(c, p) == call' = [call EXCEPT ![c].pc = p]

\* A call goes on.
LEMMA MovePc ==
  ASSUME call \in [Calls -> CallType], NEW c \in Calls,
         NEW p \in Pcs, Goes(c, p)
  PROVE  MovedTo(c, p, call[c].result)
<1> DEFINE y == [call[c] EXCEPT !.pc = p]
<1>1. call[c] \in CallType
  OBVIOUS
<1>2. y \in CallType /\ y.pc = p /\ y.own = call[c].own /\ y.session = call[c].session
        /\ y.wrote = call[c].wrote /\ y.result = call[c].result
  BY <1>1 DEF CallType, Pcs
<1>3. call' = [call EXCEPT ![c] = y]
  BY DEF Goes
<1> HIDE DEF y
<1> QED
  BY <1>2, <1>3 DEF MovedTo, Moved, At

Settled(c, p, r) == call' = [call EXCEPT ![c].pc = p, ![c].result = r]

\* A call gets its result.
LEMMA MoveResult ==
  ASSUME call \in [Calls -> CallType], NEW c \in Calls,
         NEW p \in Pcs, NEW r \in {"ok", "failed"},
         Settled(c, p, r)
  PROVE  MovedTo(c, p, r)
<1> DEFINE y == [call[c] EXCEPT !.pc = p, !.result = r]
<1>1. call[c] \in CallType
  OBVIOUS
<1>2. y \in CallType /\ y.pc = p /\ y.own = call[c].own /\ y.session = call[c].session
        /\ y.wrote = call[c].wrote /\ y.result = r
  BY <1>1 DEF CallType, Pcs
<1>3. call' = [call EXCEPT ![c] = y]
  BY DEF Settled
<1> HIDE DEF y
<1> QED
  BY <1>2, <1>3 DEF MovedTo, Moved, At

\* A call starts a session.
LEMMA MoveOwn ==
  ASSUME call \in [Calls -> CallType], NEW c \in Calls,
         call' = [call EXCEPT ![c].pc = "starting", ![c].own = TRUE]
  PROVE  Moved(c, "starting", TRUE, call[c].session, call[c].wrote, call[c].result)
<1> DEFINE y == [call[c] EXCEPT !.pc = "starting", !.own = TRUE]
<1>1. call[c] \in CallType
  OBVIOUS
<1>2. y \in CallType /\ y.pc = "starting" /\ y.own = TRUE /\ y.session = call[c].session
        /\ y.wrote = call[c].wrote /\ y.result = call[c].result
  BY <1>1 DEF CallType, Pcs
<1>3. call' = [call EXCEPT ![c] = y]
  OBVIOUS
<1> HIDE DEF y
<1> QED
  BY <1>2, <1>3 DEF MovedTo, Moved, At

\* A call writes.
LEMMA MoveWrote ==
  ASSUME call \in [Calls -> CallType], NEW c \in Calls,
         call' = [call EXCEPT ![c].wrote = TRUE]
  PROVE  Moved(c, At(c), call[c].own, call[c].session, TRUE, call[c].result)
<1> DEFINE y == [call[c] EXCEPT !.wrote = TRUE]
<1>1. call[c] \in CallType
  OBVIOUS
<1>2. y \in CallType /\ y.pc = call[c].pc /\ y.own = call[c].own /\ y.session = call[c].session
        /\ y.wrote = TRUE /\ y.result = call[c].result
  BY <1>1 DEF CallType, Pcs
<1>3. call' = [call EXCEPT ![c] = y]
  OBVIOUS
<1> HIDE DEF y
<1> QED
  BY <1>2, <1>3 DEF MovedTo, Moved, At

Takes(c, p, s) == call' = [call EXCEPT ![c].pc = p, ![c].session = s]

\* A call commits or aborts a session.
LEMMA MoveSession ==
  ASSUME call \in [Calls -> CallType], NEW c \in Calls,
         NEW p \in Pcs, NEW s \in Calls \cup {Null},
         Takes(c, p, s)
  PROVE  Moved(c, p, call[c].own, s, call[c].wrote, call[c].result)
<1> DEFINE y == [call[c] EXCEPT !.pc = p, !.session = s]
<1>1. call[c] \in CallType
  OBVIOUS
<1>2. y \in CallType /\ y.pc = p /\ y.own = call[c].own /\ y.session = s
        /\ y.wrote = call[c].wrote /\ y.result = call[c].result
  BY <1>1 DEF CallType, Pcs
<1>3. call' = [call EXCEPT ![c] = y]
  BY DEF Takes
<1> HIDE DEF y
<1> QED
  BY <1>2, <1>3 DEF MovedTo, Moved, At

\* A session's transaction is started.
LEMMA Activate ==
  ASSUME session \in [Calls -> SessionType], NEW s \in Calls
  PROVE  Changed(s, [session EXCEPT ![s].active = TRUE], TRUE, session[s].ended,
                 session[s].writes)
<1> DEFINE y == [session[s] EXCEPT !.active = TRUE]
<1>1. session[s] \in SessionType
  OBVIOUS
<1>2. y \in SessionType /\ y.active = TRUE /\ y.ended = session[s].ended
        /\ y.writes = session[s].writes
  BY <1>1 DEF SessionType
<1>3. [session EXCEPT ![s].active = TRUE] = [session EXCEPT ![s] = y]
  OBVIOUS
<1> HIDE DEF y
<1> QED
  BY <1>2, <1>3 DEF Changed

\* A session is started.
LEMMA Open ==
  ASSUME session \in [Calls -> SessionType], NEW s \in Calls
  PROVE  Changed(s, [session EXCEPT ![s].ended = FALSE], session[s].active, FALSE,
                 session[s].writes)
<1> DEFINE y == [session[s] EXCEPT !.ended = FALSE]
<1>1. session[s] \in SessionType
  OBVIOUS
<1>2. y \in SessionType /\ y.active = session[s].active /\ y.ended = FALSE
        /\ y.writes = session[s].writes
  BY <1>1 DEF SessionType
<1>3. [session EXCEPT ![s].ended = FALSE] = [session EXCEPT ![s] = y]
  OBVIOUS
<1> HIDE DEF y
<1> QED
  BY <1>2, <1>3 DEF Changed

\* A call writes in a session.
LEMMA AddWrite ==
  ASSUME session \in [Calls -> SessionType], NEW s \in Calls, NEW c \in Calls
  PROVE  Changed(s, [session EXCEPT ![s].writes = @ \cup {c}], session[s].active,
                 session[s].ended, session[s].writes \cup {c})
<1> DEFINE y == [session[s] EXCEPT !.writes = @ \cup {c}]
<1>1. session[s] \in SessionType
  OBVIOUS
<1>2. y \in SessionType /\ y.active = session[s].active /\ y.ended = session[s].ended
        /\ y.writes = session[s].writes \cup {c}
  BY <1>1 DEF SessionType
<1>3. [session EXCEPT ![s].writes = @ \cup {c}] = [session EXCEPT ![s] = y]
  OBVIOUS
<1> HIDE DEF y
<1> QED
  BY <1>2, <1>3 DEF Changed

\* A session's transaction ends.
LEMMA Close ==
  ASSUME session \in [Calls -> SessionType], NEW s \in Calls
  PROVE  Changed(s, [session EXCEPT ![s].active = FALSE, ![s].writes = {}], FALSE,
                 session[s].ended, {})
<1> DEFINE y == [session[s] EXCEPT !.active = FALSE, !.writes = {}]
<1>1. session[s] \in SessionType
  OBVIOUS
<1>2. y \in SessionType /\ y.active = FALSE /\ y.ended = session[s].ended
        /\ y.writes = {}
  BY <1>1 DEF SessionType
<1>3. [session EXCEPT ![s].active = FALSE, ![s].writes = {}] = [session EXCEPT ![s] = y]
  OBVIOUS
<1> HIDE DEF y
<1> QED
  BY <1>2, <1>3 DEF Changed

\* A session ends.
LEMMA End ==
  ASSUME NEW sessions \in [Calls -> SessionType], NEW s \in Calls
  PROVE  /\ [sessions EXCEPT ![s] = NoSession] \in [Calls -> SessionType]
         /\ [sessions EXCEPT ![s] = NoSession][s] = NoSession
         /\ \A t \in Calls \ {s} : [sessions EXCEPT ![s] = NoSession][t] = sessions[t]
<1>1. NoSession \in SessionType
  BY DEF NoSession, SessionType
<1> QED
  BY <1>1

-----------------------------------------------------------------------------
(* Each step keeps the types, is local, and leads the call to its next stage *)

\* What the types say of a call and its session.
LEMMA TypeFacts ==
  ASSUME TypeOK, NEW c \in Calls
  PROVE  /\ call \in [Calls -> CallType] /\ session \in [Calls -> SessionType]
         /\ cid[c] \in Ids /\ getSession(c) \in Calls \cup {Null}
         /\ sessionStarted(c) => getSession(c) \in Calls /\ cid[getSession(c)] = cid[c]
         /\ At(c) \in {"committing", "aborting"} => call[c].session \in Calls
         /\ At(c) \in {"starting", "started", "ending"} => call[c].own
         /\ At(c) \notin {"ending", "done"} => call[c].result = "none"
         /\ At(c) \in {"ending", "done"} => call[c].result \in {"ok", "failed"}
<1>1. call \in [Calls -> CallType] /\ session \in [Calls -> SessionType]
  BY DEF TypeOK, CallType, SessionType, Pcs
<1>2. cid[c] \in Ids /\ getSession(c) \in Calls \cup {Null}
  BY DEF TypeOK, getSession
<1>3. sessionStarted(c) => getSession(c) \in Calls /\ cid[getSession(c)] = cid[c]
  BY <1>2 DEF TypeOK, getSession, sessionStarted
<1>4. call[c].session \in Calls \cup {Null} /\ call[c].result \in {"none", "ok", "failed"}
  BY <1>1 DEF CallType
<1>5. /\ At(c) \in {"committing", "aborting"} => call[c].session # Null
      /\ At(c) \in {"starting", "started", "ending"} => call[c].own
      /\ call[c].result # "none" <=> At(c) \in {"ending", "done"}
  BY DEF TypeOK, At
<1> QED
  BY <1>1, <1>2, <1>3, <1>4, <1>5

\* What a step has to respect to keep the types.
LEMMA TypeKept ==
  ASSUME TypeOK, NEW c \in Calls, NEW p, NEW own, NEW s, NEW wrote, NEW result,
         Moved(c, p, own, s, wrote, result),
         result # "none" <=> p \in {"ending", "done"},
         p \in {"committing", "aborting"} => s # Null,
         p \in {"starting", "started", "ending"} => own,
         cid' = cid, session' \in [Calls -> SessionType],
         sessionRequestMap' \in
           {sessionRequestMap, [sessionRequestMap EXCEPT ![cid[c]] = c],
            [sessionRequestMap EXCEPT ![cid[c]] = Null]},
         durable' \subseteq Calls, failures' \in 0 .. MaxFailures, shared' \subseteq Calls
  PROVE  TypeOK'
<1>1. call' \in [Calls -> [pc : {"new", "starting", "started", "method", "committing", "aborting",
                                 "ending", "done"},
                           own : BOOLEAN, session : Calls \cup {Null}, wrote : BOOLEAN,
                           result : {"none", "ok", "failed"}]]
  BY DEF Moved, CallType, Pcs
<1>2. ASSUME NEW d \in Calls
      PROVE  /\ call'[d].result # "none" <=> call'[d].pc \in {"ending", "done"}
             /\ call'[d].pc \in {"committing", "aborting"} => call'[d].session # Null
             /\ call'[d].pc \in {"starting", "started", "ending"} => call'[d].own
  <2>1. CASE d = c
    BY <2>1 DEF Moved, At
  <2>2. CASE d # c
    BY <2>2 DEF Moved, TypeOK
  <2> QED
    BY <2>1, <2>2
<1>3. /\ sessionRequestMap' \in [Ids -> Calls \cup {Null}]
      /\ \A i \in Ids : sessionRequestMap'[i] # Null => cid[sessionRequestMap'[i]] = i
  <2>1. /\ sessionRequestMap \in [Ids -> Calls \cup {Null}] /\ cid[c] \in Ids
        /\ \A i \in Ids : sessionRequestMap[i] # Null => cid[sessionRequestMap[i]] = i
    BY DEF TypeOK
  <2>2. ASSUME NEW x \in {c, Null},
               sessionRequestMap' = [sessionRequestMap EXCEPT ![cid[c]] = x]
        PROVE  /\ sessionRequestMap' \in [Ids -> Calls \cup {Null}]
               /\ \A i \in Ids : sessionRequestMap'[i] # Null => cid[sessionRequestMap'[i]] = i
    BY <2>1, <2>2
  <2> QED
    BY <2>1, <2>2
<1>4. cid' \in [Calls -> Ids]
  BY DEF TypeOK
<1> QED
  BY <1>1, <1>2, <1>3, <1>4 DEF TypeOK, SessionType

\* The end of a call that had no session of its own, or never got one.
LEMMA StartTransactionKeeps ==
  ASSUME TypeOK, NEW c \in Calls, startTransaction(c), At(c) \in {"new", "started"},
         UNCHANGED <<cid, sessionRequestMap, durable, failures>>,
         shared \subseteq shared', shared' \subseteq Calls,
         \A e \in Calls : UnderWay(e) /\ cid[e] = cid[c] => UnderWay(c) \/ e \in shared'
  PROVE  Keeps(c)
<1> USE ConstantsAssumption
<1>0. durable' \subseteq Calls /\ failures' \in 0 .. MaxFailures
  <2>1. durable \subseteq Calls /\ failures \in 0 .. MaxFailures
    BY DEF TypeOK
  <2> QED
    BY <2>1
<1>00. call \in [Calls -> CallType] /\ session \in [Calls -> SessionType]
       /\ call[c].result = "none"
  BY TypeFacts
<1>1. CASE sessionStarted(c) /\ ~InTransaction(c)
  <2>1. getSession(c) \in Calls /\ cid[getSession(c)] = cid[c]
    BY <1>1, TypeFacts
  <2>2. MovedTo(c, "method", "none")
    <3>1. Goes(c, "method") /\ "method" \in Pcs
      BY <1>1 DEF startTransaction, Goes, Pcs
    <3> QED
      BY <1>00, <3>1, MovePc
  <2>3. Changed(getSession(c), session', TRUE, session[getSession(c)].ended,
                session[getSession(c)].writes)
    <3>1. session' = [session EXCEPT ![getSession(c)].active = TRUE]
      BY <1>1 DEF startTransaction
    <3> QED
      BY <1>00, <2>1, <3>1, Activate
  <2>4. TypeOK'
    BY <1>0, <2>2, <2>3, TypeKept DEF MovedTo, Changed
  <2>5. Local(c)
    BY <2>1, <2>2, <2>3 DEF Local, MovedTo, Moved, Changed, Holds, At
  <2>6. ASSUME Stage(c)
        PROVE  Stage(c)'
    <3>1. Inside(c)'
      BY <1>1, <2>1, <2>2, <2>3, <2>6, TypeFacts
         DEF Stage, Inside, sessionStarted, InTransaction, getSession, MovedTo, Moved,
             Changed,
             Untouched, Unwritten, HasSession, Sessionless, Holds, At
    <3> QED
      BY <2>2, <3>1 DEF Stage, MovedTo, Moved
  <2> QED
    BY <2>4, <2>5, <2>6 DEF Keeps
<1>2. CASE ~(sessionStarted(c) /\ ~InTransaction(c))
  <2>1. session' = session /\ MovedTo(c, "done", "failed")
    <3>1. /\ Settled(c, "done", "failed")
          /\ session' = session /\ "done" \in Pcs
      BY <1>2 DEF startTransaction, Done, Settled, Pcs
    <3> QED
      BY <1>00, <3>1, MoveResult
  <2>2. session' \in [Calls -> SessionType]
    BY <2>1, TypeFacts
  <2>3. TypeOK'
    BY <1>0, <2>1, <2>2, TypeKept DEF MovedTo
  <2>4. Local(c)
    BY <2>1 DEF Local, MovedTo, Moved, Holds, At
  <2>5. ASSUME Stage(c)
        PROVE  Stage(c)'
    <3>1. At(c) = "new"
      BY <1>2, <2>5 DEF Stage, HasSession, InTransaction, sessionStarted
    <3>2. Sessionless(c)' /\ Unwritten(c)'
      BY <2>1, <2>5, <3>1
         DEF Stage, Sessionless, Untouched, Unwritten, Holds, At, MovedTo, Moved
    <3>3. Answer(c)'
      BY <2>1, <2>5, <3>1 DEF Stage, Untouched, Answer, MovedTo, Moved
    <3> QED
      BY <2>1, <3>2, <3>3 DEF Stage, MovedTo, Moved
  <2> QED
    BY <2>3, <2>4, <2>5 DEF Keeps
<1> QED
  BY <1>1, <1>2

\* What the finally block finds of the sessions: those before it, but for that of
\* a transaction that ended.
Finds(c, sessions) ==
  /\ sessions \in [Calls -> SessionType]
  /\ \A s \in Calls : sessions[s] # session[s] => Holds(c, s)
  /\ \A s \in Calls : sessions[s].writes \subseteq session[s].writes

\* Closing a transaction leaves nothing in its session, and touches no other.
LEMMA ClosedFound ==
  ASSUME TypeOK, NEW c \in Calls, At(c) \in {"committing", "aborting"}
  PROVE  /\ Finds(c, Closed(c)) /\ Finds(c, session)
         /\ Closed(c)[call[c].session].writes = {}
<1>1. session \in [Calls -> SessionType] /\ call[c].session \in Calls
  BY TypeFacts
<1>2. Changed(call[c].session, Closed(c), FALSE, session[call[c].session].ended, {})
  BY <1>1, Close DEF Closed
<1> QED
  BY <1>1, <1>2 DEF Finds, Changed, Holds

\* The finally block: whatever became of the transaction, the write of the call
\* is in no session afterwards, and the call has none any more.
LEMMA FinallyKeeps ==
  ASSUME TypeOK, NEW c \in Calls, NEW result \in {"ok", "failed"}, NEW sessions,
         At(c) \in {"method", "committing", "aborting"},
         Finds(c, sessions), Finally(c, result, sessions),
         UNCHANGED <<cid, sessionRequestMap, shared>>,
         durable' \subseteq Calls, failures' \in 0 .. MaxFailures,
         durable \subseteq durable',
         \A e \in durable' :
           e \in durable \/ \E s \in Calls : Holds(c, s) /\ e \in session[s].writes,
         Stage(c) => /\ c \in durable' <=> result = "ok" /\ call[c].wrote
                     /\ \A s \in Calls : c \notin sessions[s].writes
  PROVE  Keeps(c)
<1> USE ConstantsAssumption
<1>0. call \in [Calls -> CallType] /\ session \in [Calls -> SessionType]
      /\ shared' \subseteq Calls
  <2>1. shared \subseteq Calls
    BY DEF TypeOK
  <2> QED
    BY <2>1, TypeFacts
<1>00. UnderWay(c)
  BY DEF UnderWay, At
<1>1. CASE call[c].own /\ sessionStarted(c)
  <2>1. getSession(c) \in Calls /\ cid[getSession(c)] = cid[c]
    BY <1>1, TypeFacts
  <2>2. MovedTo(c, "ending", result)
    <3>1. Settled(c, "ending", result) /\ "ending" \in Pcs
      BY <1>1 DEF Finally, Settled, Pcs
    <3> QED
      BY <1>0, <3>1, MoveResult
  <2>3. /\ session' \in [Calls -> SessionType]
        /\ session'[getSession(c)] = NoSession
        /\ \A s \in Calls \ {getSession(c)} : session'[s] = sessions[s]
    BY <1>1, <2>1, End DEF Finally, Finds
  <2>4. TypeOK'
    BY <1>0, <1>1, <2>2, <2>3, TypeKept DEF MovedTo
  <2>5. Local(c)
    BY <1>00, <2>1, <2>2, <2>3 DEF Local, MovedTo, Moved, Finds, Holds, At, NoSession
  <2>6. ASSUME Stage(c)
        PROVE  Stage(c)'
    <3>1. HasSession(c)
      BY <1>1, <2>6 DEF Stage, Inside
    <3>2. HasSession(c)' /\ session'[c] = NoSession
      BY <2>2, <2>3, <3>1 DEF HasSession, getSession, MovedTo, Moved, Holds, At
    <3>3. Unwritten(c)'
      BY <2>3, <2>6 DEF Unwritten, NoSession
    <3>4. Answer(c)'
      BY <2>2, <2>6 DEF Answer, MovedTo, Moved
    <3> QED
      BY <2>2, <3>2, <3>3, <3>4 DEF Stage, MovedTo, Moved
  <2> QED
    BY <2>4, <2>5, <2>6 DEF Keeps
<1>2. CASE ~(call[c].own /\ sessionStarted(c))
  <2> DEFINE r == IF call[c].own THEN "failed" ELSE result
  <2>1. session' = sessions /\ MovedTo(c, "done", r)
    <3>1. /\ Settled(c, "done", r)
          /\ session' = sessions /\ "done" \in Pcs /\ r \in {"ok", "failed"}
      BY <1>2 DEF Finally, Done, Settled, Pcs
    <3> HIDE DEF r
    <3> QED
      BY <1>0, <3>1, MoveResult
  <2>2. r \in {"ok", "failed"} /\ session' \in [Calls -> SessionType]
    BY <2>1 DEF Finds
  <2>3. TypeOK'
    <3> HIDE DEF r
    <3> QED
      BY <1>0, <2>1, <2>2, TypeKept DEF MovedTo
  <2>4. Local(c)
    <3> HIDE DEF r
    <3> QED
      BY <1>00, <2>1 DEF Local, MovedTo, Moved, Finds, Holds, At
  <2>5. ASSUME Stage(c)
        PROVE  Stage(c)'
    <3>1. ~call[c].own /\ Sessionless(c)
      BY <1>2, <2>5 DEF Stage, Inside
    <3>2. Sessionless(c)'
      BY <2>1, <3>1 DEF Sessionless, MovedTo, Moved, Finds, Holds, At
    <3>3. Unwritten(c)'
      BY <2>1, <2>5 DEF Unwritten
    <3>4. Answer(c)'
      BY <2>1, <2>5, <3>1 DEF Answer, MovedTo, Moved
    <3> QED
      BY <2>1, <3>2, <3>3, <3>4 DEF Stage, MovedTo, Moved
  <2> QED
    BY <2>3, <2>4, <2>5 DEF Keeps
<1> QED
  BY <1>1, <1>2

\* Transactional: it finds a session under its id, or asks for one.
LEMMA TransactionalKeeps ==
  ASSUME TypeOK, NEW c \in Calls, Transactional(c)
  PROVE  /\ Keeps(c)
         /\ c \notin shared' => \A d \in Calls : UnderWay(d) => cid[d] # cid[c]
<1> USE ConstantsAssumption
<1>1. /\ At(c) = "new"
      /\ UNCHANGED <<cid, sessionRequestMap, durable, failures>>
  BY DEF Transactional, At
<1>2. /\ shared \subseteq shared' /\ shared' \subseteq Calls
      /\ \A d \in Calls : UnderWay(d) /\ cid[d] = cid[c] => c \in shared' /\ d \in shared'
  <2>1. shared \subseteq Calls
    BY DEF TypeOK
  <2> QED
    BY <2>1 DEF Transactional
<1>3. CASE sessionStarted(c)
  <2>1. startTransaction(c)
    BY <1>3 DEF Transactional
  <2> QED
    BY <1>1, <1>2, <2>1, StartTransactionKeeps
<1>4. CASE ~sessionStarted(c)
  <2>1. /\ session' = session
        /\ call' = [call EXCEPT ![c].pc = "starting", ![c].own = TRUE]
    BY <1>4 DEF Transactional
  <2>2. /\ call \in [Calls -> CallType] /\ session \in [Calls -> SessionType]
        /\ call[c].result = "none"
        /\ durable \subseteq Calls /\ failures \in 0 .. MaxFailures
    BY <1>1, TypeFacts DEF TypeOK
  <2>3. Moved(c, "starting", TRUE, call[c].session, call[c].wrote, "none")
    BY <2>1, <2>2, MoveOwn
  <2>4. session' \in [Calls -> SessionType] /\ durable' \subseteq Calls
        /\ failures' \in 0 .. MaxFailures
    BY <1>1, <2>1, <2>2
  <2>5. TypeOK'
    BY <1>1, <1>2, <2>3, <2>4, TypeKept
  <2>6. Local(c)
    BY <1>1, <1>2, <2>1, <2>3 DEF Local, Moved, Holds, At
  <2>7. ASSUME Stage(c)
        PROVE  Stage(c)'
    <3>1. Sessionless(c)' /\ Untouched(c)'
      BY <1>1, <2>1, <2>3, <2>7
      DEF Stage, Sessionless, Untouched, Unwritten, Moved, Holds, At
    <3> QED
      BY <2>3, <3>1 DEF Stage, Moved
  <2> QED
    BY <1>2, <2>5, <2>6, <2>7 DEF Keeps
<1> QED
  BY <1>3, <1>4

\* startSession: no other call has the session that is now found under the id.
LEMMA StartSessionKeeps ==
  ASSUME TypeOK, NEW c \in Calls, startSession(c)
  PROVE  Keeps(c)
<1> USE ConstantsAssumption
<1>1. /\ At(c) = "starting" /\ call[c].own /\ call[c].result = "none"
      /\ sessionRequestMap' = [sessionRequestMap EXCEPT ![cid[c]] = c]
      /\ UNCHANGED <<cid, durable, failures, shared>>
  BY TypeFacts DEF startSession, At
<1>2. /\ call \in [Calls -> CallType] /\ session \in [Calls -> SessionType] /\ cid[c] \in Ids
      /\ sessionRequestMap \in [Ids -> Calls \cup {Null}]
      /\ durable \subseteq Calls /\ failures \in 0 .. MaxFailures /\ shared \subseteq Calls
  BY TypeFacts DEF TypeOK
<1>3. MovedTo(c, "started", "none")
  <2>1. Goes(c, "started") /\ "started" \in Pcs
    BY DEF startSession, Goes, Pcs
  <2> QED
    BY <1>1, <1>2, <2>1, MovePc
<1>4. Changed(c, session', session[c].active, FALSE, session[c].writes)
  <2>1. session' = [session EXCEPT ![c].ended = FALSE]
    BY DEF startSession
  <2> QED
    BY <1>2, <2>1, Open
<1>5. session' \in [Calls -> SessionType] /\ durable' \subseteq Calls
      /\ failures' \in 0 .. MaxFailures /\ shared' \subseteq Calls
  BY <1>1, <1>2, <1>4 DEF Changed
<1>6. TypeOK'
  BY <1>1, <1>3, <1>5, TypeKept DEF MovedTo
<1>7. Local(c)
  BY <1>1, <1>2, <1>3, <1>4 DEF Local, MovedTo, Moved, Changed, Holds, At, UnderWay
<1>8. ASSUME Stage(c)
      PROVE  Stage(c)'
  <2>1. Sessionless(c) /\ Untouched(c)
    BY <1>1, <1>8 DEF Stage
  <2>2. HasSession(c)'
    BY <1>1, <1>2, <1>3, <2>1
    DEF HasSession, Sessionless, getSession, MovedTo, Moved, Holds, At
  <2>3. Untouched(c)' /\ ~session'[c].active
    BY <1>1, <1>3, <1>4, <2>1
       DEF Untouched, Unwritten, Sessionless, NoSession, MovedTo, Moved, Changed
  <2> QED
    BY <1>3, <2>2, <2>3 DEF Stage, MovedTo, Moved
<1> QED
  BY <1>6, <1>7, <1>8 DEF Keeps

\* startSessionFails: nothing was started, and nothing written.
LEMMA StartSessionFailsKeeps ==
  ASSUME TypeOK, NEW c \in Calls, startSessionFails(c)
  PROVE  Keeps(c)
<1> USE ConstantsAssumption
<1>1. /\ At(c) = "starting" /\ failures < MaxFailures /\ failures' = failures + 1
      /\ UNCHANGED <<cid, sessionRequestMap, session, durable, shared>>
      /\ Settled(c, "done", "failed") /\ "done" \in Pcs
  BY DEF startSessionFails, Done, Settled, At, Pcs
<1>2. /\ call \in [Calls -> CallType] /\ session \in [Calls -> SessionType]
      /\ durable \subseteq Calls /\ failures \in 0 .. MaxFailures /\ shared \subseteq Calls
  BY TypeFacts DEF TypeOK
<1>3. MovedTo(c, "done", "failed")
  BY <1>1, <1>2, MoveResult
<1>4. session' \in [Calls -> SessionType] /\ durable' \subseteq Calls
      /\ failures' \in 0 .. MaxFailures /\ shared' \subseteq Calls
  BY <1>1, <1>2
<1>5. TypeOK'
  BY <1>1, <1>3, <1>4, TypeKept DEF MovedTo
<1>6. Local(c)
  BY <1>1, <1>3 DEF Local, MovedTo, Moved, Holds, At, UnderWay
<1>7. ASSUME Stage(c)
      PROVE  Stage(c)'
  <2>1. Sessionless(c) /\ Untouched(c)
    BY <1>1, <1>7 DEF Stage
  <2>2. Sessionless(c)' /\ Unwritten(c)' /\ Answer(c)'
    BY <1>1, <1>3, <2>1
       DEF Sessionless, Untouched, Unwritten, Answer, MovedTo, Moved, Holds, At
  <2> QED
    BY <1>3, <2>2 DEF Stage, MovedTo, Moved
<1> QED
  BY <1>5, <1>6, <1>7 DEF Keeps

\* Started: the session that was started has no transaction yet.
LEMMA StartedKeeps ==
  ASSUME TypeOK, NEW c \in Calls, Started(c)
  PROVE  Keeps(c)
<1>1. /\ startTransaction(c) /\ At(c) = "started"
      /\ UNCHANGED <<cid, sessionRequestMap, durable, failures, shared>>
  BY DEF Started, At
<1>2. shared \subseteq shared' /\ shared' \subseteq Calls /\ UnderWay(c)
  <2>1. shared \subseteq Calls
    BY DEF TypeOK
  <2> QED
    BY <1>1, <2>1 DEF UnderWay, At
<1> QED
  BY <1>1, <1>2, StartTransactionKeeps

\* Write: in the transaction of the session that is found.
LEMMA WriteKeeps ==
  ASSUME TypeOK, NEW c \in Calls, Write(c)
  PROVE  Keeps(c)
<1> USE ConstantsAssumption
<1> DEFINE s == getSession(c)
<1>1. /\ At(c) = "method" /\ ~call[c].wrote /\ sessionStarted(c) /\ call[c].result = "none"
      /\ UNCHANGED <<cid, sessionRequestMap, failures, shared>>
      /\ call' = [call EXCEPT ![c].wrote = TRUE]
  BY TypeFacts DEF Write, At
<1>2. /\ call \in [Calls -> CallType] /\ session \in [Calls -> SessionType]
      /\ s \in Calls /\ cid[s] = cid[c]
      /\ durable \subseteq Calls /\ failures \in 0 .. MaxFailures /\ shared \subseteq Calls
  BY <1>1, TypeFacts DEF TypeOK
<1>3. Moved(c, "method", call[c].own, call[c].session, TRUE, "none")
  BY <1>1, <1>2, MoveWrote
<1>4. CASE InTransaction(c)
  <2>1. durable' = durable /\ session' = [session EXCEPT ![s].writes = @ \cup {c}]
    BY <1>4 DEF Write
  <2>2. Changed(s, session', session[s].active, session[s].ended, session[s].writes \cup {c})
    <3> HIDE DEF s
    <3> QED
      BY <1>2, <2>1, AddWrite
  <2>3. session' \in [Calls -> SessionType] /\ durable' \subseteq Calls
        /\ failures' \in 0 .. MaxFailures /\ shared' \subseteq Calls
    BY <1>1, <1>2, <2>1, <2>2 DEF Changed
  <2>4. TypeOK'
    BY <1>1, <1>3, <2>3, TypeKept
  <2>5. Local(c)
    BY <1>1, <1>2, <1>3, <2>1, <2>2 DEF Local, Moved, Changed, Holds, At, UnderWay
  <2>6. ASSUME Stage(c)
        PROVE  Stage(c)'
    <3>1. Inside(c)
      BY <1>1, <2>6 DEF Stage
    <3>2. /\ sessionStarted(c)' /\ getSession(c)' = s
          /\ call'[c].own = call[c].own /\ \A d \in Calls : Holds(d, c)' <=> Holds(d, c)
      BY <1>1, <1>3 DEF sessionStarted, getSession, Moved, Holds, At
    <3>3. ASSUME call[c].own
          PROVE  HasSession(c)'
      BY <3>1, <3>2, <3>3 DEF Inside, HasSession
    <3>4. ASSUME ~call[c].own
          PROVE  Sessionless(c)'
      <4>1. Sessionless(c) /\ s # c
        BY <1>2, <3>1, <3>4 DEF Inside, Sessionless, getSession, TypeOK
      <4> QED
        BY <1>1, <2>2, <3>2, <4>1 DEF Sessionless, Changed
    <3>5. Inside(c)'
      BY <1>3, <2>1, <2>2, <3>1, <3>2, <3>3, <3>4 DEF Inside, Moved, Changed
    <3> QED
      BY <1>3, <3>5 DEF Stage, Moved
  <2> QED
    BY <2>4, <2>5, <2>6 DEF Keeps
<1>5. CASE ~InTransaction(c)
  <2>1. durable' = durable \cup {c} /\ session' = session
    BY <1>5 DEF Write
  <2>2. session' \in [Calls -> SessionType] /\ durable' \subseteq Calls
        /\ failures' \in 0 .. MaxFailures /\ shared' \subseteq Calls
    BY <1>1, <1>2, <2>1
  <2>3. TypeOK'
    BY <1>1, <1>3, <2>2, TypeKept
  <2>4. Local(c)
    BY <1>1, <1>2, <1>3, <2>1 DEF Local, Moved, Holds, At, UnderWay
  <2>5. ~Stage(c)
    BY <1>1, <1>5 DEF Stage, Inside, InTransaction
  <2> QED
    BY <2>3, <2>4, <2>5 DEF Keeps
<1> QED
  BY <1>4, <1>5

\* commitTransaction and abortTransaction: in a transaction, it is that of the
\* session that is found.
LEMMA EndTransactionKeeps ==
  ASSUME TypeOK, NEW c \in Calls, commitTransaction(c) \/ abortTransaction(c)
  PROVE  Keeps(c)
<1> USE ConstantsAssumption
<1>1. At(c) = "method" /\ UNCHANGED <<cid, sessionRequestMap, durable, failures, shared>>
  BY DEF commitTransaction, abortTransaction, At
<1>2. /\ call \in [Calls -> CallType] /\ session \in [Calls -> SessionType]
      /\ call[c].result = "none"
      /\ durable \subseteq Calls /\ failures \in 0 .. MaxFailures /\ shared \subseteq Calls
  BY <1>1, TypeFacts DEF TypeOK
<1>3. durable' \subseteq Calls /\ failures' \in 0 .. MaxFailures /\ shared' \subseteq Calls
  BY <1>1, <1>2
<1>4. CASE InTransaction(c)
  <2>1. getSession(c) \in Calls /\ cid[getSession(c)] = cid[c] /\ getSession(c) # Null
    BY <1>4, TypeFacts DEF InTransaction, sessionStarted
  <2>2. PICK p \in {"committing", "aborting"} :
          Takes(c, p, getSession(c)) /\ session' = session
    BY <1>4 DEF commitTransaction, abortTransaction, Takes
  <2>3. p \in Pcs
    BY DEF Pcs
  <2>4. Moved(c, p, call[c].own, getSession(c), call[c].wrote, "none")
    BY <1>2, <2>1, <2>2, <2>3, MoveSession
  <2>5. session' \in [Calls -> SessionType]
    BY <1>2, <2>2
  <2>6. TypeOK'
    BY <1>1, <1>3, <2>1, <2>4, <2>5, TypeKept
  <2>7. Local(c)
    BY <1>1, <2>1, <2>2, <2>4 DEF Local, Moved, Holds, At, UnderWay
  <2>8. ASSUME Stage(c)
        PROVE  Stage(c)'
    <3>1. Inside(c)
      BY <1>1, <2>8 DEF Stage
    <3>2. IF call'[c].own THEN HasSession(c)' ELSE Sessionless(c)'
      BY <1>1, <2>1, <2>2, <2>4, <3>1, TypeFacts
         DEF Inside, HasSession, Sessionless, getSession, Moved, Holds, At, TypeOK
    <3>3. Inside(c)' /\ getSession(c)' = getSession(c)
      BY <1>1, <2>2, <2>4, <3>1, <3>2 DEF Inside, sessionStarted, getSession, Moved
    <3> QED
      BY <2>4, <3>3 DEF Stage, Moved
  <2> QED
    BY <2>6, <2>7, <2>8 DEF Keeps
<1>5. CASE ~InTransaction(c)
  <2>1. Finally(c, "failed", session)
    BY <1>5 DEF commitTransaction, abortTransaction
  <2>2. Finds(c, session)
    BY <1>2 DEF Finds
  <2>3. ~Stage(c)
    BY <1>1, <1>5 DEF Stage, Inside, InTransaction
  <2> QED
    BY <1>1, <1>3, <2>1, <2>2, <2>3, FinallyKeeps
<1> QED
  BY <1>4, <1>5

\* Committed, CommitFails and Aborted: the transaction is over, and the writes of
\* its session are in the database if it was committed.
LEMMA EndedKeeps ==
  ASSUME TypeOK, NEW c \in Calls, Committed(c) \/ CommitFails(c) \/ Aborted(c)
  PROVE  Keeps(c)
<1> DEFINE s == call[c].session
<1>1. At(c) \in {"committing", "aborting"} /\ UNCHANGED <<cid, sessionRequestMap, shared>>
  BY DEF Committed, CommitFails, Aborted, At
<1>2. /\ s \in Calls /\ session \in [Calls -> SessionType] /\ session[s].writes \subseteq Calls
      /\ durable \subseteq Calls /\ failures \in 0 .. MaxFailures
  <2>1. s \in Calls /\ session \in [Calls -> SessionType]
    BY <1>1, TypeFacts
  <2> QED
    BY <2>1 DEF SessionType, TypeOK
<1>3. /\ Finds(c, Closed(c)) /\ Finds(c, session) /\ Closed(c)[s].writes = {}
  BY <1>1, ClosedFound
<1>4. Stage(c) => /\ Inside(c) /\ s = getSession(c) /\ session[s].active
                  /\ c \notin durable /\ (c \in session[s].writes <=> call[c].wrote)
                  /\ \A t \in Calls : c \notin Closed(c)[t].writes
  BY <1>1, <1>2, <1>3 DEF Stage, Inside, Finds
<1>5. CASE Committed(c) /\ session[s].active
  <2>1. /\ Finally(c, "ok", Closed(c)) /\ failures' = failures
        /\ durable' = durable \cup session[s].writes
    BY <1>5 DEF Committed
  <2>2. durable' \subseteq Calls /\ failures' \in 0 .. MaxFailures /\ durable \subseteq durable'
    BY <1>2, <2>1
  <2>3. ASSUME NEW e \in durable'
        PROVE  e \in durable \/ \E t \in Calls : Holds(c, t) /\ e \in session[t].writes
    BY <1>1, <1>2, <2>1 DEF Holds
  <2>4. Stage(c) => /\ c \in durable' <=> "ok" = "ok" /\ call[c].wrote
                    /\ \A t \in Calls : c \notin Closed(c)[t].writes
    BY <1>4, <2>1
  <2> HIDE DEF s
  <2> QED
    BY <1>1, <1>3, <2>1, <2>2, <2>3, <2>4, FinallyKeeps
<1>6. CASE Committed(c) /\ ~session[s].active
  <2>1. /\ Finally(c, "failed", session) /\ failures' = failures /\ durable' = durable
    BY <1>6 DEF Committed
  <2>2. durable' \subseteq Calls /\ failures' \in 0 .. MaxFailures /\ durable \subseteq durable'
    BY <1>2, <2>1
  <2>3. ~Stage(c)
    BY <1>4, <1>6
  <2> HIDE DEF s
  <2> QED
    BY <1>1, <1>3, <2>1, <2>2, <2>3, FinallyKeeps
<1>7. CASE CommitFails(c) \/ Aborted(c)
  <2>1. /\ Finally(c, "failed", Closed(c)) /\ durable' = durable
    BY <1>7 DEF CommitFails, Aborted
  <2>2. durable' \subseteq Calls /\ failures' \in 0 .. MaxFailures /\ durable \subseteq durable'
    <3>1. CASE CommitFails(c)
      BY <1>2, <2>1, <3>1, ConstantsAssumption DEF CommitFails
    <3>2. CASE Aborted(c)
      BY <1>2, <2>1, <3>2 DEF Aborted
    <3> QED
      BY <1>7, <3>1, <3>2
  <2>3. Stage(c) => /\ c \in durable' <=> "failed" = "ok" /\ call[c].wrote
                    /\ \A t \in Calls : c \notin Closed(c)[t].writes
    BY <1>4, <2>1
  <2> HIDE DEF s
  <2> QED
    BY <1>1, <1>3, <2>1, <2>2, <2>3, FinallyKeeps
<1> QED
  BY <1>5, <1>6, <1>7

\* endSession: the session that is deleted from the map is that of the call.
LEMMA EndSessionKeeps ==
  ASSUME TypeOK, NEW c \in Calls, endSession(c)
  PROVE  Keeps(c)
<1> USE ConstantsAssumption
<1>1. /\ At(c) = "ending" /\ call[c].result \in {"ok", "failed"}
      /\ sessionRequestMap' = [sessionRequestMap EXCEPT ![cid[c]] = Null]
      /\ UNCHANGED <<cid, session, durable, failures, shared>>
      /\ Settled(c, "done", call[c].result) /\ "done" \in Pcs
  BY TypeFacts DEF endSession, Done, Settled, At, Pcs
<1>2. /\ call \in [Calls -> CallType] /\ session \in [Calls -> SessionType] /\ cid[c] \in Ids
      /\ sessionRequestMap \in [Ids -> Calls \cup {Null}]
      /\ \A i \in Ids : sessionRequestMap[i] # Null => cid[sessionRequestMap[i]] = i
      /\ durable \subseteq Calls /\ failures \in 0 .. MaxFailures /\ shared \subseteq Calls
  BY TypeFacts DEF TypeOK
<1>3. MovedTo(c, "done", call[c].result)
  BY <1>1, <1>2, MoveResult
<1>4. session' \in [Calls -> SessionType] /\ durable' \subseteq Calls
      /\ failures' \in 0 .. MaxFailures /\ shared' \subseteq Calls
  BY <1>1, <1>2
<1>5. TypeOK'
  <2>1. sessionRequestMap' = [sessionRequestMap EXCEPT ![cid[c]] = Null]
    BY <1>1
  <2> QED
    BY <1>1, <1>3, <1>4, <2>1, TypeKept DEF MovedTo, Moved
<1>6. Local(c)
  BY <1>1, <1>2, <1>3 DEF Local, MovedTo, Moved, Holds, At, UnderWay
<1>7. ASSUME Stage(c)
      PROVE  Stage(c)'
  <2>1. HasSession(c) /\ session[c] = NoSession /\ Unwritten(c) /\ Answer(c)
    BY <1>1, <1>7 DEF Stage
  <2>2. \A i \in Ids : sessionRequestMap'[i] # c
    BY <1>1, <1>2
  <2>3. Sessionless(c)'
    BY <1>1, <1>3, <2>1, <2>2 DEF Sessionless, HasSession, MovedTo, Moved, Holds, At
  <2>4. Unwritten(c)' /\ Answer(c)'
    BY <1>1, <1>3, <2>1 DEF Unwritten, Answer, MovedTo, Moved
  <2> QED
    BY <1>3, <2>3, <2>4 DEF Stage, MovedTo, Moved
<1> QED
  BY <1>5, <1>6, <1>7 DEF Keeps

\* Every step of a call, and that one that sets out without being marked as shared
\* finds none of its id under way.
LEMMA StepKeeps ==
  ASSUME TypeOK, NEW c \in Calls, Transactional(c) \/ Write(c) \/ Step(c)
  PROVE  /\ Keeps(c)
         /\ At(c) = "new" /\ c \notin shared' => \A d \in Calls : UnderWay(d) => cid[d] # cid[c]
<1>1. CASE Transactional(c)
  BY <1>1, TransactionalKeeps
<1>2. CASE Write(c) \/ Step(c)
  <2>1. Keeps(c)
    BY <1>2, StartSessionKeeps, StartSessionFailsKeeps, StartedKeeps, WriteKeeps,
       EndTransactionKeeps, EndedKeeps, EndSessionKeeps DEF Step
  <2>2. At(c) # "new"
    BY <1>2 DEF Write, Step, startSession, startSessionFails, Started, commitTransaction,
                abortTransaction, Committed, CommitFails, Aborted, endSession, At
  <2> QED
    BY <2>1, <2>2
<1> QED
  BY <1>1, <1>2

-----------------------------------------------------------------------------
(* Nor does it lead the other calls astray                                 *)

\* What belongs to one correlation id stays with it.
LEMMA OfOneIdKept ==
  ASSUME TypeOK, OfOneId, NEW d \in Calls, Local(d)
  PROVE  OfOneId'
<1>1. sessionStarted(d) => getSession(d) \in Calls /\ cid[getSession(d)] = cid[d]
  BY TypeFacts
<1>2. \A s \in Calls : s = getSession(d) => cid[s] = cid[d]
  BY <1>1, ConstantsAssumption DEF sessionStarted
<1>3. ASSUME NEW e \in Calls, NEW s \in Calls, Holds(e, s)'
      PROVE  cid'[s] = cid'[e]
  <2>1. CASE e = d
    BY <1>2, <1>3, <2>1 DEF Local, OfOneId
  <2>2. CASE e # d
    BY <1>3, <2>2 DEF Local, OfOneId, Holds, At
  <2> QED
    BY <2>1, <2>2
<1>4. ASSUME NEW e \in Calls, NEW s \in Calls, e \in session'[s].writes
      PROVE  cid'[s] = cid'[e]
  BY <1>2, <1>4 DEF Local, OfOneId
<1> QED
  BY <1>3, <1>4 DEF OfOneId

\* A call that nobody shared its id with stays so, and stays where it is.
LEMMA OthersKeep ==
  ASSUME TypeOK, OfOneId, NEW d \in Calls, Local(d), NEW c \in Calls \ {d},
         c \notin shared', Stage(c), Alone(c)
  PROVE  Stage(c)' /\ Alone(c)'
<1> USE ConstantsAssumption
<1>1. call'[c] = call[c] /\ cid' = cid /\ At(c)' = At(c)
  BY DEF Local, At
<1>2. UnderWay(c) => cid[d] # cid[c]
  BY DEF Local, Alone
<1>3. Alone(c)'
  <2> SUFFICES ASSUME UnderWay(c)', NEW e \in Calls \ {c}, UnderWay(e)'
               PROVE  cid[e] # cid[c]
    BY <1>1 DEF Alone
  <2>1. UnderWay(c)
    BY <1>1 DEF UnderWay, At
  <2>2. CASE e = d
    BY <1>2, <2>1, <2>2
  <2>3. CASE e # d
    BY <2>1, <2>3 DEF Local, UnderWay, Alone
  <2> QED
    BY <2>2, <2>3
<1>4. ASSUME Sessionless(c)
      PROVE  Sessionless(c)'
  <2>1. session'[c] = NoSession
    BY <1>4, TypeFacts DEF Local, Sessionless, getSession
  <2>2. \A i \in Ids : sessionRequestMap'[i] # c
    BY <1>4 DEF Local, Sessionless
  <2>3. ASSUME NEW e \in Calls
        PROVE  ~Holds(e, c)'
    <3>1. CASE e = d
      BY <1>4, <3>1, TypeFacts DEF Local, Sessionless, getSession
    <3>2. CASE e # d
      BY <1>4, <3>2 DEF Local, Sessionless, Holds, At
    <3> QED
      BY <3>1, <3>2
  <2> QED
    BY <2>1, <2>2, <2>3 DEF Sessionless
<1>5. ASSUME Unwritten(c)
      PROVE  /\ Unwritten(c)'
             /\ c \in durable' <=> c \in durable
  BY <1>5 DEF Local, Unwritten
<1>6. \A s \in Calls : s = getSession(d) => cid[s] = cid[d]
  BY TypeFacts DEF sessionStarted
<1>7. ASSUME cid[d] # cid[c], NEW s \in Calls, cid[s] = cid[c]
      PROVE  session'[s] = session[s] /\ ~Holds(d, s)'
  BY <1>6, <1>7 DEF Local, OfOneId
<1>8. ASSUME cid[d] # cid[c]
      PROVE  getSession(c)' = getSession(c)
  BY <1>1, <1>8, TypeFacts DEF Local, getSession
<1>9. ASSUME cid[d] # cid[c], HasSession(c)
      PROVE  HasSession(c)' /\ session'[c] = session[c]
  <2>1. ASSUME NEW e \in Calls, Holds(e, c)'
        PROVE  e = c
    BY <1>7, <1>9, <2>1 DEF Local, HasSession, Holds, At
  <2> QED
    BY <1>7, <1>8, <1>9, <2>1 DEF HasSession
<1>10. ASSUME cid[d] # cid[c], Inside(c)
       PROVE  Inside(c)'
  <2>1. getSession(c) \in Calls /\ cid[getSession(c)] = cid[c] /\ getSession(c)' = getSession(c)
    BY <1>8, <1>10, TypeFacts DEF Inside
  <2>2. session'[getSession(c)] = session[getSession(c)]
    BY <1>7, <1>10, <2>1
  <2>3. \A s \in Calls : s # getSession(c) => c \notin session'[s].writes
    BY <1>10 DEF Local, Inside
  <2>4. c \notin durable'
    BY <1>10 DEF Local, Inside, OfOneId
  <2>5. IF call'[c].own THEN HasSession(c)' ELSE Sessionless(c)'
    BY <1>1, <1>4, <1>9, <1>10 DEF Inside
  <2> QED
    BY <1>1, <1>10, <2>1, <2>2, <2>3, <2>4, <2>5 DEF Inside, sessionStarted
<1>11. CASE At(c) = "new"
  <2>1. Untouched(c) /\ Sessionless(c)'
    BY <1>4, <1>11 DEF Stage
  <2>2. Untouched(c)'
    BY <1>1, <1>5, <2>1 DEF Untouched
  <2> QED
    BY <1>1, <1>3, <1>11, <2>1, <2>2 DEF Stage
<1>12. CASE At(c) = "done"
  <2>1. Unwritten(c) /\ Answer(c) /\ Sessionless(c)'
    BY <1>4, <1>12 DEF Stage
  <2>2. Unwritten(c)' /\ Answer(c)'
    BY <1>1, <1>5, <2>1 DEF Answer
  <2> QED
    BY <1>1, <1>3, <1>12, <2>1, <2>2 DEF Stage
<1>13. CASE At(c) \notin {"new", "done"}
  <2>1. cid[d] # cid[c]
    BY <1>2, <1>13 DEF UnderWay, At
  <2>2. CASE At(c) = "starting"
    <3>1. Untouched(c) /\ Sessionless(c)'
      BY <1>4, <2>2 DEF Stage
    <3>2. Untouched(c)'
      BY <1>1, <1>5, <3>1 DEF Untouched
    <3> QED
      BY <1>1, <1>3, <2>2, <3>1, <3>2 DEF Stage
  <2>3. CASE At(c) = "started"
    <3>1. Untouched(c) /\ HasSession(c)' /\ ~session'[c].active
      BY <1>9, <2>1, <2>3 DEF Stage
    <3>2. Untouched(c)'
      BY <1>1, <1>5, <3>1 DEF Untouched
    <3> QED
      BY <1>1, <1>3, <2>3, <3>1, <3>2 DEF Stage
  <2>4. CASE At(c) \in {"method", "committing", "aborting"}
    <3>1. Inside(c) /\ (At(c) # "method" => call[c].session = getSession(c))
      BY <2>4 DEF Stage
    <3>2. Inside(c)' /\ getSession(c)' = getSession(c)
      BY <1>8, <1>10, <2>1, <3>1
    <3>3. At(c)' \in {"committing", "aborting"} => call'[c].session = getSession(c)'
      BY <1>1, <3>1, <3>2
    <3> QED
      BY <1>1, <1>3, <2>4, <3>2, <3>3 DEF Stage
  <2>5. CASE At(c) = "ending"
    <3>1. Unwritten(c) /\ Answer(c) /\ HasSession(c)' /\ session'[c] = NoSession
      BY <1>9, <2>1, <2>5 DEF Stage
    <3>2. Unwritten(c)' /\ Answer(c)'
      BY <1>1, <1>5, <3>1 DEF Answer
    <3> QED
      BY <1>1, <1>3, <2>5, <3>1, <3>2 DEF Stage
  <2>6. At(c) \in Pcs
    BY TypeFacts DEF CallType, At
  <2> QED
    BY <1>13, <2>2, <2>3, <2>4, <2>5, <2>6 DEF Pcs
<1> QED
  BY <1>3, <1>11, <1>12, <1>13

-----------------------------------------------------------------------------
(* Theorems                                                                *)

\* At first every call is at its first stage.
LEMMA InvInit == Init => IInv
<1> SUFFICES ASSUME Init
             PROVE  IInv
  OBVIOUS
<1> USE ConstantsAssumption
<1>1. /\ \A c \in Calls : /\ session[c] = NoSession
                          /\ call[c] = [pc |-> "new", own |-> FALSE, session |-> Null,
                                        wrote |-> FALSE, result |-> "none"]
      /\ \A i \in Ids : sessionRequestMap[i] = Null
      /\ durable = {} /\ failures = 0 /\ shared = {}
  BY DEF Init
<1>2. TypeOK
  BY DEF Init, TypeOK, NoSession
<1>3. OfOneId
  BY <1>1 DEF OfOneId, Holds, At, NoSession
<1>4. ASSUME NEW c \in Calls
      PROVE  Stage(c) /\ Alone(c)
  <2>1. At(c) = "new" /\ Sessionless(c) /\ Untouched(c) /\ ~call[c].own
    BY <1>1 DEF At, Sessionless, Untouched, Unwritten, Holds, NoSession
  <2> QED
    BY <2>1 DEF Stage, Alone, UnderWay, At
<1> QED
  BY <1>2, <1>3, <1>4 DEF IInv

\* Every step keeps the invariant: for the call that takes it by Keeps, for the
\* others because it is local.
LEMMA InvNext == IInv /\ [Next]_vars => IInv'
<1> SUFFICES ASSUME IInv, [Next]_vars
             PROVE  IInv'
  OBVIOUS
<1>1. CASE UNCHANGED vars
  BY <1>1
  DEF IInv, TypeOK, OfOneId, Stage, Alone, Inside, HasSession, Sessionless, Untouched,
              Unwritten, Answer, Holds, At, UnderWay, getSession, sessionStarted, vars
<1>2. ASSUME NEW d \in Calls, Transactional(d) \/ Write(d) \/ Step(d)
      PROVE  IInv'
  <2>1. /\ TypeOK' /\ Local(d) /\ (d \notin shared' /\ Stage(d) => Stage(d)')
        /\ At(d) = "new" /\ d \notin shared' => \A e \in Calls : UnderWay(e) => cid[e] # cid[d]
    BY <1>2, StepKeeps DEF IInv, Keeps
  <2>2. OfOneId'
    BY <2>1, OfOneIdKept DEF IInv
  <2>3. ASSUME NEW c \in Calls \ shared'
        PROVE  Stage(c)' /\ Alone(c)'
    <3>1. Stage(c) /\ Alone(c)
      BY <2>1 DEF IInv, Local
    <3>2. CASE c # d
      BY <2>1, <3>1, <3>2, OthersKeep DEF IInv
    <3>3. CASE c = d
      <4>1. ASSUME NEW e \in Calls \ {c}, UnderWay(e)', UnderWay(c)'
            PROVE  cid'[e] # cid'[c]
        <5>1. UnderWay(e) /\ cid' = cid
          BY <2>1, <3>3, <4>1 DEF Local, UnderWay
        <5>2. CASE UnderWay(c)
          BY <3>1, <5>1, <5>2 DEF Alone
        <5>3. CASE At(c) = "new"
          BY <2>1, <3>3, <5>1, <5>3
        <5>4. At(c) # "done"
          BY <1>2, <3>3
             DEF Transactional, Write, Step, startSession, startSessionFails, Started,
                 commitTransaction, abortTransaction, Committed, CommitFails, Aborted,
                 endSession, At
        <5> QED
          BY <5>2, <5>3, <5>4 DEF UnderWay, At
      <4>2. Alone(c)'
        BY <4>1 DEF Alone
      <4> QED
        BY <2>1, <3>1, <3>3, <4>2
    <3> QED
      BY <3>2, <3>3
  <2> QED
    BY <2>1, <2>2, <2>3 DEF IInv
<1> QED
  BY <1>1, <1>2 DEF Next

\* What the invariant says holds of all behaviours, of every number of calls.
LEMMA Invariance == Spec => []IInv
  BY InvInit, InvNext, PTL DEF Spec

\* Calls, sessions and the map keep their types, and the session of an id is one
\* that a call of this id started.
THEOREM TypeCorrect == Spec => []TypeOK
<1>1. IInv => TypeOK
  BY DEF IInv
<1> QED
  BY <1>1, Invariance, PTL

\* A transactional call that shares its correlation id with none under way
\* writes all or nothing, as it answers, and leaves no session behind, whatever
\* calls of other ids do at its awaits and whenever MongoDB fails.
THEOREM Sound == Spec => []SoundUnlessShared
<1>1. IInv => SoundUnlessShared
  <2> SUFFICES ASSUME IInv, NEW c \in Calls \ shared, call[c].pc = "done"
               PROVE  /\ c \in durable <=> call[c].result = "ok" /\ call[c].wrote
                      /\ session[c] = NoSession /\ sessionRequestMap[cid[c]] # c
    BY DEF SoundUnlessShared, AtomicUnlessShared, NoSessionLeaks
  <2>1. Sessionless(c) /\ Answer(c) /\ cid[c] \in Ids
    BY TypeFacts DEF IInv, Stage, At
  <2> QED
    BY <2>1 DEF Sessionless, Answer
<1> QED
  BY <1>1, Invariance, PTL

-----------------------------------------------------------------------------
(* The data sources                                                        *)

SetupUnderWay(p) == pc[p] \notin {"new", "done", "failed"}

\* The types of what the invariant below speaks of.
SetupTypes ==
  /\ IsInitialized \in BOOLEAN /\ connection \in BOOLEAN /\ isOpen \in BOOLEAN
  /\ overlapped \in BOOLEAN
  /\ at \in [Setups -> 1 .. 3]
  /\ pc \in [Setups -> {"new", "next", "connecting", "connected", "done", "failed"}]
  /\ backups \in Nat /\ destroyed \in {0, 1}

\* The flag is set together with the backup, of MongoDB, which is connected by
\* then; so Setup() never gets to connect redis.  Setup() that is under way alone
\* finds the flag as it left it.
SetupInv ==
  /\ SetupTypes
  /\ \A p \in Setups : pc[p] \in {"connecting", "connected"} => at[p] = 1
  /\ \A p \in Setups : pc[p] = "connected" => connection
  /\ \A p \in Setups : at[p] > 1 => IsInitialized
  /\ \A p \in Setups : pc[p] = "done" => at[p] > 1
  /\ \A p \in Setups : at[p] > 1 \/ SetupUnderWay(p) => missing = {}
  /\ IsInitialized => connection /\ backups >= 1
  /\ ~IsInitialized => backups = 0
  /\ "mongodb" \in up => connection
  /\ connection /\ destroyed = 0 => "mongodb" \in up
  /\ "redis" \in up => isOpen
  /\ ~overlapped =>
       /\ backups <= 1
       /\ \A p, q \in Setups : SetupUnderWay(p) /\ SetupUnderWay(q) => p = q
       /\ \A p \in Setups : pc[p] \in {"connecting", "connected"} => ~IsInitialized

\* Nothing is set up at first.
LEMMA SetupInit == Sources!Init => SetupInv
<1> SUFFICES ASSUME Sources!Init
             PROVE  SetupInv
  OBVIOUS
<1>1. SetupTypes
  <2>1. /\ IsInitialized \in BOOLEAN /\ connection \in BOOLEAN /\ isOpen \in BOOLEAN
        /\ overlapped \in BOOLEAN
    BY DEF Sources!Init
  <2>2. at \in [Setups -> 1 .. 3] /\ backups \in Nat /\ destroyed \in {0, 1}
    BY DEF Sources!Init
  <2>3. pc \in [Setups -> {"new", "next", "connecting", "connected", "done", "failed"}]
    BY DEF Sources!Init
  <2> QED
    BY <2>1, <2>2, <2>3 DEF SetupTypes
<1> QED
  BY <1>1 DEF Sources!Init, SetupInv, SetupUnderWay

\* Where the flag is not set, Setup() is at MongoDB, and it was alone if nothing overlapped.
LEMMA BeginKeeps ==
  ASSUME SetupInv, NEW p \in Setups, Sources!BeginInit(p)
  PROVE  SetupInv'
<1>0. /\ pc[p] \in {"new", "next"} /\ at[p] \in 1 .. 2
      /\ overlapped' = (overlapped \/ \E q \in Setups \ {p} : SetupUnderWay(q))
      /\ missing = {}
      /\ UNCHANGED <<missing, IsInitialized, connection, up, backups, destroyed>>
  BY DEF Sources!BeginInit, SetupUnderWay, SetupInv, SetupTypes, Sources!Instances
<1>1. CASE IsInitialized
  <2>1. at' = [at EXCEPT ![p] = @ + 1] /\ pc' = [pc EXCEPT ![p] = "next"] /\ isOpen' = isOpen
    BY <1>1 DEF Sources!BeginInit
  <2>2. SetupTypes'
    BY <1>0, <2>1 DEF SetupInv, SetupTypes
  <2>3. ~overlapped' =>
          \A a, b \in Setups : SetupUnderWay(a)' /\ SetupUnderWay(b)' => a = b
    BY <1>0, <2>1 DEF SetupInv, SetupTypes, SetupUnderWay
  <2> QED
    BY <1>0, <1>1, <2>1, <2>2, <2>3 DEF SetupInv, SetupTypes
<1>2. CASE ~IsInitialized
  <2>0. at[p] = 1 /\ Sources!Source(p) = "mongodb"
    BY <1>0, <1>2 DEF SetupInv, SetupTypes, Sources!Source, Sources!Instances
  <2>1. /\ pc' = [pc EXCEPT ![p] = IF connection THEN "connected" ELSE "connecting"]
        /\ at' = at /\ isOpen' = isOpen
    BY <1>2, <2>0 DEF Sources!BeginInit, Sources!Connected, SetupInv, SetupTypes
  <2>2. SetupTypes'
    BY <1>0, <2>1 DEF SetupInv, SetupTypes
  <2>3. ~overlapped' =>
          \A a, b \in Setups : SetupUnderWay(a)' /\ SetupUnderWay(b)' => a = b
    BY <1>0, <2>1 DEF SetupInv, SetupTypes, SetupUnderWay
  <2> QED
    BY <1>0, <1>2, <2>0, <2>1, <2>2, <2>3 DEF SetupInv, SetupTypes
<1> QED
  BY <1>1, <1>2 DEF SetupInv, SetupTypes

\* Every step of the data sources keeps the invariant.
LEMMA SetupStep ==
  ASSUME SetupInv, Sources!Next
  PROVE  SetupInv'
<1>0. ASSUME NEW p \in Setups, Sources!SetupThrows(p)
      PROVE  SetupInv'
  <2>1. SetupTypes'
    BY <1>0 DEF Sources!SetupThrows, SetupInv, SetupTypes
  <2> QED
    BY <1>0, <2>1 DEF Sources!SetupThrows, SetupInv, SetupTypes, SetupUnderWay
<1>1. ASSUME NEW p \in Setups, Sources!Connect(p)
      PROVE  SetupInv'
  <2>1. Sources!Source(p) = "mongodb" /\ pc[p] = "connecting"
    BY <1>1 DEF Sources!Connect, SetupInv, SetupTypes, Sources!Source, Sources!Instances
  <2> QED
    BY <1>1, <2>1 DEF Sources!Connect, SetupInv, SetupTypes, SetupUnderWay
<1>2. ASSUME NEW p \in Setups, Sources!ConnectFails(p)
      PROVE  SetupInv'
  <2>1. Sources!Source(p) = "mongodb" /\ pc[p] = "connecting"
    BY <1>2 DEF Sources!ConnectFails, SetupInv, SetupTypes, Sources!Source, Sources!Instances
  <2> QED
    BY <1>2, <2>1 DEF Sources!ConnectFails, SetupInv, SetupTypes, SetupUnderWay
<1>3. ASSUME NEW p \in Setups, Sources!EndInit(p)
      PROVE  SetupInv'
  <2>1. Sources!Source(p) = "mongodb" /\ pc[p] = "connected" /\ at[p] = 1
    BY <1>3 DEF Sources!EndInit, SetupInv, SetupTypes, Sources!Source, Sources!Instances
  <2>2. backups' = backups + 1
    BY <1>3, <2>1 DEF Sources!EndInit, Sources!shouldBackup
  <2>3. SetupTypes'
    BY <1>3, <2>1, <2>2 DEF Sources!EndInit, SetupInv, SetupTypes
  <2> QED
    BY <1>3, <2>1, <2>2, <2>3 DEF Sources!EndInit, SetupInv, SetupTypes, SetupUnderWay
<1>4. ASSUME NEW p \in Setups, Sources!EndSetup(p)
      PROVE  SetupInv'
  <2>1. pc[p] = "next" /\ at[p] > 1
    BY <1>4 DEF Sources!EndSetup, Sources!Instances, SetupInv, SetupTypes
  <2> QED
    BY <1>4, <2>1 DEF Sources!EndSetup, SetupInv, SetupTypes, SetupUnderWay
<1>5. CASE Sources!ConnectRedis
  BY <1>5 DEF Sources!ConnectRedis, SetupInv, SetupTypes, SetupUnderWay
<1>6. CASE Sources!Destroy
  <2>1. SetupTypes'
    BY <1>6 DEF Sources!Destroy, SetupInv, SetupTypes
  <2> QED
    BY <1>6, <2>1 DEF Sources!Destroy, SetupInv, SetupUnderWay
<1> QED
  BY <1>0, <1>1, <1>2, <1>3, <1>4, <1>5, <1>6, BeginKeeps DEF Sources!Next

\* Of every Setup(), however many there are: the backup job is registered once
\* unless they overlap, a Setup() that succeeded has connected the database, and
\* health() tells the truth.
THEOREM SourcesKnown == Sources!Spec => []SourcesAreKnown
<1>1. SetupInv /\ [Sources!Next]_(Sources!vars) => SetupInv'
  <2>1. ASSUME SetupInv, UNCHANGED Sources!vars
        PROVE  SetupInv'
    BY <2>1 DEF Sources!vars, SetupInv, SetupTypes, SetupUnderWay
  <2> QED
    BY <2>1, SetupStep
<1>2. SetupInv => SourcesAreKnown
  BY DEF SetupInv, SetupTypes, SourcesAreKnown, Sources!SourcesAreKnown,
         Sources!BackupIsRegisteredOnce, Sources!HealthIsTrue, Sources!health, Sources!Sources
<1> QED
  BY <1>1, <1>2, SetupInit, PTL DEF Sources!Spec

-----------------------------------------------------------------------------
(* The builder of queries                                                  *)

\* As long as no field is filtered twice the query finds what is wanted, and no more
\* if alternatives were added once at most and no range had a bound of zero.
QueryInv ==
  /\ wanted \subseteq Query!Documents
  /\ ors \in Nat
  /\ ors = 0 => or = {}
  /\ ~again => wanted \subseteq Query!build
  /\ ~again /\ ors <= 1 /\ ~zero => Query!build \subseteq wanted

\* A filter that leaves out no value it was meant to leave, and that leaves no other
\* unless a bound was zero.
LEMMA AddKeeps ==
  ASSUME QueryInv, NEW f \in Fields, NEW new, NEW meant, NEW values, Query!Add(f, new, meant),
         zero => zero',
         \/ new = query /\ (meant = Query!Values \/ zero')
         \/ new = Query!With(query, f, values) /\ meant \subseteq values
              /\ (values \subseteq meant \/ zero')
  PROVE  QueryInv'
<1>1. /\ query' = new /\ wanted' = {d \in wanted : d[f] \in meant}
      /\ again' = (again \/ f \in DOMAIN query) /\ or' = or /\ and' = and /\ ors' = ors
  BY DEF Query!Add
<1>2. wanted' \subseteq Query!Documents /\ ors' \in Nat /\ (ors' = 0 => or' = {})
  BY <1>1 DEF QueryInv
<1>3. \A d \in Query!Documents : d[f] \in Query!Values
  BY DEF Query!Documents
<1>4. ASSUME NEW d \in Query!Documents, ~again'
      PROVE  /\ d \in wanted' => d \in Query!build'
             /\ d \in Query!build' /\ ors' <= 1 /\ ~zero' => d \in wanted'
  <2>1. ~again /\ f \notin DOMAIN query
    BY <1>1, <1>4
  <2>2. /\ d \in wanted => d \in Query!build
        /\ (d \in Query!build /\ ors <= 1 /\ ~zero => d \in wanted)
    BY <2>1 DEF QueryInv
  <2>3. CASE new = query /\ (meant = Query!Values \/ zero')
    <3>1. d \in Query!build' <=> d \in Query!build
      BY <1>1, <2>3 DEF Query!build, Query!Satisfies
    <3> QED
      BY <1>1, <1>3, <2>2, <2>3, <3>1
  <2>4. CASE /\ new = Query!With(query, f, values) /\ meant \subseteq values
             /\ values \subseteq meant \/ zero'
    <3>1. Query!Satisfies(d, new) <=> Query!Satisfies(d, query) /\ d[f] \in values
      BY <2>1, <2>4 DEF Query!Satisfies, Query!With
    <3>2. d \in Query!build' <=> d \in Query!build /\ d[f] \in values
      BY <1>1, <3>1 DEF Query!build
    <3> QED
      BY <1>1, <2>2, <2>4, <3>2
  <2> QED
    BY <2>3, <2>4
<1>5. Query!build' \subseteq Query!Documents
  BY DEF Query!build
<1> QED
  BY <1>2, <1>4, <1>5 DEF QueryInv

\* A filter of one value.
LEMMA PrimitiveKeeps ==
  ASSUME QueryInv, Query!Primitive
  PROVE  QueryInv'
<1>1. PICK f \in Fields, v \in Query!Values \cup {Query!Undefined}, ignoring \in BOOLEAN :
        LET given == v # Query!Undefined /\ (ignoring => v # Query!EmptyString) IN
        /\ \/ Query!Add(f, Query!addPrimitiveFilter(query, f, v, ignoring),
              IF given THEN {v} ELSE Query!Values)
           \/ Query!Add(f, Query!addNotEqualPrimitiveFilter(query, f, v, ignoring),
                  IF given THEN Query!Values \ {v} ELSE Query!Values)
        /\ UNCHANGED zero
  BY DEF Query!Primitive
<1>2. CASE Query!shouldIgnore(v, ignoring)
  <2>1. Query!Add(f, query, Query!Values) /\ UNCHANGED zero
    BY <1>1, <1>2
    DEF Query!shouldIgnore, Query!addPrimitiveFilter, Query!addNotEqualPrimitiveFilter
  <2> QED
    BY <2>1, AddKeeps
<1>3. CASE ~Query!shouldIgnore(v, ignoring)
  <2>1. /\ UNCHANGED zero
        /\ \/ Query!Add(f, Query!With(query, f, {v}), {v})
           \/ Query!Add(f, Query!With(query, f, Query!Values \ {v}), Query!Values \ {v})
    BY <1>1, <1>3
    DEF Query!shouldIgnore, Query!addPrimitiveFilter, Query!addNotEqualPrimitiveFilter
  <2>2. CASE Query!Add(f, Query!With(query, f, {v}), {v})
    <3> DEFINE values == {v}
    <3>1. Query!Add(f, Query!With(query, f, values), values)
      BY <2>2
    <3> HIDE DEF values
    <3> QED
      BY <2>1, <3>1, AddKeeps
  <2>3. CASE Query!Add(f, Query!With(query, f, Query!Values \ {v}), Query!Values \ {v})
    <3> DEFINE values == Query!Values \ {v}
    <3>1. Query!Add(f, Query!With(query, f, values), values)
      BY <2>3
    <3> HIDE DEF values
    <3> QED
      BY <2>1, <3>1, AddKeeps
  <2> QED
    BY <2>1, <2>2, <2>3
<1> QED
  BY <1>2, <1>3

\* A filter of a list of values.
LEMMA ArrayKeeps ==
  ASSUME QueryInv, Query!Array
  PROVE  QueryInv'
<1>1. PICK f \in Fields, vs \in SUBSET Query!Numbers, ignoring \in BOOLEAN :
        /\ \/ Query!Add(f, Query!addArrayFilter(query, f, vs, ignoring),
                  IF vs = {} /\ ignoring THEN Query!Values ELSE vs)
           \/ Query!Add(f, Query!addNotInArrayFilter(query, f, vs, ignoring), Query!Values \ vs)
        /\ UNCHANGED zero
  BY DEF Query!Array
<1>2. CASE vs = {} /\ ignoring
  <2>1. Query!Values \ vs = Query!Values
    BY <1>2
  <2>2. Query!Add(f, query, Query!Values) /\ UNCHANGED zero
    BY <1>1, <1>2, <2>1 DEF Query!addArrayFilter, Query!addNotInArrayFilter
  <2> QED
    BY <2>2, AddKeeps
<1>3. CASE ~(vs = {} /\ ignoring)
  <2>1. /\ UNCHANGED zero
        /\ \/ Query!Add(f, Query!With(query, f, vs), vs)
           \/ Query!Add(f, Query!With(query, f, Query!Values \ vs), Query!Values \ vs)
    BY <1>1, <1>3 DEF Query!addArrayFilter, Query!addNotInArrayFilter
  <2>2. CASE Query!Add(f, Query!With(query, f, vs), vs)
    BY <2>1, <2>2, AddKeeps
  <2>3. CASE Query!Add(f, Query!With(query, f, Query!Values \ vs), Query!Values \ vs)
    <3> DEFINE values == Query!Values \ vs
    <3>1. Query!Add(f, Query!With(query, f, values), values)
      BY <2>3
    <3> HIDE DEF values
    <3> QED
      BY <2>1, <3>1, AddKeeps
  <2> QED
    BY <2>1, <2>2, <2>3
<1> QED
  BY <1>2, <1>3

\* A filter of a range.
LEMMA RangeKeeps ==
  ASSUME Query!ConstantsAssumption, QueryInv, Query!Range
  PROVE  QueryInv'
<1> DEFINE Meant(first, last) ==
             IF first = Query!Undefined /\ last = Query!Undefined THEN Query!Values
             ELSE {n \in Query!Numbers : (first # Query!Undefined => n >= first)
                                         /\ (last # Query!Undefined => n <= last)}
<1>1. PICK f \in Fields, first \in Query!Numbers \cup {Query!Undefined},
           last \in Query!Numbers \cup {Query!Undefined} :
        /\ Query!Add(f, Query!addRangeFilter(query, f, first, last), Meant(first, last))
        /\ zero' = (zero \/ first = 0 \/ last = 0)
  BY DEF Query!Range
<1> DEFINE meant == Meant(first, last)
           values == Query!AtLeast(first) \cap Query!AtMost(last)
<1>2. Query!Undefined \notin Query!Numbers
  BY DEF Query!Undefined, Query!Numbers
<1>3. CASE Query!Falsy(first) /\ Query!Falsy(last)
  <2>1. Query!Add(f, query, meant)
    BY <1>1, <1>3 DEF Query!addRangeFilter
  <2>2. meant = Query!Values \/ zero'
    BY <1>1, <1>3 DEF Query!Falsy
  <2> HIDE DEF meant
  <2> QED
    BY <1>1, <2>1, <2>2, AddKeeps
<1>4. CASE ~(Query!Falsy(first) /\ Query!Falsy(last))
  <2>1. Query!Add(f, Query!With(query, f, values), meant)
    BY <1>1, <1>4 DEF Query!addRangeFilter
  <2>2. meant = {n \in Query!Numbers : (first # Query!Undefined => n >= first)
                                 /\ (last # Query!Undefined => n <= last)}
    BY <1>4 DEF Query!Falsy
  <2>3. meant \subseteq values
    BY <2>2 DEF Query!AtLeast, Query!AtMost, Query!Falsy
  <2>4. values \subseteq meant \/ zero'
    BY <1>1, <2>2 DEF Query!AtLeast, Query!AtMost, Query!Falsy
  <2> HIDE DEF meant, values
  <2> QED
    BY <1>1, <2>1, <2>3, <2>4, AddKeeps
<1> QED
  BY <1>3, <1>4

\* Alternatives.
LEMMA OrKeeps ==
  ASSUME QueryInv, NEW conditions, Query!addOrFilter(conditions)
  PROVE  QueryInv'
<1> DEFINE filters == conditions \ {Query!NoFilter}
<1>1. /\ or' = or \cup filters
      /\ ors' = IF filters = {} THEN ors ELSE ors + 1
      /\ wanted' = {d \in wanted : filters = {} \/ \E q \in filters : Query!Satisfies(d, q)}
      /\ query' = query /\ and' = and /\ again' = again /\ zero' = zero
  BY DEF Query!addOrFilter
<1> HIDE DEF filters
<1>2. CASE filters = {}
  <2>1. or' = or /\ ors' = ors /\ wanted' = wanted
    BY <1>1, <1>2 DEF QueryInv
  <2> QED
    BY <1>1, <2>1 DEF QueryInv, Query!build
<1>3. CASE filters # {}
  <2>1. ors' \in Nat /\ ors' # 0 /\ (ors' <= 1 => ors = 0)
    BY <1>1, <1>3 DEF QueryInv
  <2>2. wanted' \subseteq Query!Documents
    BY <1>1 DEF QueryInv
  <2>3. ASSUME ~again, NEW d \in wanted'
        PROVE  d \in Query!build'
    <3>1. d \in Query!build /\ \E q \in filters : Query!Satisfies(d, q)
      BY <1>1, <1>3, <2>3 DEF QueryInv
    <3> QED
      BY <1>1, <3>1 DEF Query!build
  <2>4. ASSUME ~again, ors' <= 1, ~zero, NEW d \in Query!build'
        PROVE  d \in wanted'
    <3>1. or = {} /\ or' = filters
      BY <1>1, <2>1, <2>4 DEF QueryInv
    <3>2. d \in Query!build /\ \E q \in filters : Query!Satisfies(d, q)
      BY <1>1, <1>3, <2>4, <3>1 DEF Query!build
    <3>3. ors <= 1
      BY <2>1, <2>4 DEF QueryInv
    <3> QED
      BY <1>1, <2>4, <3>2, <3>3 DEF QueryInv
  <2> QED
    BY <1>1, <2>1, <2>2, <2>3, <2>4 DEF QueryInv
<1> QED
  BY <1>2, <1>3

\* Conditions that must hold too.
LEMMA AndKeeps ==
  ASSUME QueryInv, NEW conditions, Query!addAndFilter(conditions)
  PROVE  QueryInv'
<1> DEFINE filters == conditions \ {Query!NoFilter}
<1>1. /\ and' = and \cup filters
      /\ wanted' = {d \in wanted : \A q \in filters : Query!Satisfies(d, q)}
      /\ query' = query /\ or' = or /\ ors' = ors /\ again' = again /\ zero' = zero
  BY DEF Query!addAndFilter
<1> HIDE DEF filters
<1>2. Query!build' = {d \in Query!build : \A q \in filters : Query!Satisfies(d, q)}
  BY <1>1 DEF Query!build
<1> QED
  BY <1>1, <1>2 DEF QueryInv

\* Every step keeps it.
LEMMA QueryStep ==
  ASSUME Query!ConstantsAssumption, QueryInv, [Query!Next]_(Query!vars)
  PROVE  QueryInv'
<1>1. CASE UNCHANGED Query!vars
  BY <1>1 DEF Query!vars, QueryInv, Query!build
<1> QED
  BY <1>1, PrimitiveKeeps, ArrayKeeps, RangeKeeps, OrKeeps, AndKeeps DEF Query!Next

\* A query finds what satisfies the filters it was built of.
THEOREM QueriesFind ==
  ASSUME Query!ConstantsAssumption
  PROVE  Query!Spec => []QueriesFindWhatIsWanted
<1>1. Query!Init => QueryInv
  BY DEF Query!Init, QueryInv, Query!build, Query!Satisfies, Query!NoFilter
<1>2. QueryInv /\ [Query!Next]_(Query!vars) => QueryInv'
  BY QueryStep
<1>3. QueryInv => QueriesFindWhatIsWanted
  BY DEF QueryInv, QueriesFindWhatIsWanted, Query!QueriesFindWhatIsWanted,
         Query!FindsWhatIsWanted, Query!NothingWantedIsMissed
<1> QED
  BY <1>1, <1>2, <1>3, PTL DEF Query!Spec

-----------------------------------------------------------------------------
(* Pagination                                                              *)

\* The size of the pages does not change on the way, and the page that is asked
\* for is one there is.
Asking ==
  /\ total \in Nat
  /\ asked \in [page : Int \cup {Null}, perPage : Int \cup {Null}]
  /\ visits \in [1 .. total -> Int]
  /\ way \in {"forth", "back", "end", "refused"}
  /\ start # Null =>
       /\ start \in Nat \ {0}
       /\ asked.page \in {Null} \cup (Nat \ {0})
       /\ answer.perPage = Pages!PerPage(asked)
       /\ answer.page \in Nat \ {0}
       /\ answer.nextPage = IF Pages!HasMore(answer.page, answer.perPage)
                            THEN answer.page + 1 ELSE Null
       /\ answer.prevPage = Pages!PrevPage(answer.page)

\* On the way forth the reader has what is between the first page it got and the
\* last one; then it has all.
ReadInv ==
  /\ Asking
  /\ start = Null => way \in {"forth", "refused"} /\ \A i \in 1 .. total : visits[i] = 0
  /\ start # Null /\ way = "forth" =>
       /\ start <= answer.page
       /\ asked.page = answer.nextPage
       /\ \A i \in 1 .. total :
            visits[i] = IF /\ (start - 1) * Pages!PerPage(asked) < i
                           /\ i <= answer.page * Pages!PerPage(asked)
                        THEN 1 ELSE 0
  /\ start # Null /\ way # "forth" =>
       \A i \in 1 .. total :
         visits[i] = IF (start - 1) * Pages!PerPage(asked) < i THEN 1 ELSE 0

\* The size of a page is positive.
LEMMA Sizes ==
  ASSUME Pages!ConstantsAssumption, NEW q \in [page : Int \cup {Null}, perPage : Int \cup {Null}]
  PROVE  Pages!PerPage(q) \in Nat \ {0} /\ Pages!Page(q) \in Nat \ {0}
BY DEF Pages!ConstantsAssumption, Pages!PerPage, Pages!Page, Pages!Or

\* What a page holds.
LEMMA Products ==
  ASSUME NEW p \in Int, NEW d \in Int
  PROVE  /\ p * d \in Int /\ Pages!Skip(p + 1, d) = p * d
         /\ Pages!Skip(p, d) \in Int /\ Pages!Skip(p, d) = (p - 1) * d
         /\ Pages!Skip(p, d) + d = p * d
BY DEF Pages!Skip

\* Larger pages come later.
LEMMA PagesGrow ==
  ASSUME NEW p \in Int, NEW q \in Int, p <= q, NEW d \in Nat
  PROVE  p * d <= q * d
OBVIOUS

\* There are no items beyond the last page.
LEMMA LastPage ==
  ASSUME NEW p \in Nat, NEW d \in Nat \ {0}, NEW n \in Nat, ~(p < Pages!Ceil(n, d))
  PROVE  n <= p * d
<1> DEFINE q == (n + d - 1) \div d
           r == (n + d - 1) % d
<1>1. /\ q \in Int /\ r \in Int /\ n + d - 1 = d * q + r /\ 0 <= r /\ r < d
  OBVIOUS
<1>2. q <= p
  BY <1>1 DEF Pages!Ceil
<1> HIDE DEF q, r
<1>3. q * d <= p * d
  BY <1>1, <1>2, PagesGrow
<1>4. d * q = q * d /\ q * d \in Int /\ p * d \in Int
  BY <1>1
<1> QED
  BY <1>1, <1>3, <1>4

\* Before the first page is read the reader has seen nothing.
LEMMA ReadInit ==
  ASSUME Pages!ConstantsAssumption, Pages!Init
  PROVE  ReadInv
<1>1. total \in Nat
  BY DEF Pages!Init, Pages!ConstantsAssumption
<1>2. asked \in [page : Int \cup {Null}, perPage : Int \cup {Null}]
  BY DEF Pages!Init, Pages!ConstantsAssumption, Pages!Asked
<1>3. visits \in [1 .. total -> Int] /\ \A i \in 1 .. total : visits[i] = 0
  BY DEF Pages!Init
<1> QED
  BY <1>1, <1>2, <1>3 DEF Pages!Init, ReadInv, Asking

\* The reader gets a page.
LEMMA GetPageKeeps ==
  ASSUME Pages!ConstantsAssumption, ReadInv, Pages!GetPage
  PROVE  ReadInv'
<1> DEFINE p == Pages!Page(asked)
           d == Pages!PerPage(asked)
           next == IF way = "forth" THEN answer'.nextPage ELSE answer'.prevPage
<1>1. /\ total \in Nat /\ asked \in [page : Int \cup {Null}, perPage : Int \cup {Null}]
      /\ visits \in [1 .. total -> Int] /\ way \in {"forth", "back"}
      /\ asked.page \in Int \cup {Null} /\ Null \notin Int
      /\ asked.page # Null \/ start = Null
  BY DEF ReadInv, Asking, Pages!GetPage, Pages!ConstantsAssumption
<1>2. /\ p \in Nat \ {0} /\ d \in Nat \ {0}
      /\ start' = (IF start = Null THEN p ELSE start)
      /\ visits' = [i \in 1 .. total |->
                      IF way = "forth" /\ Pages!Skip(p, d) < i /\ i <= Pages!Skip(p, d) + d
                      THEN visits[i] + 1 ELSE visits[i]]
      /\ way' = way /\ total' = total
  BY <1>1, Sizes DEF Pages!GetPage, Pages!Get
<1>3. /\ answer'.page = p /\ answer'.perPage = d
      /\ answer'.nextPage = (IF Pages!HasMore(p, d) THEN p + 1 ELSE Null)
      /\ answer'.prevPage = Pages!PrevPage(p)
      /\ asked' = [asked EXCEPT !.page = next]
  BY DEF Pages!GetPage, Pages!Get, Pages!getPagination
<1>4. next \in {Null} \cup (Nat \ {0})
  BY <1>2, <1>3 DEF Pages!PrevPage
<1>5. /\ asked' \in [page : Int \cup {Null}, perPage : Int \cup {Null}]
      /\ asked'.page = next /\ asked'.perPage = asked.perPage
  BY <1>1, <1>3, <1>4
<1>6. Pages!PerPage(asked)' = d
  BY <1>5 DEF Pages!PerPage
<1>7. visits' \in [1 .. total -> Int]
  BY <1>1, <1>2
<1>8. start' \in Nat \ {0} /\ start' # Null
  BY <1>1, <1>2 DEF ReadInv, Asking
<1>9. /\ Pages!Skip(p, d) = (p - 1) * d /\ Pages!Skip(p, d) + d = p * d
      /\ Pages!Skip(p, d) \in Int
      /\ p * d \in Int
  <2> HIDE DEF p, d
  <2>1. p \in Int /\ d \in Int
    BY <1>2
  <2> QED
    BY <2>1, Products
<1> HIDE DEF p, d, next
<1>10. answer'.nextPage = IF p < Pages!Ceil(total', d) THEN p + 1 ELSE Null
  BY <1>2, <1>3 DEF Pages!HasMore
<1>11. Asking'
  BY <1>1, <1>2, <1>3, <1>4, <1>5, <1>6, <1>7, <1>8, <1>10 DEF Asking, Pages!HasMore
<1>12. CASE start = Null
  <2>1. way = "forth" /\ \A i \in 1 .. total : visits[i] = 0
    BY <1>1, <1>12 DEF ReadInv
  <2>2. \A i \in 1 .. total : visits'[i] = IF (p - 1) * d < i /\ i <= p * d THEN 1 ELSE 0
    BY <1>2, <1>9, <2>1
  <2>3. start' = p /\ next = answer'.nextPage
    BY <1>2, <1>12, <2>1 DEF next
  <2> QED
    BY <1>2, <1>3, <1>5, <1>6, <1>8, <1>11, <2>1, <2>2, <2>3 DEF ReadInv
<1>13. CASE start # Null /\ way = "forth"
  <2>1. /\ start \in Nat \ {0} /\ start <= answer.page /\ asked.page = answer.nextPage
        /\ answer.page \in Nat \ {0}
        /\ answer.nextPage = IF Pages!HasMore(answer.page, answer.perPage)
                             THEN answer.page + 1 ELSE Null
        /\ \A i \in 1 .. total :
             visits[i] = IF (start - 1) * d < i /\ i <= answer.page * d THEN 1 ELSE 0
    BY <1>13 DEF ReadInv, Asking, d
  <2>2. p = answer.page + 1
    BY <1>1, <1>13, <2>1 DEF p, Pages!Page, Pages!Or
  <2>3. /\ answer.page * d = (p - 1) * d /\ (start - 1) * d \in Int
        /\ (start - 1) * d <= (p - 1) * d
    <3>1. answer.page = p - 1 /\ start - 1 <= p - 1 /\ start - 1 \in Int /\ p - 1 \in Int
      BY <1>2, <2>1, <2>2
    <3>2. d \in Nat /\ d \in Int
      BY <1>2
    <3>3. (start - 1) * d <= (p - 1) * d
      BY <3>1, <3>2, PagesGrow
    <3>4. (start - 1) * d \in Int
      BY <3>1, <3>2, Products
    <3> QED
      BY <3>1, <3>3, <3>4
  <2>4. (p - 1) * d \in Int /\ (p - 1) * d < p * d
    BY <1>2, <1>9
  <2>5. \A i \in 1 .. total :
          visits'[i] = IF (start - 1) * d < i /\ i <= p * d THEN 1 ELSE 0
    BY <1>2, <1>9, <1>13, <2>1, <2>3, <2>4
  <2>6. start' = start /\ next = answer'.nextPage /\ start <= p
    BY <1>2, <1>13, <2>1, <2>2 DEF next
  <2> QED
    BY <1>2, <1>3, <1>5, <1>6, <1>8, <1>11, <1>13, <2>5, <2>6 DEF ReadInv
<1>14. CASE start # Null /\ way # "forth"
  <2>1. visits' = visits /\ start' = start
    BY <1>1, <1>2, <1>14
  <2>2. \A i \in 1 .. total : visits[i] = IF (start - 1) * d < i THEN 1 ELSE 0
    BY <1>14 DEF ReadInv, d
  <2> QED
    BY <1>2, <1>6, <1>8, <1>11, <1>14, <2>1, <2>2 DEF ReadInv
<1> QED
  BY <1>12, <1>13, <1>14

\* The reader turns round: there is no item beyond the last page.
LEMMA TurnRoundKeeps ==
  ASSUME Pages!ConstantsAssumption, ReadInv, Pages!TurnRound
  PROVE  ReadInv'
<1> DEFINE d == Pages!PerPage(asked)
<1>1. /\ total \in Nat /\ asked \in [page : Int \cup {Null}, perPage : Int \cup {Null}]
      /\ start # Null /\ way = "forth" /\ way' = "back" /\ asked.page = Null
      /\ asked' = [asked EXCEPT !.page = answer.prevPage]
      /\ UNCHANGED <<total, start, answer, visits>> /\ Null \notin Int
  BY DEF ReadInv, Asking, Pages!TurnRound, Pages!ConstantsAssumption
<1>2. /\ start \in Nat \ {0} /\ answer.page \in Nat \ {0} /\ answer.perPage = d
      /\ ~Pages!HasMore(answer.page, answer.perPage)
      /\ answer.prevPage = Pages!PrevPage(answer.page)
      /\ \A i \in 1 .. total :
           visits[i] = IF (start - 1) * d < i /\ i <= answer.page * d THEN 1 ELSE 0
  BY <1>1 DEF ReadInv, Asking
<1>3. d \in Nat \ {0}
  BY <1>1, Sizes
<1>4. answer.prevPage \in {Null} \cup (Nat \ {0})
  BY <1>2 DEF Pages!PrevPage
<1>5. /\ asked' \in [page : Int \cup {Null}, perPage : Int \cup {Null}]
      /\ asked'.page = answer.prevPage /\ asked'.perPage = asked.perPage
  BY <1>1, <1>4
<1>6. Pages!PerPage(asked)' = d
  BY <1>5 DEF Pages!PerPage
<1> HIDE DEF d
<1>7. total <= answer.page * d /\ answer.page * d \in Int
  BY <1>1, <1>2, <1>3, LastPage, Products DEF Pages!HasMore
<1>8. \A i \in 1 .. total : visits[i] = IF (start - 1) * d < i THEN 1 ELSE 0
  BY <1>1, <1>2, <1>7
<1>9. Asking'
  <2>1. Pages!HasMore(answer.page, answer.perPage)' = Pages!HasMore(answer.page, answer.perPage)
    BY <1>1 DEF Pages!HasMore
  <2> QED
    BY <1>1, <1>4, <1>5, <1>6, <2>1 DEF ReadInv, Asking, Pages!PrevPage, Pages!HasMore, d
<1> QED
  BY <1>1, <1>6, <1>8, <1>9 DEF ReadInv

\* A reader who is refused, or has come back, gets nothing.
LEMMA StopKeeps ==
  ASSUME ReadInv, Pages!Refused \/ Pages!Finish
  PROVE  ReadInv'
<1>1. /\ UNCHANGED <<total, asked, start, answer, visits>>
      /\ way' \in {"refused", "end"}
      /\ start = Null => way' = "refused"
      /\ start # Null => way # "forth"
  BY DEF ReadInv, Pages!Refused, Pages!Finish
<1>2. Asking'
  BY <1>1 DEF ReadInv, Asking, Pages!PerPage, Pages!HasMore, Pages!PrevPage
<1>3. Pages!PerPage(asked)' = Pages!PerPage(asked)
  BY <1>1
<1> QED
  BY <1>1, <1>2, <1>3 DEF ReadInv

\* Every step keeps it.
LEMMA ReadStep ==
  ASSUME Pages!ConstantsAssumption, ReadInv, [Pages!Next]_(Pages!vars)
  PROVE  ReadInv'
<1>1. CASE UNCHANGED Pages!vars
  <2>1. Asking'
    BY <1>1 DEF Pages!vars, ReadInv, Asking, Pages!PerPage, Pages!HasMore, Pages!PrevPage
  <2>2. Pages!PerPage(asked)' = Pages!PerPage(asked)
    BY <1>1 DEF Pages!vars
  <2> QED
    BY <1>1, <2>1, <2>2 DEF Pages!vars, ReadInv
<1> QED
  BY <1>1, GetPageKeeps, TurnRoundKeeps, StopKeeps DEF Pages!Next

\* Whoever follows nextPage to the end gets every item from the first page on, and
\* none of them twice.
THEOREM EveryItemRead ==
  ASSUME Pages!ConstantsAssumption
  PROVE  Pages!Spec => []EveryItemOnce
<1>1. Pages!Init => ReadInv
  BY ReadInit
<1>2. ReadInv /\ [Pages!Next]_(Pages!vars) => ReadInv'
  BY ReadStep
<1>3. ReadInv => EveryItemOnce
  <2> SUFFICES ASSUME ReadInv, way \in {"back", "end"}, NEW i \in 1 .. total
               PROVE  visits[i] = IF i > (start - 1) * answer.perPage THEN 1 ELSE 0
    BY DEF EveryItemOnce, Pages!EveryItemOnce
  <2>1. start # Null /\ answer.perPage = Pages!PerPage(asked) /\ start \in Nat
    BY DEF ReadInv, Asking
  <2>2. visits[i] = IF (start - 1) * answer.perPage < i THEN 1 ELSE 0
    BY <2>1 DEF ReadInv
  <2> QED
    BY <2>2
<1> QED
  BY <1>1, <1>2, <1>3, PTL DEF Pages!Spec

=============================================================================
