---------------------------- MODULE Persistence ----------------------------
(***************************************************************************)
(* Setting up and tearing down the data sources: Setup() initializes one   *)
(* after the other, which connects it and registers the weekly backup of   *)
(* those that want one; Destroy() disconnects them in the same order.      *)
(*                                                                         *)
(* mongoose and the redis client are external: connecting takes a while    *)
(* and may fail.  The redis client says that it is open as soon as it      *)
(* starts to connect.  Both sources are made from the environment each     *)
(* time, before either is looked at: where it lacks the URL of one,        *)
(* Setup() and Destroy() throw.                                            *)
(***************************************************************************)
EXTENDS Naturals, Sequences

CONSTANTS
  Setups,        \* calls of Setup()
  MaxFailures    \* bound: how often connecting fails

ConstantsAssumption == MaxFailures \in Nat

Instances == <<"mongodb", "redis">>
Sources == {"mongodb", "redis"}

VARIABLES
  missing,         \* the sources whose URL the environment lacks; it does not change
  IsInitialized,   \* the flag of PersistenceInitializer
  connection,      \* MongodbPersistence holds a connection, which may be closed
  isOpen,          \* what the redis client says of itself
  up,              \* the sources that are in fact connected
  at,              \* at[p]: the instance that Setup() p is at
  pc,              \* pc[p]: whether it waits for a connection
  backups,         \* how many backup jobs were registered
  overlapped,      \* history: two Setup() were under way at once
  destroyed,       \* history: how often Destroy() was called, up to 1
  failures         \* history: how often connecting failed

vars == <<missing, IsInitialized, connection, isOpen, up, at, pc, backups, overlapped,
          destroyed, failures>>

Init ==
  /\ missing \in SUBSET Sources
  /\ IsInitialized = FALSE
  /\ connection = FALSE
  /\ isOpen = FALSE
  /\ up = {}
  /\ at = [p \in Setups |-> 1]
  /\ pc = [p \in Setups |-> "new"]
  /\ backups = 0
  /\ overlapped = FALSE
  /\ destroyed = 0
  /\ failures = 0

Source(p) == Instances[at[p]]

shouldBackup(s) == s = "mongodb"

\* connect() returns at once.
Connected(s) == IF s = "mongodb" THEN connection ELSE isOpen

\* Setup() throws before it begins.
SetupThrows(p) ==
  /\ pc[p] = "new"
  /\ missing # {}
  /\ pc' = [pc EXCEPT ![p] = "failed"]
  /\ UNCHANGED <<missing, IsInitialized, connection, isOpen, up, at, backups, overlapped,
                 destroyed, failures>>

\* Setup() begins, or begins with the next instance: Init() looks at the flag
\* and calls connect().
BeginInit(p) ==
  /\ pc[p] \in {"new", "next"}
  /\ missing = {}
  /\ at[p] <= Len(Instances)
  /\ overlapped' = (overlapped \/ \E q \in Setups \ {p} : pc[q] \notin {"new", "done", "failed"})
  /\ IF IsInitialized
     THEN at' = [at EXCEPT ![p] = @ + 1] /\ pc' = [pc EXCEPT ![p] = "next"] /\ UNCHANGED isOpen
     ELSE /\ pc' = [pc EXCEPT ![p] = IF Connected(Source(p)) THEN "connected" ELSE "connecting"]
          /\ isOpen' = (isOpen \/ Source(p) = "redis")
          /\ UNCHANGED at
  /\ UNCHANGED <<missing, IsInitialized, connection, up, backups, destroyed, failures>>

\* The connection is there.
Connect(p) ==
  /\ pc[p] = "connecting"
  /\ up' = up \cup {Source(p)}
  /\ connection' = (connection \/ Source(p) = "mongodb")
  /\ pc' = [pc EXCEPT ![p] = "connected"]
  /\ UNCHANGED <<missing, IsInitialized, isOpen, at, backups, overlapped, destroyed, failures>>

\* connect() throws, and Setup() with it.
ConnectFails(p) ==
  /\ pc[p] = "connecting"
  /\ failures < MaxFailures
  /\ failures' = failures + 1
  /\ isOpen' = (isOpen /\ Source(p) # "redis")
  /\ pc' = [pc EXCEPT ![p] = "failed"]
  /\ UNCHANGED <<missing, IsInitialized, connection, up, at, backups, overlapped, destroyed>>

\* Mutant: the flag is forgotten.
EndInit_NoFlag(p) ==
  /\ pc[p] = "connected"
  /\ backups' = IF shouldBackup(Source(p)) THEN backups + 1 ELSE backups
  /\ at' = [at EXCEPT ![p] = @ + 1]
  /\ pc' = [pc EXCEPT ![p] = "next"]
  /\ UNCHANGED <<missing, IsInitialized, connection, isOpen, up, overlapped, destroyed, failures>>

\* After connect(): the job is registered and the flag set.
EndInit(p) ==
  /\ pc[p] = "connected"
  /\ backups' = IF shouldBackup(Source(p)) THEN backups + 1 ELSE backups
  /\ IsInitialized' = TRUE
  /\ at' = [at EXCEPT ![p] = @ + 1]
  /\ pc' = [pc EXCEPT ![p] = "next"]
  /\ UNCHANGED <<missing, connection, isOpen, up, overlapped, destroyed, failures>>

EndSetup(p) ==
  /\ pc[p] = "next"
  /\ at[p] > Len(Instances)
  /\ pc' = [pc EXCEPT ![p] = "done"]
  /\ UNCHANGED <<missing, IsInitialized, connection, isOpen, up, at, backups, overlapped,
                 destroyed, failures>>

\* RedisPersistence.connect() called by itself, as the tests do.
ConnectRedis ==
  /\ \/ ~isOpen /\ isOpen' = TRUE /\ UNCHANGED up
     \/ isOpen /\ "redis" \notin up /\ up' = up \cup {"redis"} /\ UNCHANGED isOpen
  /\ UNCHANGED <<missing, IsInitialized, connection, at, pc, backups, overlapped, destroyed, failures>>

\* Destroy() throws, and leaves redis be, at a MongoDB that was never connected.
\* The connection of MongoDB is closed, not forgotten.
Destroy ==
  /\ destroyed = 0
  /\ missing = {} /\ connection
  /\ destroyed' = 1
  /\ up' = {} /\ isOpen' = FALSE
  /\ UNCHANGED <<missing, IsInitialized, connection, at, pc, backups, overlapped, failures>>

\* Mutant: the flag is taken for the state.
health_Flag(s) == IF s = "mongodb" THEN connection ELSE isOpen

\* What health() says.
health(s) == IF s = "mongodb" THEN connection /\ s \in up ELSE isOpen

Next ==
  \/ \E p \in Setups :
       SetupThrows(p) \/ BeginInit(p) \/ Connect(p) \/ ConnectFails(p) \/ EndInit(p) \/ EndSetup(p)
  \/ ConnectRedis
  \/ Destroy

Spec == Init /\ [][Next]_vars

-----------------------------------------------------------------------------
(* Properties                                                              *)

\* The MongoDB of a Setup() that succeeded was connected, and the backup job
\* is registered once, however often Setup() is called and fails; calls that
\* overlap register it more often, at most once each.  No Setup() succeeds where
\* the environment lacks the URL of a source.
BackupIsRegisteredOnce ==
  /\ ~overlapped => backups <= 1
  /\ (\E p \in Setups : pc[p] = "done") => backups >= 1
  /\ \A p \in Setups : pc[p] = "done" /\ destroyed = 0 => "mongodb" \in up
  /\ (\E p \in Setups : pc[p] = "done") => missing = {}

\* health() calls nothing down that is up, and MongoDB up only when it is; the
\* redis client counts as up while it is still connecting.
HealthIsTrue ==
  /\ \A s \in Sources : s \in up => health(s)
  /\ health("mongodb") => "mongodb" \in up

\* One backup job is registered, and health() tells the truth.
SourcesAreKnown == BackupIsRegisteredOnce /\ HealthIsTrue

=============================================================================
