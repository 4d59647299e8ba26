----------------------------- MODULE DataAccess -----------------------------
(***************************************************************************)
(* What stands between the components and the databases: transactional     *)
(* calls, and next to them the setting up of the data sources (Sources),   *)
(* the builder of queries (Query) and the reading page by page (Pages).    *)
(* They share no state: each instance has variables of its own here.       *)
(***************************************************************************)
EXTENDS Transactions, Integers

CONSTANTS
  Setups, MaxOutages,
  Fields, MaxNumber, MaxCalls,
  DefaultSize, MaxSize, MaxAsked, MaxTotal

VARIABLES
  missing, IsInitialized, connection, isOpen, up, at, pc, backups, overlapped, destroyed,
  outages,
  query, or, and, calls, wanted, again, ors, zero,
  version, total, asked, start, answer, way, visits

setupVars ==
  <<missing, IsInitialized, connection, isOpen, up, at, pc, backups, overlapped, destroyed,
    outages>>
queryVars == <<query, or, and, calls, wanted, again, ors, zero>>
pageVars == <<version, total, asked, start, answer, way, visits>>

Sources == INSTANCE Persistence WITH MaxFailures <- MaxOutages, failures <- outages

Query == INSTANCE QueryBuilder

Pages == INSTANCE Pagination WITH None <- Null

ASSUME PartsAssumption ==
  /\ Sources!ConstantsAssumption /\ Query!ConstantsAssumption /\ Pages!ConstantsAssumption

-----------------------------------------------------------------------------

\* Data sources: one backup job is registered, and health() tells the truth.
SourcesAreKnown == Sources!SourcesAreKnown

\* Queries find what satisfies their filters and miss nothing of it.
QueriesFindWhatIsWanted == Query!QueriesFindWhatIsWanted

\* Readers of either pagination get each item once.
EveryItemOnce == Pages!EveryItemOnce

=============================================================================
