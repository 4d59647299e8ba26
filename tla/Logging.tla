------------------------------ MODULE Logging ------------------------------
(***************************************************************************)
(* What happens before and after a decorated method, and where its lines   *)
(* go: the decorators of @Log (Log) and of @Authorize (Auth), and the      *)
(* logger that writes files (Fs).  A behaviour is of one of these kinds:   *)
(*   calls      calls of methods with @Log                                 *)
(*   file       logs and clear(), with the memory cache or without         *)
(*   authorize  a call of a method with @Authorize                         *)
(***************************************************************************)
EXTENDS Naturals

CONSTANTS
  Methods, Calls, MethodOf, IdOf, RandomOf, Saving, None,
  Logs, Clears, maxLogsInMemoryCache, saveOld, Milliseconds, MaxFailures,
  Topics, Actions

VARIABLES
  kind,
  correlationId, at, writing, lines, overlapped, effect, lost,
  withMemCache, logsCache, file, saved, console, append, clear, failures, dropped,
  permission, session, outcome

callVars == <<correlationId, at, writing, lines, overlapped, effect, lost>>
logVars == <<withMemCache, logsCache, file, saved, console, append, clear, failures, dropped>>
sessionVars == <<permission, session, outcome>>
loggingVars == <<kind, callVars, logVars, sessionVars>>

Log == INSTANCE LogDecorator
Fs == INSTANCE FsLogger
Auth == INSTANCE Authorization

ASSUME LoggingAssumption ==
  Log!ConstantsAssumption /\ Fs!ConstantsAssumption /\ Auth!ConstantsAssumption

-----------------------------------------------------------------------------

\* At most two of the three credentials hold a permission.
Holds(credential) == credential \notin {None, {}}

LoggingInit ==
  /\ kind \in {"calls", "file", "authorize"}
  /\ Log!Init /\ Fs!Init /\ Auth!Init
  /\ kind # "file" => withMemCache
  /\ IF kind = "authorize"
     THEN ~(Holds(session.user) /\ Holds(session.client) /\ Holds(session.apiKey))
     ELSE session = Auth!NoSession /\ permission = <<"media", "read", "edit">>

\* Logs, and calls of clear(), are alike: they come in the order of their numbers.
InOrder ==
  /\ \A i, j \in Logs : i < j /\ append[j].pc # "new" => append[i].pc # "new"
  /\ \A i, j \in Clears : i < j /\ clear[j].pc # "new" => clear[i].pc # "new"

LoggingNext ==
  /\ kind' = kind
  /\ \/ kind = "calls" /\ Log!Next /\ UNCHANGED <<logVars, sessionVars>>
     \/ kind = "file" /\ Fs!Next /\ InOrder' /\ UNCHANGED <<callVars, sessionVars>>
     \/ kind = "authorize" /\ Auth!Next /\ UNCHANGED <<callVars, logVars>>

-----------------------------------------------------------------------------

\* The lines of a decorated call carry its id, unless another call of the method
\* overlapped it, and the log agrees with the answers but where the logger failed.
CallsAreLogged == Log!CallsAreLogged

\* The logger loses logs only at the moments it names, with and without the
\* memory cache.
LogsAreKept == Fs!TypeOK /\ Fs!LogsAreKept

\* The logger writes a full cache out.
FullCacheIsCommitted == Fs!FullCacheIsCommitted

\* A method with @Authorize is called for all covered permissions and no other.
ExactlyCoveredCallsPass == Auth!ExactlyCoveredCallsPass

-----------------------------------------------------------------------------
(* Values for the constants: three calls of one method, the last with no id *)

OneMethod == <<"method", "method", "method">>

TwoIds == <<"first", "second", None>>

Random == [m \in Methods |-> "random"]

=============================================================================
