------------------------------ MODULE FsLogger ------------------------------
(***************************************************************************)
(* The file system logger: a log is appended to the file at once, or, with *)
(* the memory cache, kept until there are enough of them; clear() starts   *)
(* the file anew, after saving a copy of it if it is asked to, under a     *)
(* name made of the millisecond in which clear() was called.  Callers and  *)
(* clear() interleave at their awaits, and the file system may fail.       *)
(***************************************************************************)
EXTENDS Naturals, Sequences, SequencesExt

CONSTANTS
  Logs,                   \* calls of info(), error() and warn()
  Clears,                 \* calls of clear()
  maxLogsInMemoryCache,
  saveOld,                \* what clear() may be asked to do with the old logs
  Milliseconds,           \* bound: when it may be called
  MaxFailures             \* bound: how often the file system fails

ConstantsAssumption ==
  /\ maxLogsInMemoryCache \in Nat \ {0}
  /\ saveOld \subseteq BOOLEAN
  /\ Milliseconds \subseteq Nat
  /\ MaxFailures \in Nat

VARIABLES
  withMemCache,  \* the option it was built with
  logsCache,   \* the logs in memory
  file,        \* the logs in the file
  saved,       \* saved[d]: the logs in the copy SAVED-AT-d, {} without one
  console,     \* the logs that were printed instead
  append,      \* append[l]: where the call that logs l is, and what it writes
  clear,       \* clear[k]: where that call of clear() is, what it writes, and
               \* the date it took when it was called
  failures,    \* history: how often the file system failed
  dropped      \* history: logs that nobody promised to keep (see below)

vars == <<withMemCache, logsCache, file, saved, console, append, clear, failures, dropped>>

New == [pc |-> "new", logs |-> <<>>]
Done == [pc |-> "done", logs |-> <<>>]

Init ==
  /\ withMemCache \in BOOLEAN
  /\ logsCache = <<>>
  /\ file = <<>>
  /\ saved = [d \in Milliseconds |-> {}]
  /\ console = {}
  /\ append = [l \in Logs |-> New]
  /\ clear = [k \in Clears |-> [pc |-> "new", logs |-> <<>>, date |-> 0]]
  /\ failures = 0
  /\ dropped = {}

CommitInFlight ==
  \/ \E l \in Logs : append[l].pc = "committing"
  \/ \E k \in Clears : clear[k].pc = "committing"

\* Between copying the file and starting it anew.
CopyTaken == \E k \in Clears : clear[k].pc = "truncating"

\* Mutant: the cache may have one log more.
CacheIsFull_OneMore(cache) == Len(cache) = maxLogsInMemoryCache + 1

CacheIsFull(cache) == Len(cache) = maxLogsInMemoryCache

\* A log is appended to the file, or pushed to the cache, which is committed
\* when it has reached its maximum.
info(l) ==
  /\ append[l].pc = "new"
  /\ IF withMemCache
     THEN LET cache == Append(logsCache, l) IN
          /\ logsCache' = cache
          /\ append' = [append EXCEPT ![l] =
               IF CacheIsFull(cache) THEN [pc |-> "committing", logs |-> cache] ELSE Done]
          /\ dropped' = IF CommitInFlight THEN dropped \cup {l} ELSE dropped
     ELSE /\ append' = [append EXCEPT ![l] = [pc |-> "appending", logs |-> <<l>>]]
          /\ UNCHANGED <<logsCache, dropped>>
  /\ UNCHANGED <<file, saved, console, clear, failures, withMemCache>>

\* The file has the logs, and the assignment after the await drops whatever is
\* in the cache by now.
WriteToFile(call) ==
  /\ file' = file \o call.logs
  /\ logsCache' = IF call.pc = "committing" THEN <<>> ELSE logsCache
  /\ dropped' = IF CopyTaken THEN dropped \cup ToSet(call.logs) ELSE dropped

Appended(l) ==
  /\ append[l].pc \in {"appending", "committing"}
  /\ WriteToFile(append[l])
  /\ append' = [append EXCEPT ![l] = Done]
  /\ UNCHANGED <<saved, console, clear, failures, withMemCache>>

\* The log that could not be written is printed; the cache stays as it is.
AppendFails(l) ==
  /\ append[l].pc \in {"appending", "committing"}
  /\ failures < MaxFailures
  /\ failures' = failures + 1
  /\ console' = console \cup {l}
  /\ append' = [append EXCEPT ![l] = Done]
  /\ UNCHANGED <<logsCache, file, saved, clear, dropped, withMemCache>>

\* clear() begins: it takes the date, and commits the cache if it is to save the
\* old logs, or forgets it otherwise.
Clear(k) ==
  /\ clear[k].pc = "new"
  /\ \E date \in Milliseconds :
       /\ \A j \in Clears : clear[j].date <= date
       /\ \/ /\ TRUE \in saveOld
             /\ clear' = [clear EXCEPT ![k] =
                  [pc |-> "committing", logs |-> logsCache, date |-> date]]
             /\ UNCHANGED <<logsCache, dropped>>
          \/ /\ FALSE \in saveOld
             /\ clear' = [clear EXCEPT ![k] =
                  [pc |-> "erasing", logs |-> <<>>, date |-> date]]
             /\ logsCache' = <<>>
             /\ dropped' = dropped \cup ToSet(logsCache)
  /\ UNCHANGED <<file, saved, console, append, failures, withMemCache>>

Committed(k) ==
  /\ clear[k].pc = "committing"
  /\ WriteToFile(clear[k])
  /\ clear' = [clear EXCEPT ![k].pc = "copying"]
  /\ UNCHANGED <<saved, console, append, failures, withMemCache>>

\* Mutant: there is no copy.
Copied_Not(k) ==
  /\ clear[k].pc = "copying"
  /\ clear' = [clear EXCEPT ![k].pc = "truncating"]
  /\ UNCHANGED <<logsCache, file, saved, console, append, failures, dropped, withMemCache>>

\* A copy that another clear() made in the same millisecond is overwritten.
Copied(k) ==
  /\ clear[k].pc = "copying"
  /\ saved' = [saved EXCEPT ![clear[k].date] = ToSet(file)]
  /\ dropped' = dropped \cup (saved[clear[k].date] \ ToSet(file))
  /\ clear' = [clear EXCEPT ![k].pc = "truncating"]
  /\ UNCHANGED <<logsCache, file, console, append, failures, withMemCache>>

EndClear(k) == clear' = [clear EXCEPT ![k].pc = "done", ![k].logs = <<>>]

Truncated(k) ==
  /\ clear[k].pc \in {"truncating", "erasing"}
  /\ file' = <<>>
  /\ dropped' = IF clear[k].pc = "erasing" THEN dropped \cup ToSet(file) ELSE dropped
  /\ EndClear(k)
  /\ UNCHANGED <<logsCache, saved, console, append, failures, withMemCache>>

\* One of its steps fails, and clear() with it.
ClearFails(k) ==
  /\ clear[k].pc \notin {"new", "done"}
  /\ failures < MaxFailures
  /\ failures' = failures + 1
  /\ EndClear(k)
  /\ UNCHANGED <<logsCache, file, saved, console, append, dropped, withMemCache>>

Next ==
  \/ \E l \in Logs : info(l) \/ Appended(l) \/ AppendFails(l)
  \/ \E k \in Clears : Clear(k) \/ Committed(k) \/ Copied(k) \/ Truncated(k) \/ ClearFails(k)

Spec == Init /\ [][Next]_vars

\* The file system answers.
Fairness == \A l \in Logs : WF_vars(Appended(l) \/ AppendFails(l))

-----------------------------------------------------------------------------
(* Properties                                                              *)

TypeOK ==
  /\ withMemCache \in BOOLEAN
  /\ logsCache \in Seq(Logs)
  /\ IsInjective(logsCache)
  /\ ~withMemCache => logsCache = <<>>
  /\ file \in Seq(Logs)
  /\ saved \in [Milliseconds -> SUBSET Logs]
  /\ console \subseteq Logs
  /\ append \in [Logs -> [pc : {"new", "appending", "committing", "done"}, logs : Seq(Logs)]]
  /\ clear \in [Clears -> [pc : {"new", "committing", "copying", "truncating", "erasing", "done"},
                           logs : Seq(Logs), date : {0} \cup Milliseconds]]
  /\ \A k \in Clears : clear[k].pc # "new" => clear[k].date \in Milliseconds
  /\ failures \in 0 .. MaxFailures
  /\ dropped \subseteq Logs

Saved == UNION {saved[d] : d \in Milliseconds}
Kept == ToSet(file) \cup Saved \cup console \cup ToSet(logsCache)

\* Of all logs only those are lost that came while a commit of the cache was in
\* flight, while clear() had copied the file and not yet emptied it, or before a
\* clear() that was not asked to save them; and those of a copy that another
\* clear() of the same millisecond put its own in the place of.
LogsAreKept ==
  \A l \in Logs : append[l].pc = "done" => l \in Kept \cup dropped

\* A cache that is full is written out, unless the file system fails: then its
\* length has passed the maximum and is never equal to it again.
FullCacheIsCommitted ==
  Len(logsCache) >= maxLogsInMemoryCache
    ~> Len(logsCache) < maxLogsInMemoryCache \/ failures > 0

=============================================================================
