---------------------------- MODULE MCScheduling ----------------------------
(***************************************************************************)
(* Short days and weeks.  A behaviour is of one of four kinds:             *)
(*   one job    of any rhythm, registered at any time                      *)
(*   two jobs   of three rhythms, for half a week                          *)
(*   retry      callers of retry() with one to four retries                *)
(*   duration   a duration with up to two of each unit                     *)
(* retry() with no retries is left out: its countdown never ends.          *)
(***************************************************************************)
EXTENDS Scheduling

CONSTANT HalfWeek

VARIABLE kind

Rhythm(frequency, hours, time, day) ==
  [frequency |-> frequency, interval |-> hours,
   firstExecutionTime |-> time, firstExecutionDay |-> day]

\* That of BackupScheduledJob.
BackupRhythm == {Rhythm("everyWeek", 1, 1, 2)}

\* An hour, some hours, and a day from a given time on.
ShortRhythms ==
  {Rhythm("everyHour", 1, Null, Null), Rhythm("custom", 3, Null, Null),
   Rhythm("everyDay", 1, 0, 1)}

\* Also those of the jobs in the code: 24 hours from 01:00, and every week.
AllRhythms ==
  BackupRhythm \cup ShortRhythms \cup
    {Rhythm("custom", HoursPerDay, 1, Null), Rhythm("everyWeek", 1, 1, 0),
     Rhythm("everyWeek", 1, Null, 1)}

KindInit ==
  /\ kind \in {"one job", "two jobs", "retry", "duration"}
  /\ Schedule!Init /\ Tries!Init /\ Time!Init
  /\ kind # "retry" => \A c \in Callers : options[c] = 1

OneJob == \A i \in Registrations \ {1} : rhythm'[i] = Null

TwoJobs ==
  /\ hour' <= HalfWeek
  /\ \A i \in Registrations : rhythm'[i] \in ShortRhythms \cup {Null}

KindNext ==
  /\ kind' = kind
  /\ \/ kind = "one job" /\ Schedule!Next /\ OneJob /\ UNCHANGED <<retryVars, calculator>>
     \/ kind = "two jobs" /\ Schedule!Next /\ TwoJobs /\ UNCHANGED <<retryVars, calculator>>
     \/ kind = "retry" /\ Tries!Next /\ UNCHANGED <<jobVars, calculator>>
     \/ kind = "duration" /\ Time!Next /\ UNCHANGED <<jobVars, retryVars>>

KindSpec ==
  /\ KindInit /\ [][KindNext]_<<kind, jobVars, retryVars, calculator>>
  /\ \/ kind = "one job" /\ Schedule!Fairness
     \/ kind = "retry" /\ Tries!Fairness
     \/ kind \in {"two jobs", "duration"}

-----------------------------------------------------------------------------

\* Timers that were cleared run no job again; until then one job of one rhythm
\* runs if time goes on, while two are followed for half a week only.
JobsRunUntilCleared ==
  Schedule!ClearStopsTimers /\ (kind = "two jobs" \/ Schedule!EveryJobRuns)

\* retry() ends.
EveryCallerIsAnswered == kind # "retry" \/ Tries!EveryCallerIsAnswered

=============================================================================
