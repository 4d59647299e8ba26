--------------------------- MODULE JobsScheduler ---------------------------
(***************************************************************************)
(* The in-memory jobs scheduler: register() computes from a job's rhythm   *)
(* when it runs first and how often then; a timeout runs it the first time *)
(* and starts an interval that runs it from then on, whether or not the    *)
(* previous run has ended.  A run that fails is repeated at once, up to    *)
(* the number of retries the job asks for.                                 *)
(*                                                                         *)
(* Time is counted in hours since the beginning of a week, and a timer     *)
(* fires in the hour it is due.  The handlers of timers have no await, a   *)
(* run consists of attempts that end whenever they do.                     *)
(***************************************************************************)
EXTENDS Integers, FiniteSets

CONSTANTS
  Registrations,   \* calls of register()
  Rhythms,         \* the rhythms of the jobs they register
  Runs,            \* bound: runs of jobs that are under way at once
  maxRetries,      \* what config().retry of the jobs says, 2 if they have none
  HoursPerDay,     \* 24
  DaysPerWeek,     \* 7
  MaxTime,         \* bound: the clock stops there
  Null

Days == 0 .. DaysPerWeek - 1
Hours == 0 .. HoursPerDay - 1

ConstantsAssumption ==
  /\ maxRetries \in Nat
  /\ HoursPerDay \in Nat \ {0}
  /\ DaysPerWeek \in Nat \ {0}
  /\ MaxTime \in Nat
  /\ Null \notin Int /\ Null \notin Rhythms
  /\ Rhythms \subseteq [frequency : {"everyHour", "everyDay", "everyWeek", "custom"},
                        interval : Nat \ {0},
                        firstExecutionTime : Hours \cup {Null},
                        firstExecutionDay : Days \cup {Null}]

VARIABLES
  now,
  rhythm,      \* rhythm[i]: that of the job the i-th register() registered
  timeout,     \* timeout[i]: when its timeout fires, Null if it does not
  interval,    \* interval[i]: when its interval fires next, Null if it does not
  run,         \* run[r]: which registration it runs, how often it failed
  registered,  \* history: registered[i]: when it was
  started,     \* history: started[i]: when timers ran it
  cleared      \* history: what was registered before the last clearJobs()

vars == <<now, rhythm, timeout, interval, run, registered, started, cleared>>

Never == [i \in Registrations |-> Null]

Init ==
  /\ now = 0
  /\ rhythm = Never
  /\ timeout = Never
  /\ interval = Never
  /\ run = [r \in Runs |-> Null]
  /\ registered = Never
  /\ started = [i \in Registrations |-> {}]
  /\ cleared = {}

Weekday(time) == (time \div HoursPerDay) % DaysPerWeek

\* How many hours are between two runs: a custom rhythm says it itself.
parseExecutionFrequency(rh) ==
  CASE rh.frequency = "everyHour" -> 1
    [] rh.frequency = "everyDay" -> HoursPerDay
    [] rh.frequency = "everyWeek" -> HoursPerDay * DaysPerWeek
    [] rh.frequency = "custom" -> rh.interval

\* Mutant: the day of today is looked for in the next week.
parseFirstExecutionDay_NextWeek(rh) ==
  IF rh.firstExecutionDay = Null THEN 0
  ELSE LET diff == rh.firstExecutionDay - Weekday(now) IN
       IF diff <= 0 THEN diff + DaysPerWeek ELSE diff

\* How many days it is to the day of the first run; 0 also if none was given.
parseFirstExecutionDay(rh) ==
  IF rh.firstExecutionDay = Null THEN 0
  ELSE LET diff == rh.firstExecutionDay - Weekday(now) IN
       IF diff < 0 THEN diff + DaysPerWeek ELSE diff

\* Mutant: a moment that is past is taken for now.
calculateFirstExecutionTimeout_Now(rh) ==
  LET date == (now \div HoursPerDay + parseFirstExecutionDay(rh)) * HoursPerDay
                + (IF rh.firstExecutionTime = Null THEN 0 ELSE rh.firstExecutionTime)
  IN IF date < now THEN 0 ELSE date - now

\* The hours until the first run.  The day of today counts as none at all when
\* there is no time; a moment that is past moves by a day.
calculateFirstExecutionTimeout(rh) ==
  LET day  == parseFirstExecutionDay(rh)
      time == IF rh.firstExecutionTime = Null THEN 0 ELSE rh.firstExecutionTime
      date == (now \div HoursPerDay + day) * HoursPerDay + time
  IN IF rh.firstExecutionTime = Null /\ day = 0 THEN 0
     ELSE IF date < now THEN date + HoursPerDay - now ELSE date - now

register(i, rh) ==
  /\ rhythm[i] = Null
  /\ rhythm' = [rhythm EXCEPT ![i] = rh]
  /\ timeout' = [timeout EXCEPT ![i] = now + calculateFirstExecutionTimeout(rh)]
  /\ registered' = [registered EXCEPT ![i] = now]
  /\ UNCHANGED <<now, interval, run, started, cleared>>

\* The first attempt of a run.
runner(i) ==
  /\ \E r \in Runs :
       /\ run[r] = Null
       /\ run' = [run EXCEPT ![r] = [of |-> i, failures |-> 0]]
  /\ started' = [started EXCEPT ![i] = @ \cup {now}]

\* The timeout fires, runs the job and sets the interval.
FirstExecution(i) ==
  /\ timeout[i] = now
  /\ runner(i)
  /\ timeout' = [timeout EXCEPT ![i] = Null]
  /\ interval' = [interval EXCEPT ![i] = now + parseExecutionFrequency(rhythm[i])]
  /\ UNCHANGED <<now, rhythm, registered, cleared>>

\* Mutant: the interval fires once.
NextExecution_Once(i) ==
  /\ interval[i] = now
  /\ runner(i)
  /\ interval' = [interval EXCEPT ![i] = Null]
  /\ UNCHANGED <<now, rhythm, timeout, registered, cleared>>

NextExecution(i) ==
  /\ interval[i] = now
  /\ runner(i)
  /\ interval' = [interval EXCEPT ![i] = now + parseExecutionFrequency(rhythm[i])]
  /\ UNCHANGED <<now, rhythm, timeout, registered, cleared>>

Succeed(r) ==
  /\ run[r] # Null
  /\ run' = [run EXCEPT ![r] = Null]
  /\ UNCHANGED <<now, rhythm, timeout, interval, registered, started, cleared>>

\* After so many failures there is one more attempt.
Retries(failures) == maxRetries # 0 /\ failures <= maxRetries

\* An attempt fails: the next one starts at once, or the run is given up.
Fail(r) ==
  /\ run[r] # Null
  /\ run' = [run EXCEPT ![r] = IF Retries(run[r].failures + 1)
                               THEN [run[r] EXCEPT !.failures = @ + 1] ELSE Null]
  /\ UNCHANGED <<now, rhythm, timeout, interval, registered, started, cleared>>

\* Mutant: only the intervals are cleared.
clearJobs_Intervals ==
  /\ interval' = Never
  /\ cleared' = {i \in Registrations : rhythm[i] # Null}
  /\ UNCHANGED <<now, rhythm, timeout, run, registered, started>>

\* All timers are cleared; runs under way, and their retries, go on.
clearJobs ==
  /\ interval' = Never
  /\ timeout' = Never
  /\ cleared' = {i \in Registrations : rhythm[i] # Null}
  /\ UNCHANGED <<now, rhythm, run, registered, started>>

Tick ==
  /\ now < MaxTime
  /\ \A i \in Registrations : timeout[i] # now /\ interval[i] # now
  /\ now' = now + 1
  /\ UNCHANGED <<rhythm, timeout, interval, run, registered, started, cleared>>

Next ==
  \/ \E i \in Registrations :
       \/ \E rh \in Rhythms : register(i, rh)
       \/ FirstExecution(i)
       \/ NextExecution(i)
  \/ \E r \in Runs : Succeed(r) \/ Fail(r)
  \/ clearJobs
  \/ Tick

Spec == Init /\ [][Next]_vars

\* Attempts end, timers fire and time goes on.
Fairness ==
  /\ \A r \in Runs : WF_vars(Succeed(r) \/ Fail(r))
  /\ \A i \in Registrations : SF_vars(FirstExecution(i)) /\ SF_vars(NextExecution(i))
  /\ WF_vars(Tick)

-----------------------------------------------------------------------------
(* Properties                                                              *)

Times == 0 .. MaxTime

TypeOK ==
  /\ now \in Times
  /\ \A i \in Registrations :
       /\ rhythm[i] \in Rhythms \cup {Null}
       /\ timeout[i] = Null \/ timeout[i] - now \in 0 .. HoursPerDay * DaysPerWeek - 1
       /\ interval[i] = Null \/ interval[i] - now \in 0 .. parseExecutionFrequency(rhythm[i])
       /\ timeout[i] = Null \/ interval[i] = Null
       /\ registered[i] \in Times \cup {Null}
       /\ started[i] \subseteq Times
  /\ run \in [Runs -> [of : Registrations, failures : 0 .. maxRetries] \cup {Null}]
  /\ cleared \subseteq Registrations

\* A moment at which a job of this rhythm may run for the first time.
Due(rh, time) ==
  /\ rh.firstExecutionTime \in {Null, time % HoursPerDay}
  /\ rh.firstExecutionDay \in {Null, Weekday(time)}

\* It was registered on its day, but after its time.
Missed(i) ==
  /\ rhythm[i].firstExecutionDay = Weekday(registered[i])
  /\ rhythm[i].firstExecutionTime # Null
  /\ rhythm[i].firstExecutionTime < registered[i] % HoursPerDay

\* Unless it missed its moment that day, a job runs at the first moment its
\* rhythm names, whatever the moment it is registered at.
FirstRunIsDue ==
  \A i \in Registrations : \A t \in started[i] :
    (\A u \in started[i] : t <= u) /\ ~Missed(i) =>
      /\ Due(rhythm[i], t)
      /\ \A u \in registered[i] .. t - 1 : ~Due(rhythm[i], u)

\* From its first run on a job is run after every interval, and never in
\* between, until the timers are cleared: daily jobs always at the hour of the
\* first run, weekly ones on its weekday too.
RunsKeepTheRhythm ==
  \A i \in Registrations : \A t \in started[i] :
    LET length == parseExecutionFrequency(rhythm[i]) IN
    /\ t + length < now /\ i \notin cleared => t + length \in started[i]
    /\ \A u \in started[i] :
         /\ u > t => u >= t + length
         /\ rhythm[i].frequency \in {"everyDay", "everyWeek"} => (u - t) % HoursPerDay = 0
         /\ rhythm[i].frequency = "everyWeek" => Weekday(u) = Weekday(t)

\* The two, of variables that keep their types: jobs run first when they are due,
\* and then in their rhythm.
RunsAreOnTime == TypeOK /\ FirstRunIsDue /\ RunsKeepTheRhythm

\* Timers that clearJobs() cleared never run a job again.
ClearStopsTimers ==
  [][\A i \in cleared : i \in cleared' /\ started'[i] = started[i]]_vars

\* A job that is registered runs within a week, unless the timers are cleared.
EveryJobRuns ==
  \A i \in Registrations :
    registered[i] # Null /\ registered[i] + HoursPerDay * DaysPerWeek <= MaxTime
      ~> started[i] # {} \/ i \in cleared

\* What the README says of the backup job: "every Friday".
RunsOnItsDay ==
  \A i \in Registrations : \A t \in started[i] :
    rhythm[i].frequency = "everyWeek" => rhythm[i].firstExecutionDay \in {Null, Weekday(t)}

=============================================================================
