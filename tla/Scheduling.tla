----------------------------- MODULE Scheduling -----------------------------
(***************************************************************************)
(* The jobs scheduler (Schedule), and next to it the two helpers that      *)
(* count tries and time: retry() (Tries) and the time calculator (Time).   *)
(* They share no state: each instance has variables of its own here.       *)
(***************************************************************************)
EXTENDS Integers

CONSTANTS
  Registrations, Rhythms, Runs, maxRetries, HoursPerDay, DaysPerWeek, LastHour, Null,
  Callers, RetryOptions, Delay, MaxTried,
  MaxVal

VARIABLES
  hour, rhythm, timeout, interval, run, registered, started, cleared,
  options, retries, phase, pause, tried, failed,
  calculator

jobVars == <<hour, rhythm, timeout, interval, run, registered, started, cleared>>
retryVars == <<options, retries, phase, pause, tried, failed>>

Schedule == INSTANCE JobsScheduler WITH now <- hour, MaxTime <- LastHour
Tries == INSTANCE Retry WITH at <- phase
Time == INSTANCE TimeCalculator

ASSUME SchedulingAssumption ==
  /\ Schedule!ConstantsAssumption /\ Tries!ConstantsAssumption /\ Time!ConstantsAssumption

-----------------------------------------------------------------------------

\* Jobs run when they are due, with their rhythm, and are given up after their
\* retries.
RunsAreOnTime == Schedule!RunsAreOnTime

\* What README.md says of the backup: "every Friday at 01:00 PM"; a weekly job runs
\* on its day of the week.
RunsOnItsDay == Schedule!RunsOnItsDay

\* retry() gives up after as many tries as it was asked for, with the delay
\* between two of them.
AttemptsAreAsAsked == Tries!AttemptsAreAsAsked

\* Durations are as long in minutes as in seconds.
MinutesAndSecondsAgree == Time!MinutesAndSecondsAgree

=============================================================================
