------------------------------- MODULE Retry -------------------------------
(***************************************************************************)
(* retry(fn, { retries, delay }): fn is called until it succeeds, with a   *)
(* pause after each failure; the last of the calls is made outside the try *)
(* block, so that its failure is the caller's.  The recursion counts       *)
(* retries down to exactly 1.                                              *)
(***************************************************************************)
EXTENDS Integers

CONSTANTS
  Callers,
  RetryOptions, \* the values of options.retries
  Delay,     \* options.delay, in ticks
  MaxTried   \* bound: calls of fn are not counted beyond it

ConstantsAssumption ==
  /\ RetryOptions \subseteq Nat
  /\ Delay \in Nat \ {0}
  /\ MaxTried \in Nat /\ \A n \in RetryOptions : n <= MaxTried

VARIABLES
  options,  \* options[c]: the retries c asked for
  retries,  \* retries[c]: those left in the innermost call
  at,       \* at[c]: "call", "fn", "wait", "returned" or "threw"
  pause,    \* pause[c]: the ticks until the timer of wait() is due
  tried,    \* history: how often fn was called for c
  failed    \* history: ticks since fn failed for c, up to Delay

vars == <<options, retries, at, pause, tried, failed>>

Init ==
  /\ options \in [Callers -> RetryOptions]
  /\ retries = options
  /\ at = [c \in Callers |-> "call"]
  /\ pause = [c \in Callers |-> 0]
  /\ tried = [c \in Callers |-> 0]
  /\ failed = [c \in Callers |-> Delay]

\* Below 1 the count goes on down; as nothing but 1 is told apart, it stays 0.
Less(n) == IF n > 0 THEN n - 1 ELSE 0

\* fn is called.
retry(c) ==
  /\ at[c] = "call"
  /\ at' = [at EXCEPT ![c] = "fn"]
  /\ tried' = [tried EXCEPT ![c] = IF @ < MaxTried THEN @ + 1 ELSE @]
  /\ UNCHANGED <<options, retries, pause, failed>>

Succeeds(c) ==
  /\ at[c] = "fn"
  /\ at' = [at EXCEPT ![c] = "returned"]
  /\ UNCHANGED <<options, retries, pause, tried, failed>>

\* Mutant: there is one call less than asked for.
IsLast_Two(c) == retries[c] \in {1, 2}

IsLast(c) == retries[c] = 1

\* fn fails for the last time.
Fails(c) ==
  /\ at[c] = "fn"
  /\ IsLast(c)
  /\ at' = [at EXCEPT ![c] = "threw"]
  /\ UNCHANGED <<options, retries, pause, tried, failed>>

\* Mutant: the timer is not waited for.
FailsAndWaits_NoPause(c) ==
  /\ at[c] = "fn"
  /\ ~IsLast(c)
  /\ at' = [at EXCEPT ![c] = "wait"]
  /\ pause' = pause
  /\ failed' = [failed EXCEPT ![c] = 0]
  /\ UNCHANGED <<options, retries, tried>>

FailsAndWaits(c) ==
  /\ at[c] = "fn"
  /\ ~IsLast(c)
  /\ at' = [at EXCEPT ![c] = "wait"]
  /\ pause' = [pause EXCEPT ![c] = Delay]
  /\ failed' = [failed EXCEPT ![c] = 0]
  /\ UNCHANGED <<options, retries, tried>>

\* Mutant: the recursive call is given the same number of retries.
Again_Same(c) ==
  /\ at[c] = "wait"
  /\ pause[c] = 0
  /\ at' = [at EXCEPT ![c] = "call"]
  /\ UNCHANGED <<options, retries, pause, tried, failed>>

\* The pause is over: the recursive call.
Again(c) ==
  /\ at[c] = "wait"
  /\ pause[c] = 0
  /\ at' = [at EXCEPT ![c] = "call"]
  /\ retries' = [retries EXCEPT ![c] = Less(@)]
  /\ UNCHANGED <<options, pause, tried, failed>>

Tick ==
  /\ \E c \in Callers : pause[c] > 0
  /\ pause' = [c \in Callers |-> Less(pause[c])]
  /\ failed' = [c \in Callers |-> IF failed[c] < Delay THEN failed[c] + 1 ELSE failed[c]]
  /\ UNCHANGED <<options, retries, at, tried>>

Next ==
  \/ Tick
  \/ \E c \in Callers : retry(c) \/ Succeeds(c) \/ Fails(c) \/ FailsAndWaits(c) \/ Again(c)

Spec == Init /\ [][Next]_vars

\* fn settles each time, and time passes: nobody waits while others go on for
\* ever, as no caller takes more than a bounded number of steps.
Fairness == WF_vars(Next)

-----------------------------------------------------------------------------
(* Properties                                                              *)

\* The caller is given an error only after fn was called as often as asked for.
FailsAfterAllRetries == \A c \in Callers : at[c] = "threw" => tried[c] = options[c]

\* Between a failure and the next call of fn lies the whole delay.
CallsKeepTheDelay ==
  \A c \in Callers : at[c] = "call" => failed[c] = Delay

\* The two about the calls of fn.
AttemptsAreAsAsked == FailsAfterAllRetries /\ CallsKeepTheDelay

\* Every caller who asks for at least one try is answered one way or the other.
EveryCallerIsAnswered == \A c \in Callers : <>(at[c] \in {"returned", "threw"})

=============================================================================
