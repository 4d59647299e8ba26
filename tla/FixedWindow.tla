---------------------------- MODULE FixedWindow ----------------------------
(***************************************************************************)
(* The fixed window algorithm: per user and token one redis counter for    *)
(* every second, minute, hour and day.  request() adds its score to the    *)
(* counters of the windows it falls in, gives each a time to live, and     *)
(* takes the score off again, counter by counter, if one is beyond its     *)
(* limit.  Each command is a step of its own: the commands of other calls, *)
(* and time, come between them.                                            *)
(*                                                                         *)
(* The counters of different keys have nothing to do with each other: the  *)
(* module is about the counters of one user and token.                     *)
(***************************************************************************)
EXTENDS Integers, Sequences, FiniteSetsExt

CONSTANTS
  Slots,        \* calls of request() that may be under way at once
  Scores,       \* what a request may cost
  Length,       \* Length[w]: how many ticks the w-th window is long
  Limit,        \* Limit[w]: what may be consumed in one of them
  Second,       \* how many ticks a counter outlives its window's length
  MaxTime,      \* bound: the clock stops there
  MaxFailures   \* bound: how often redis fails

Windows == 1 .. Len(Length)

ConstantsAssumption ==
  /\ IsFiniteSet(Slots)
  /\ IsFiniteSet(Scores) /\ Scores \subseteq Nat \ {0}
  /\ Length \in Seq(Nat \ {0}) /\ Length # <<>>
  /\ Limit \in [Windows -> Nat]
  /\ Second \in Nat \ {0}
  /\ MaxTime \in Nat
  /\ MaxFailures \in Nat

N == Len(Length)
Buckets == 0 .. MaxTime
Never == -1
Gone == -2

VARIABLES
  now,        \* the clock
  counter,    \* counter[w][b]: the redis counter of the b-th window of length
              \* Length[w]; one that does not exist counts as zero
  deadline,   \* deadline[w][b]: when it expires, if it exists
  call,       \* call[p]: when it began, its score, its next command (none: 0)
              \* and whether an answer was over a limit
  admitted,   \* history: the scores accepted before their window was over by
              \* more than a Second
  failures    \* history: how often redis failed

vars == <<now, counter, deadline, call, admitted, failures>>

Calls == [at : Buckets, score : Scores \cup {0}, step : 0 .. 3 * N, over : BOOLEAN]

Idle == [at |-> 0, score |-> 0, step |-> 0, over |-> FALSE]

Zero == [w \in Windows |-> [b \in Buckets |-> 0]]

Init ==
  /\ now = 0
  /\ counter = Zero
  /\ deadline = [w \in Windows |-> [b \in Buckets |-> Gone]]
  /\ call = [p \in Slots |-> Idle]
  /\ admitted = Zero
  /\ failures = 0

\* The window that a time is in.
Bucket(w, time) == time \div Length[w]

\* What the counter of w holds for the bucket p began in.
Mine(p, w) == counter[w][Bucket(w, call[p].at)]

\* incrBy and decrBy create a counter that does not exist.
Add(p, w, score) ==
  /\ counter' = [counter EXCEPT ![w][Bucket(w, call[p].at)] = @ + score]
  /\ deadline' = [deadline EXCEPT ![w][Bucket(w, call[p].at)] = IF @ = Gone THEN Never ELSE @]

request(p, score) ==
  /\ call[p].step = 0
  /\ call' = [call EXCEPT ![p] = [at |-> now, score |-> score, step |-> 1, over |-> FALSE]]
  /\ UNCHANGED <<now, counter, deadline, admitted, failures>>

\* Mutant: only the last answer is looked at.
IncrBy_Last(p) ==
  \E w \in Windows :
    /\ call[p].step = w
    /\ Add(p, w, call[p].score)
    /\ call' = [call EXCEPT ![p].step = w + 1, ![p].over = Mine(p, w) + call[p].score > Limit[w]]
    /\ UNCHANGED <<now, admitted, failures>>

\* Mutant: a request that is refused gives its counters no time to live.
IncrBy_NoExpire(p) ==
  \E w \in Windows :
    /\ call[p].step = w
    /\ Add(p, w, call[p].score)
    /\ LET over == call[p].over \/ Mine(p, w) + call[p].score > Limit[w] IN
       call' = [call EXCEPT ![p].step = IF w = N /\ over THEN 2 * N + 1 ELSE w + 1,
                            ![p].over = over]
    /\ UNCHANGED <<now, admitted, failures>>

\* incrBy answers what the counter holds after it.
IncrBy(p) ==
  \E w \in Windows :
    /\ call[p].step = w
    /\ Add(p, w, call[p].score)
    /\ call' = [call EXCEPT ![p].step = w + 1,
                            ![p].over = @ \/ Mine(p, w) + call[p].score > Limit[w]]
    /\ UNCHANGED <<now, admitted, failures>>

\* Until a second after its end no counter of a window expires.
End(w, b) == (b + 1) * Length[w] + Second
Live(w, b) == now < End(w, b)

\* The last expire is followed by the answer of an accepted request.
Answer(p) ==
  IF call[p].step = 2 * N /\ ~call[p].over
  THEN /\ call' = [call EXCEPT ![p] = Idle]
       /\ admitted' = [w \in Windows |->
            IF Live(w, Bucket(w, call[p].at))
            THEN [admitted[w] EXCEPT ![Bucket(w, call[p].at)] = @ + call[p].score]
            ELSE admitted[w]]
  ELSE /\ call' = [call EXCEPT ![p].step = @ + 1]
       /\ UNCHANGED admitted

\* Mutant: every counter lives as long as the first.
TimeToLive_First(w) == Length[1] + Second

TimeToLive(w) == Length[w] + Second

\* expire does nothing to a counter that does not exist.
Expire(p) ==
  \E w \in Windows :
    /\ call[p].step = N + w
    /\ deadline' = [deadline EXCEPT ![w][Bucket(w, call[p].at)] =
                      IF @ = Gone THEN Gone ELSE now + TimeToLive(w)]
    /\ Answer(p)
    /\ UNCHANGED <<now, counter, failures>>

\* Mutant: the last counter is forgotten.
DecrBy_ButLast(p) ==
  \E w \in Windows :
    /\ call[p].step = 2 * N + w
    /\ IF w = N THEN UNCHANGED <<counter, deadline>> ELSE Add(p, w, -call[p].score)
    /\ call' = [call EXCEPT ![p] = IF w = N THEN Idle ELSE [call[p] EXCEPT !.step = @ + 1]]
    /\ UNCHANGED <<now, admitted, failures>>

\* A refused request takes its score off again.
DecrBy(p) ==
  \E w \in Windows :
    /\ call[p].step = 2 * N + w
    /\ Add(p, w, -call[p].score)
    /\ call' = [call EXCEPT ![p] = IF w = N THEN Idle ELSE [call[p] EXCEPT !.step = @ + 1]]
    /\ UNCHANGED <<now, admitted, failures>>

\* A command fails, and the call with it: what it added stays.
Fail(p) ==
  /\ call[p].step # 0
  /\ failures < MaxFailures
  /\ failures' = failures + 1
  /\ call' = [call EXCEPT ![p] = Idle]
  /\ UNCHANGED <<now, counter, deadline, admitted>>

\* Time passes, and redis drops the counters whose time has come.
Tick ==
  /\ now < MaxTime
  /\ now' = now + 1
  /\ counter' = [w \in Windows |-> [b \in Buckets |->
                   IF deadline[w][b] = now' THEN 0 ELSE counter[w][b]]]
  /\ deadline' = [w \in Windows |-> [b \in Buckets |->
                   IF deadline[w][b] = now' THEN Gone ELSE deadline[w][b]]]
  /\ UNCHANGED <<call, admitted, failures>>

\* What a quota() that was called at a time answers for a window when it gets its
\* counter: that of the window which was current at the call.
quota(w, began) == Limit[w] - counter[w][Bucket(w, began)]

Next ==
  \/ \E p \in Slots :
       \/ \E score \in Scores : request(p, score)
       \/ IncrBy(p)
       \/ Expire(p)
       \/ DecrBy(p)
       \/ Fail(p)
  \/ Tick

Spec == Init /\ [][Next]_vars

-----------------------------------------------------------------------------
(* Properties                                                              *)

TypeOK ==
  /\ now \in 0 .. MaxTime
  /\ counter \in [Windows -> [Buckets -> Int]]
  /\ deadline \in [Windows -> [Buckets -> Int]]
  /\ \A w \in Windows, b \in Buckets :
       deadline[w][b] \in now + 1 .. now + TimeToLive(w) \cup {Never, Gone}
  /\ call \in [Slots -> Calls]
  /\ admitted \in [Windows -> [Buckets -> Nat]]
  /\ failures \in 0 .. MaxFailures

\* What the calls under way have added to a counter and not taken off yet.
Added(w, b) ==
  [p \in Slots |->
     IF call[p].step \in w + 1 .. 2 * N + w /\ Bucket(w, call[p].at) = b THEN call[p].score ELSE 0]

InFlight(w, b) == MapThenSumSet(LAMBDA p : Added(w, b)[p], Slots)

\* However the commands of requests interleave, no window accepts more than its
\* limit, not even when request() answers up to a second after it ended.
RejectsBeyondLimit == \A w \in Windows, b \in Buckets : admitted[w][b] <= Limit[w]

\* Until a second after the end of a window its counter holds what was accepted
\* and what is under way; a refused request costs nothing unless redis failed.
CounterIsAccounted ==
  \A w \in Windows, b \in Buckets :
    Live(w, b) =>
      /\ counter[w][b] >= admitted[w][b] + InFlight(w, b)
      /\ failures = 0 => counter[w][b] = admitted[w][b] + InFlight(w, b)

\* quota() promises at most what is left of the window it was called in, up to a
\* second after that has ended, so that nobody is refused who asked before: it may
\* be less, even negative, for requests that are about to be refused.
QuotaIsNotOverstated ==
  \A w \in Windows, began \in 0 .. now :
    Live(w, Bucket(w, began)) => quota(w, began) <= Limit[w] - admitted[w][Bucket(w, began)]

\* A decrBy that comes after its counter expired leaves one that never expires.
\* Unless redis failed that only happens to windows that are over and read by
\* nobody: any other counter has a time to live or is about to get one.
OnlyPastCountersStay ==
  failures = 0 =>
    \A w \in Windows, b \in Buckets :
      deadline[w][b] = Never /\ Live(w, b) =>
        \E p \in Slots : Bucket(w, call[p].at) = b /\ call[p].step \in w + 1 .. N + w

\* No interleaving of requests accepts more than a limit; a counter holds what was
\* accepted and what is under way, so that quota() never promises too much; and
\* none that is still read stays without a time to live.
CountersAreAccounted ==
  /\ TypeOK
  /\ RejectsBeyondLimit
  /\ CounterIsAccounted
  /\ QuotaIsNotOverstated
  /\ OnlyPastCountersStay

=============================================================================
