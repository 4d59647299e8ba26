--------------------------- MODULE SlidingWindow ---------------------------
(***************************************************************************)
(* The sliding window algorithm: per user and token one redis sorted set   *)
(* for the last second, minute, hour and day.  request() drops the members *)
(* that are too old, adds itself, sums up what is left and renews the time *)
(* to live, one set after the other; each command is a step of its own, so *)
(* that the commands of other calls and time come between them.  One that  *)
(* fails fails the call, and what it added stays.                          *)
(*                                                                         *)
(* A member is "now:score" with now as its score in the set: here the pair *)
(* of the two.  The sets of different keys are independent, the module is  *)
(* about those of one user and token.                                      *)
(***************************************************************************)
EXTENDS Integers, Sequences, FiniteSetsExt

CONSTANTS
  Slots,     \* calls that may be under way at once
  Scores,    \* what a request may cost
  Length,    \* Length[w]: how many ticks the w-th window is long
  Limit,     \* Limit[w]: what may be consumed in one of them
  Second,    \* how many ticks a set outlives its window's length
  MaxTime,   \* bound: the clock stops there
  MaxCalls,  \* bound: how many calls are ever made
  MaxFailures  \* bound: how often redis fails

Windows == 1 .. Len(Length)

ConstantsAssumption ==
  /\ IsFiniteSet(Slots)
  /\ IsFiniteSet(Scores) /\ Scores # {} /\ Scores \subseteq Nat \ {0}
  /\ Length \in Seq(Nat \ {0}) /\ Length # <<>>
  /\ Limit \in [Windows -> Nat]
  /\ Second \in Nat \ {0}
  /\ MaxTime \in Nat /\ \A score \in Scores : score <= MaxTime
  /\ MaxCalls \in Nat /\ MaxFailures \in Nat

N == Len(Length)

\* The clock is far beyond every score, as the milliseconds since 1970 are.
Start == Max(Scores)
Times == Start .. MaxTime
Members == Times \X Scores
Never == MaxTime + Second + Max({Length[w] : w \in Windows}) + 1

VARIABLES
  now,        \* the clock
  members,    \* members[w]: the sorted set of the w-th window
  deadline,   \* deadline[w]: when it expires
  call,       \* call[p]: what it is, when it began, its score, the window it
              \* is at, its next command there, whether a sum was over a limit
  told,       \* told[p][w]: what quota() found to be left
  made,       \* how many calls were made
  admitted,   \* history: admitted[m]: how many requests with the member m were
              \* accepted
  lost,       \* history: lost[w]: members that expired with their set although
              \* they were not too old
  stranded,   \* history: stranded[w]: members whose request failed before it
              \* renewed the time to live of the set, as none has since
  failures    \* history: how often redis failed

vars == <<now, members, deadline, call, told, made, admitted, lost, stranded, failures>>

Idle == [kind |-> "idle", at |-> Start, score |-> 0, window |-> 1, cmd |-> "rem", over |-> FALSE]

Init ==
  /\ now = Start
  /\ members = [w \in Windows |-> {}]
  /\ deadline = [w \in Windows |-> Never]
  /\ call = [p \in Slots |-> Idle]
  /\ told = [p \in Slots |-> [w \in Windows |-> 0]]
  /\ made = 0
  /\ admitted = [m \in Members |-> 0]
  /\ lost = [w \in Windows |-> {}]
  /\ stranded = [w \in Windows |-> {}]
  /\ failures = 0

\* What members sum up to, by their scores or by the times they begin with.
TotalOf(f, S) == MapThenSumSet(LAMBDA m : f[m], S)
Sum(S) == TotalOf([m \in Members |-> m[2]], S)
SumOfTimes(S) == TotalOf([m \in Members |-> m[1]], S)

\* The members that have left a window at a time.
TooOld(w, time) == {m \in Members : m[1] <= time - Length[w]}

At(p, kind, cmd) == call[p].kind = kind /\ call[p].cmd = cmd

\* The call goes on with the next window, or is over with the last one.
NextWindow(p, cmd, last) ==
  call' = [call EXCEPT ![p] = IF call[p].window = N THEN last
                              ELSE [call[p] EXCEPT !.window = @ + 1, !.cmd = cmd]]

request(p, score) ==
  /\ call[p] = Idle
  /\ made < MaxCalls
  /\ made' = made + 1
  /\ call' = [call EXCEPT ![p] = [Idle EXCEPT !.kind = "request", !.at = now, !.score = score]]
  /\ UNCHANGED <<now, members, deadline, told, admitted, lost, stranded, failures>>

quota(p) ==
  /\ call[p] = Idle
  /\ made < MaxCalls
  /\ made' = made + 1
  /\ call' = [call EXCEPT ![p] = [Idle EXCEPT !.kind = "quota", !.at = now]]
  /\ UNCHANGED <<now, members, deadline, told, admitted, lost, stranded, failures>>

\* zRemRangeByScore: quota() does so for all windows before it reads one.
\* A set without members does not exist, and has no time to live.
Rem(p) ==
  \E w \in {call[p].window} :
    /\ call[p].kind # "idle" /\ call[p].cmd = "rem"
    /\ members' = [members EXCEPT ![w] = @ \ TooOld(w, call[p].at)]
    /\ deadline' = IF members'[w] = {} THEN [deadline EXCEPT ![w] = Never] ELSE deadline
    /\ IF call[p].kind = "quota"
       THEN NextWindow(p, "rem", [call[p] EXCEPT !.window = 1, !.cmd = "range"])
       ELSE call' = [call EXCEPT ![p].cmd = "add"]
    /\ UNCHANGED <<now, told, made, admitted, lost, stranded, failures>>

\* zAdd: a member that is there already is not added again.
Add(p) ==
  /\ At(p, "request", "add")
  /\ members' = [members EXCEPT ![call[p].window] = @ \cup {<<call[p].at, call[p].score>>}]
  /\ call' = [call EXCEPT ![p].cmd = "range"]
  /\ UNCHANGED <<now, deadline, told, made, admitted, lost, stranded, failures>>

\* Mutant: a sum over the limit is forgotten at the next window.
SumUp_Last(p) ==
  \E w \in {call[p].window} :
    /\ At(p, "request", "range")
    /\ call' = [call EXCEPT ![p].cmd = "expire", ![p].over = Sum(members[w]) > Limit[w]]
    /\ UNCHANGED <<now, members, deadline, told, made, admitted, lost, stranded, failures>>

\* zRangeByScore: the whole set, whose scores request() sums up.
SumUp(p) ==
  \E w \in {call[p].window} :
    /\ At(p, "request", "range")
    /\ call' = [call EXCEPT ![p].cmd = "expire", ![p].over = @ \/ Sum(members[w]) > Limit[w]]
    /\ UNCHANGED <<now, members, deadline, told, made, admitted, lost, stranded, failures>>

\* Mutant: what the scores leave.
QuotaRange_All(p) ==
  \E w \in {call[p].window} :
    /\ At(p, "quota", "range")
    /\ told' = [told EXCEPT ![p][w] = Limit[w]]
    /\ NextWindow(p, "range", Idle)
    /\ UNCHANGED <<now, members, deadline, made, admitted, lost, stranded, failures>>

\* quota() takes the number a member begins with, which is its time.
QuotaRange(p) ==
  \E w \in {call[p].window} :
    /\ At(p, "quota", "range")
    /\ told' = [told EXCEPT ![p][w] = Limit[w] - SumOfTimes(members[w])]
    /\ NextWindow(p, "range", Idle)
    /\ UNCHANGED <<now, members, deadline, made, admitted, lost, stranded, failures>>

\* Mutant: a set lives no longer than its window is long.
TimeToLive_Short(w) == Length[w] - 1

TimeToLive(w) == Length[w] + Second

\* Mutant: a refused request does not renew the time to live.
Expire_AcceptedOnly(p) ==
  \E w \in {call[p].window} :
    /\ At(p, "request", "expire")
    /\ deadline' = [deadline EXCEPT ![w] = IF call[p].over THEN @ ELSE now + TimeToLive(w)]
    /\ NextWindow(p, "rem", Idle)
    /\ admitted' = IF w < N \/ call[p].over THEN admitted
                   ELSE [admitted EXCEPT ![<<call[p].at, call[p].score>>] = @ + 1]
    /\ stranded' = [stranded EXCEPT ![w] = {}]
    /\ UNCHANGED <<now, members, told, made, lost, failures>>

\* expire, and after the last one the answer.  The range from now up to, but
\* not including, now is empty: a refused request stays in every set.
Expire(p) ==
  \E w \in {call[p].window} :
    /\ At(p, "request", "expire")
    /\ deadline' = [deadline EXCEPT ![w] = IF members[w] = {} THEN Never ELSE now + TimeToLive(w)]
    /\ NextWindow(p, "rem", Idle)
    /\ admitted' = IF w < N \/ call[p].over THEN admitted
                   ELSE [admitted EXCEPT ![<<call[p].at, call[p].score>>] = @ + 1]
    /\ stranded' = [stranded EXCEPT ![w] = {}]
    /\ UNCHANGED <<now, members, told, made, lost, failures>>

\* The member that a request adds to every set.
Mine(p) == <<call[p].at, call[p].score>>

\* Whether a request has added it to the set of a window whose time to live it is
\* about to renew.
Renewing(p, w) ==
  call[p].kind = "request" /\ call[p].window = w /\ call[p].cmd \in {"range", "expire"}

\* A command fails, and the call with it.
Fail(p) ==
  /\ call[p] # Idle
  /\ failures < MaxFailures
  /\ failures' = failures + 1
  /\ call' = [call EXCEPT ![p] = Idle]
  /\ stranded' = [w \in Windows |->
                    IF Renewing(p, w) THEN stranded[w] \cup {Mine(p)} ELSE stranded[w]]
  /\ UNCHANGED <<now, members, deadline, told, made, admitted, lost>>

\* Time passes, and redis drops the sets whose time has come.
Tick ==
  /\ now < MaxTime
  /\ now' = now + 1
  /\ LET Due == {w \in Windows : deadline[w] = now'} IN
     /\ members' = [w \in Windows |-> IF w \in Due THEN {} ELSE members[w]]
     /\ deadline' = [w \in Windows |-> IF w \in Due THEN Never ELSE deadline[w]]
     /\ lost' = [w \in Windows |->
                   IF w \in Due THEN lost[w] \cup (members[w] \ TooOld(w, now')) ELSE lost[w]]
  /\ UNCHANGED <<call, told, made, admitted, stranded, failures>>

Next ==
  \/ \E p \in Slots :
       \/ \E score \in Scores : request(p, score)
       \/ quota(p)
       \/ Rem(p) \/ Add(p) \/ SumUp(p) \/ QuotaRange(p) \/ Expire(p) \/ Fail(p)
  \/ Tick

Spec == Init /\ [][Next]_vars

-----------------------------------------------------------------------------
(* Properties                                                              *)

TypeOK ==
  /\ now \in Times
  /\ members \in [Windows -> SUBSET Members]
  /\ lost \in [Windows -> SUBSET Members]
  /\ stranded \in [Windows -> SUBSET Members] /\ failures \in 0 .. MaxFailures
  /\ deadline \in [Windows -> Nat]
  /\ \A w \in Windows : deadline[w] \in (now + 1 .. now + TimeToLive(w)) \cup {Never}
  /\ call \in [Slots -> [kind : {"idle", "request", "quota"}, at : Times, score : Scores \cup {0},
                         window : Windows, cmd : {"rem", "add", "range", "expire"}, over : BOOLEAN]]
  /\ told \in [Slots -> [Windows -> Int]]
  /\ made \in 0 .. MaxCalls
  /\ admitted \in [Members -> Nat]

\* The members of the accepted requests that a window reaches back to.
Accepted(w, time) == {m \in Members : admitted[m] > 0} \ TooOld(w, time)

\* However the commands of requests interleave and fail: of the members a window reaches
\* back to, those of accepted requests stay within the limit, as long as the set
\* did not expire under them.  Requests of one time and score are one member.
MembersStayWithinLimit ==
  \A w \in Windows : Sum(Accepted(w, now) \ lost[w]) <= Limit[w]

\* A set does not expire under a member that is young enough to count, except
\* under one whose request has not renewed the time to live yet or failed before
\* it did.
OnlyNewMembersAreLost ==
  [][\A w \in Windows : \A m \in lost'[w] \ lost[w] :
       m \in stranded[w] \/ \E p \in Slots : Renewing(p, w) /\ m = Mine(p)]_vars

\* A set stays in redis for ever only where requests failed: a member of one that
\* has no time to live is of a request that is about to give it one, or of one that
\* failed just before, with none after it that did.
EverySetExpires ==
  \A w \in Windows : \A m \in members[w] :
    deadline[w] = Never =>
      m \in stranded[w] \/ \E p \in Slots : Renewing(p, w) /\ m = Mine(p)

\* The three, of variables that keep their types.
SetsAreAccounted == TypeOK /\ MembersStayWithinLimit /\ EverySetExpires

\* quota() tells nobody that there is more left than there is: what it takes
\* for scores are times, which are greater.
QuotaIsNotOverstated ==
  [][\A p \in Slots, w \in Windows :
       QuotaRange(p) /\ call[p].window = w =>
         told'[p][w] <= Limit[w] - Sum(Accepted(w, now) \ lost[w])]_vars

\* What sliding-window-algorithm.test.ts:32 says: requests are accepted until the
\* limit is reached, and one more is not.
RequestsStayWithinLimit ==
  \A w \in Windows :
    TotalOf([m \in Members |-> admitted[m] * m[2]], Accepted(w, now) \ lost[w]) <= Limit[w]

\* What the same test says at line 52: more are accepted after a second.
AcceptsWithinLimit ==
  [][\A p \in Slots :
       Expire(p) /\ call[p].window = N /\ call[p].over =>
         \E w \in Windows : Sum(Accepted(w, call[p].at)) + call[p].score > Limit[w]]_vars

=============================================================================
