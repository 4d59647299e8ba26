---------------------------- MODULE ToolkitProofs ---------------------------
(***************************************************************************)
(* Proofs about the smaller parts of the toolkit, each for any number of   *)
(* its calls and any values of its constants:                              *)
(*                                                                         *)
(*   Log       the lines of a call, by its stage (Told, Identified)        *)
(*   Fs        where each log is, and what the writers hold (CallInv,      *)
(*             Covers)                                                     *)
(*   Auth      the recursion of the permissions, as membership             *)
(*             (HeldCovers)                                                *)
(*   Start     what each await of Managers.Init has behind it (Passed),    *)
(*             and the flags and jobs that go with it (FlagsInv,           *)
(*             BackupInv)                                                  *)
(*   Media     the files, names and ids of each upload, by its stage       *)
(*   Schedule  the timers and the runs of each job: the first one is still *)
(*             due, or the last one an interval before the next (Job)      *)
(*   Tries     what the retries left and the calls of fn add up to         *)
(*             (Counted)                                                   *)
(*   Time      the two ways to add a duration up                           *)
(***************************************************************************)
EXTENDS Logging, Application, Scheduling, SequencesExt, FiniteSets, TLAPS

-----------------------------------------------------------------------------
(* The logger decorators                                                   *)

\* What some lines say.
Tell(some) == {l.says : l \in some}

\* What a call has logged so far and what it awaits the logger for, at each stage.
Told(c) ==
  /\ at[c] = "new" => lines[c] = {} /\ writing[c] = {}
  /\ at[c] = "starting" => Log!Says(c) = {} /\ Tell(writing[c]) = {"Starting"}
  /\ at[c] = "running" => Log!Says(c) = {"Starting"} /\ writing[c] = {}
  /\ at[c] = "success" =>
       effect[c] = "ok" /\ Log!Says(c) = {"Starting"} /\ Tell(writing[c]) = {"Success"}
  /\ at[c] = "failure" =>
       effect[c] = "failed" /\ Log!Says(c) = {"Starting"} /\ Tell(writing[c]) = {"Failed"}
  /\ at[c] \in {"throw", "threw"} =>
       /\ "Success" \notin Log!Says(c)
       /\ effect[c] = "threw" \/ lost[c] \cap {"starting", "success", "failure"} # {}
  /\ at[c] = "throw" => Tell(writing[c]) = {"Failed"}
  /\ at[c] = "threw" => "Failed" \in Log!Says(c) \/ "throw" \in lost[c]
  /\ at[c] = "returned" =>
       /\ effect[c] \in {"ok", "failed"}
       /\ Log!Says(c) = {"Starting", IF effect[c] = "ok" THEN "Success" ELSE "Failed"}

\* While nobody else sets it, the id of the method is that of the call.
Identified(c) ==
  Log!SetsId(c) /\ c \notin overlapped =>
    /\ \A l \in lines[c] \cup writing[c] : l.id = IdOf[c]
    /\ Log!UnderWay(c) => correlationId[MethodOf[c]] = IdOf[c]

CallLogInv == Log!TypeOK /\ \A c \in Calls : Told(c) /\ Identified(c)

\* A step of one call, with a line or without.
LEMMA CallMoves ==
  ASSUME Log!ConstantsAssumption, Log!TypeOK, NEW c \in Calls, NEW stage \in Log!Stages,
         Log!GoTo(c, stage)
  PROVE  /\ at' \in [Calls -> Log!Stages] /\ at'[c] = stage
         /\ \A d \in Calls \ {c} : at'[d] = at[d]
BY DEF Log!TypeOK, Log!GoTo

\* A line that the logger is called with is the one that the call awaits.
LEMMA LineBegun ==
  ASSUME Log!ConstantsAssumption, Log!TypeOK, NEW c \in Calls,
         NEW says \in {"Starting", "Success", "Failed"},
         NEW id \in Log!Ids, Log!Line(c, says, id)
  PROVE  /\ writing' \in [Calls -> SUBSET Log!Lines]
         /\ \A d \in Calls \ {c} : writing'[d] = writing[d]
         /\ Tell(writing'[c]) = {says}
         /\ \A l \in writing'[c] : l.id = id
<1> DEFINE l == [says |-> says, id |-> id]
<1>1. l \in Log!Lines /\ l.says = says /\ l.id = id
  BY DEF Log!Lines
<1>2. writing' = [writing EXCEPT ![c] = {l}]
  BY DEF Log!Line
<1> HIDE DEF l
<1>3. writing'[c] = {l} /\ writing' \in [Calls -> SUBSET Log!Lines]
      /\ \A d \in Calls \ {c} : writing'[d] = writing[d]
  BY <1>1, <1>2 DEF Log!TypeOK
<1> QED
  BY <1>1, <1>3 DEF Tell

\* A line that the logger is through with is added to those of its call.
LEMMA LineAdded ==
  ASSUME Log!ConstantsAssumption, Log!TypeOK, NEW c \in Calls, Log!Written(c)
  PROVE  /\ lines' \in [Calls -> SUBSET Log!Lines]
         /\ writing' \in [Calls -> SUBSET Log!Lines]
         /\ \A d \in Calls \ {c} : lines'[d] = lines[d] /\ writing'[d] = writing[d]
         /\ lines'[c] = lines[c] \cup writing[c] /\ writing'[c] = {}
         /\ Log!Says(c)' = Log!Says(c) \cup Tell(writing[c])
<1>1. /\ lines' = [lines EXCEPT ![c] = @ \cup writing[c]]
      /\ writing' = [writing EXCEPT ![c] = {}]
      /\ lines \in [Calls -> SUBSET Log!Lines] /\ writing \in [Calls -> SUBSET Log!Lines]
  BY DEF Log!Written, Log!TypeOK
<1>2. lines'[c] = lines[c] \cup writing[c]
  BY <1>1
<1> QED
  BY <1>1, <1>2 DEF Log!Says, Tell

\* The id of a method is one there may be.
LEMMA IdsKnown ==
  ASSUME Log!ConstantsAssumption, Log!TypeOK, NEW c \in Calls
  PROVE  /\ MethodOf[c] \in Methods /\ correlationId[MethodOf[c]] \in Log!Ids
         /\ Log!SetsId(c) => IdOf[c] \in Log!Ids
BY DEF Log!ConstantsAssumption, Log!TypeOK, Log!Ids, Log!SetsId

\* Nothing was logged before the first call.
LEMMA CallLogInit ==
  ASSUME Log!ConstantsAssumption, Log!Init
  PROVE  CallLogInv
<1>1. correlationId \in [Methods -> Log!Ids]
  BY DEF Log!ConstantsAssumption, Log!Init, Log!Ids
<1> QED
  BY <1>1 DEF Log!Init, CallLogInv, Log!TypeOK, Log!Stages, Told, Identified, Log!UnderWay

\* What a call may do to itself, apart from beginning.
Goes(c) ==
  /\ UNCHANGED <<correlationId, overlapped>>
  /\ at[c] # "new"
  /\ at'[c] # at[c]
  /\ \A l \in lines'[c] \cup writing'[c] :
       l \in lines[c] \cup writing[c] \/ l.id = correlationId[MethodOf[c]]
  /\ Log!UnderWay(c)
  /\ \A d \in Calls \ {c} :
       /\ at'[d] = at[d] /\ lines'[d] = lines[d] /\ writing'[d] = writing[d]
       /\ effect'[d] = effect[d] /\ lost'[d] = lost[d]

\* A step that one call takes by itself keeps what holds of the others.
LEMMA GoesKeeps ==
  ASSUME Log!ConstantsAssumption, CallLogInv, Log!TypeOK', NEW c \in Calls, Goes(c), Told(c)'
  PROVE  CallLogInv'
<1>1. ASSUME NEW d \in Calls \ {c}
      PROVE  Told(d)' /\ Identified(d)'
  <2>1. /\ at'[d] = at[d] /\ lines'[d] = lines[d] /\ writing'[d] = writing[d]
        /\ effect'[d] = effect[d] /\ lost'[d] = lost[d]
        /\ UNCHANGED <<correlationId, overlapped>> /\ Told(d) /\ Identified(d)
    BY DEF Goes, CallLogInv
  <2>2. Told(d)'
    BY <2>1 DEF Told, Log!Says
  <2>3. Identified(d)'
    BY <2>1 DEF Identified, Log!UnderWay, Log!SetsId
  <2> QED
    BY <2>2, <2>3
<1>2. Identified(c)'
  BY DEF CallLogInv, Goes, Identified, Log!UnderWay, Log!SetsId
<1> QED
  BY <1>1, <1>2 DEF CallLogInv

\* The call begins: the id of the method becomes that of the call, and everybody
\* else in the method is overlapped.
LEMMA BeginKeeps ==
  ASSUME Log!ConstantsAssumption, CallLogInv, NEW c \in Calls, Log!Begin(c)
  PROVE  CallLogInv'
<1> DEFINE id == IF Log!SetsId(c) THEN IdOf[c] ELSE correlationId[MethodOf[c]]
<1>1. Log!TypeOK /\ MethodOf \in [Calls -> Methods] /\ id \in Log!Ids
  BY IdsKnown DEF CallLogInv, Log!ConstantsAssumption
<1>2. /\ correlationId' \in [Methods -> Log!Ids] /\ correlationId'[MethodOf[c]] = id
      /\ \A m \in Methods :
           correlationId'[m] = correlationId[m] \/ (m = MethodOf[c] /\ Log!SetsId(c))
  BY <1>1, IdsKnown DEF Log!Begin, Log!TypeOK
<1> HIDE DEF id
<1>3. /\ Log!Line(c, "Starting", id) /\ Log!GoTo(c, "starting") /\ at[c] = "new"
      /\ UNCHANGED <<lines, effect, lost>>
  BY <1>2 DEF Log!Begin
<1>4. /\ writing' \in [Calls -> SUBSET Log!Lines]
      /\ \A d \in Calls \ {c} : writing'[d] = writing[d]
      /\ Tell(writing'[c]) = {"Starting"}
      /\ \A l \in writing'[c] : l.id = id
  BY <1>1, <1>3, LineBegun
<1>5. /\ at' \in [Calls -> Log!Stages] /\ at'[c] = "starting"
      /\ \A d \in Calls \ {c} : at'[d] = at[d]
  BY <1>1, <1>3, CallMoves DEF Log!Stages
<1>6. Log!TypeOK'
  BY <1>1, <1>2, <1>3, <1>4, <1>5 DEF Log!Begin, Log!TypeOK
<1>7. Told(c)' /\ Identified(c)'
  <2>1. lines'[c] = {} /\ Log!Says(c)' = {}
    BY <1>3 DEF CallLogInv, Told, Log!Says
  <2>2. Told(c)'
    BY <1>4, <1>5, <2>1 DEF Told
  <2>3. Log!SetsId(c) => id = IdOf[c]
    BY DEF id
  <2> QED
    BY <1>2, <1>4, <2>1, <2>2, <2>3 DEF Identified, Log!SetsId
<1>8. ASSUME NEW d \in Calls \ {c}
      PROVE  Told(d)' /\ Identified(d)'
  <2>1. Told(d)'
    <3>1. /\ at'[d] = at[d] /\ lines'[d] = lines[d] /\ writing'[d] = writing[d]
          /\ effect'[d] = effect[d] /\ lost'[d] = lost[d] /\ Told(d)
      BY <1>3, <1>4, <1>5 DEF CallLogInv
    <3> QED
      BY <3>1 DEF Told, Log!Says
  <2>2. overlapped \subseteq overlapped'
    BY DEF Log!Begin
  <2>3. CASE Log!SetsId(c) /\ MethodOf[d] = MethodOf[c] /\ Log!UnderWay(d)
    <3>1. d \in overlapped'
      BY <2>3 DEF Log!Begin
    <3> QED
      BY <2>1, <3>1 DEF Identified
  <2>4. CASE ~Log!UnderWay(d)
    BY <1>3, <1>4, <1>5, <2>1, <2>2, <2>4 DEF CallLogInv, Identified, Log!UnderWay, Log!SetsId
  <2>5. CASE ~(Log!SetsId(c) /\ MethodOf[d] = MethodOf[c])
    <3>1. correlationId'[MethodOf[d]] = correlationId[MethodOf[d]]
      BY <1>1, <1>2, <2>5
    <3> QED
      BY <1>3, <1>4, <1>5, <2>1, <2>2, <3>1 DEF CallLogInv, Identified, Log!UnderWay, Log!SetsId
  <2> QED
    BY <2>3, <2>4, <2>5
<1> QED
  BY <1>6, <1>7, <1>8 DEF CallLogInv

\* The line after the call, of success or of failure, has the id of the method.
LEMMA EndLineKeeps ==
  ASSUME Log!ConstantsAssumption, CallLogInv, NEW c \in Calls,
         NEW says \in {"Success", "Failed"}, NEW stage \in Log!Stages,
         Log!EndLine(c, says, stage), UNCHANGED <<correlationId, lines, overlapped>>,
         at[c] \in {"starting", "running", "success", "failure"}, at[c] # stage,
         effect' \in [Calls -> {"none", "ok", "failed", "threw"}],
         lost' \in [Calls -> SUBSET Log!Stages],
         \A d \in Calls \ {c} : effect'[d] = effect[d] /\ lost'[d] = lost[d],
         \/ /\ stage = "throw" /\ says = "Failed"
            /\ effect'[c] = "threw" \/ lost'[c] \cap {"starting", "success", "failure"} # {}
         \/ stage = "success" /\ says = "Success" /\ effect'[c] = "ok" /\ at[c] = "running"
         \/ stage = "failure" /\ says = "Failed" /\ effect'[c] = "failed" /\ at[c] = "running"
  PROVE  CallLogInv'
<1> DEFINE id == correlationId[MethodOf[c]]
<1>1. Log!TypeOK /\ id \in Log!Ids
  BY IdsKnown DEF CallLogInv
<1>2. /\ writing' \in [Calls -> SUBSET Log!Lines]
      /\ \A d \in Calls \ {c} : writing'[d] = writing[d]
      /\ Tell(writing'[c]) = {says}
      /\ \A l \in writing'[c] : l.id = id
  BY <1>1, LineBegun DEF Log!EndLine
<1>3. /\ at' \in [Calls -> Log!Stages] /\ at'[c] = stage
      /\ \A d \in Calls \ {c} : at'[d] = at[d]
  BY <1>1, CallMoves DEF Log!EndLine
<1>4. Log!TypeOK'
  BY <1>1, <1>2, <1>3 DEF Log!TypeOK
<1>5. Goes(c)
  BY <1>2, <1>3 DEF Goes, Log!UnderWay
<1>6. Told(c)'
  <2>1. /\ Log!Says(c)' = Log!Says(c) /\ "Success" \notin Log!Says(c)
        /\ at[c] = "running" => Log!Says(c) = {"Starting"}
    BY DEF CallLogInv, Told, Log!Says
  <2> QED
    BY <1>2, <1>3, <2>1 DEF Told
<1> QED
  BY <1>4, <1>5, <1>6, GoesKeeps

\* The logger is through with a line, and the call goes on or ends.
LEMMA WrittenKeeps ==
  ASSUME Log!ConstantsAssumption, CallLogInv, NEW c \in Calls, NEW stage \in Log!Stages,
         Log!GoTo(c, stage), Log!Written(c),
         UNCHANGED <<correlationId, overlapped, effect, lost>>,
         \/ at[c] = "starting" /\ stage = "running"
         \/ at[c] \in {"success", "failure"} /\ stage = "returned"
         \/ at[c] = "throw" /\ stage = "threw"
  PROVE  CallLogInv'
<1>1. Log!TypeOK /\ Told(c)
  BY DEF CallLogInv
<1>2. /\ at' \in [Calls -> Log!Stages] /\ at'[c] = stage
      /\ \A d \in Calls \ {c} : at'[d] = at[d]
  BY <1>1, CallMoves
<1>3. /\ lines' \in [Calls -> SUBSET Log!Lines]
      /\ writing' \in [Calls -> SUBSET Log!Lines]
      /\ \A d \in Calls \ {c} : lines'[d] = lines[d] /\ writing'[d] = writing[d]
      /\ lines'[c] = lines[c] \cup writing[c] /\ writing'[c] = {}
      /\ Log!Says(c)' = Log!Says(c) \cup Tell(writing[c])
  BY <1>1, LineAdded
<1>4. Log!TypeOK'
  BY <1>1, <1>2, <1>3 DEF Log!TypeOK
<1>5. Goes(c)
  BY <1>2, <1>3 DEF Goes, Log!UnderWay
<1>6. Told(c)'
  BY <1>1, <1>2, <1>3 DEF Told
<1> QED
  BY <1>4, <1>5, <1>6, GoesKeeps

\* The stage of a call at which the logger fails is remembered.
LEMMA LineLost ==
  ASSUME Log!TypeOK, NEW c \in Calls, Log!LosesLine(c)
  PROVE  /\ lost' \in [Calls -> SUBSET Log!Stages] /\ at[c] \in lost'[c]
         /\ lost[c] \subseteq lost'[c]
         /\ \A d \in Calls \ {c} : lost'[d] = lost[d]
BY DEF Log!TypeOK, Log!LosesLine

\* The logger fails with the line of the catch block.
LEMMA LostKeeps ==
  ASSUME Log!ConstantsAssumption, CallLogInv, NEW c \in Calls, Log!LoggerFailsAgain(c)
  PROVE  CallLogInv'
<1>1. /\ at[c] = "throw" /\ Log!GoTo(c, "threw") /\ Log!LosesLine(c)
      /\ writing' = [writing EXCEPT ![c] = {}]
      /\ UNCHANGED <<correlationId, lines, overlapped, effect>>
      /\ Log!TypeOK /\ Told(c) /\ "threw" \in Log!Stages
  BY DEF Log!LoggerFailsAgain, CallLogInv, Log!Stages
<1>2. /\ at' \in [Calls -> Log!Stages] /\ at'[c] = "threw"
      /\ \A d \in Calls \ {c} : at'[d] = at[d]
  BY <1>1, CallMoves
<1>3. /\ lost' \in [Calls -> SUBSET Log!Stages] /\ "throw" \in lost'[c]
      /\ lost[c] \subseteq lost'[c]
      /\ \A d \in Calls \ {c} : lost'[d] = lost[d]
  BY <1>1, LineLost
<1>4. /\ writing' \in [Calls -> SUBSET Log!Lines] /\ writing'[c] = {}
      /\ \A d \in Calls \ {c} : writing'[d] = writing[d]
  BY <1>1 DEF Log!TypeOK
<1>5. Log!TypeOK'
  BY <1>1, <1>2, <1>3, <1>4 DEF Log!TypeOK
<1>6. Goes(c)
  BY <1>1, <1>2, <1>3, <1>4 DEF Goes, Log!UnderWay
<1>7. Told(c)'
  BY <1>1, <1>2, <1>3 DEF Told, Log!Says
<1> QED
  BY <1>5, <1>6, <1>7, GoesKeeps

\* Both lines of a decorated call carry the id it was given, unless another call of
\* the same method began in between, and the log agrees with what its caller got but
\* where the logger failed.
THEOREM CallsLogged ==
  ASSUME Log!ConstantsAssumption
  PROVE  Log!Spec => []CallsAreLogged
<1>1. Log!Init => CallLogInv
  BY CallLogInit
<1>2. CallLogInv /\ [Log!Next]_(Log!vars) => CallLogInv'
  <2> SUFFICES ASSUME CallLogInv, [Log!Next]_(Log!vars)
               PROVE  CallLogInv'
    OBVIOUS
  <2>1. CASE UNCHANGED Log!vars
    BY <2>1
    DEF Log!vars, CallLogInv, Log!TypeOK, Told, Log!Says, Identified, Log!UnderWay, Log!SetsId
  <2>2. ASSUME NEW c \in Calls, Log!Begin(c)
        PROVE  CallLogInv'
    BY <2>2, BeginKeeps
  <2>3. ASSUME NEW c \in Calls, Log!Started(c)
        PROVE  CallLogInv'
    BY <2>3, WrittenKeeps DEF Log!Started, Log!UnderWay, Log!Stages
  <2>4. ASSUME NEW c \in Calls, Log!Succeeded(c)
        PROVE  CallLogInv'
    <3>1. /\ effect' \in [Calls -> {"none", "ok", "failed", "threw"}] /\ effect'[c] = "ok"
          /\ \A d \in Calls \ {c} : effect'[d] = effect[d]
      BY <2>4 DEF Log!Succeeded, CallLogInv, Log!TypeOK
    <3> QED
      BY <2>4, <3>1, EndLineKeeps DEF Log!Succeeded, Log!Stages, CallLogInv, Log!TypeOK
  <2>5. ASSUME NEW c \in Calls, Log!FailedResult(c)
        PROVE  CallLogInv'
    <3>1. /\ effect' \in [Calls -> {"none", "ok", "failed", "threw"}] /\ effect'[c] = "failed"
          /\ \A d \in Calls \ {c} : effect'[d] = effect[d]
      BY <2>5 DEF Log!FailedResult, CallLogInv, Log!TypeOK
    <3> QED
      BY <2>5, <3>1, EndLineKeeps DEF Log!FailedResult, Log!Stages, CallLogInv, Log!TypeOK
  <2>6. ASSUME NEW c \in Calls, Log!Threw(c)
        PROVE  CallLogInv'
    <3>1. /\ effect' \in [Calls -> {"none", "ok", "failed", "threw"}] /\ effect'[c] = "threw"
          /\ \A d \in Calls \ {c} : effect'[d] = effect[d]
      BY <2>6 DEF Log!Threw, CallLogInv, Log!TypeOK
    <3> QED
      BY <2>6, <3>1, EndLineKeeps DEF Log!Threw, Log!Stages, CallLogInv, Log!TypeOK
  <2>7. ASSUME NEW c \in Calls, Log!Logged(c)
        PROVE  CallLogInv'
    BY <2>7, WrittenKeeps DEF Log!Logged, Log!UnderWay, Log!Stages
  <2>8. ASSUME NEW c \in Calls, Log!LoggerFails(c)
        PROVE  CallLogInv'
    <3>1. /\ at[c] \in {"starting", "success", "failure"} /\ Log!LosesLine(c)
          /\ Log!EndLine(c, "Failed", "throw") /\ Log!TypeOK /\ "throw" \in Log!Stages
          /\ UNCHANGED <<correlationId, lines, overlapped, effect>>
      BY <2>8 DEF Log!LoggerFails, CallLogInv, Log!Stages
    <3>2. /\ lost' \in [Calls -> SUBSET Log!Stages]
          /\ lost'[c] \cap {"starting", "success", "failure"} # {}
          /\ \A d \in Calls \ {c} : lost'[d] = lost[d]
      BY <3>1, LineLost
    <3> QED
      BY <3>1, <3>2, EndLineKeeps DEF Log!TypeOK
  <2>9. ASSUME NEW c \in Calls, Log!LoggerFailsAgain(c)
        PROVE  CallLogInv'
    BY <2>9, LostKeeps
  <2> QED
    BY <2>1, <2>2, <2>3, <2>4, <2>5, <2>6, <2>7, <2>8, <2>9 DEF Log!Next
<1>3. CallLogInv => Log!CallsAreLogged
  <2> SUFFICES ASSUME CallLogInv
               PROVE  Log!LinesCarryTheIdOfTheCall /\ Log!AnswersAreLogged
    BY DEF CallLogInv, Log!CallsAreLogged
  <2>1. Log!LinesCarryTheIdOfTheCall
    BY DEF CallLogInv, Identified, Log!LinesCarryTheIdOfTheCall
  <2>2. Log!AnswersAreLogged
    BY DEF CallLogInv, Told, Log!Says, Log!AnswersAreLogged
  <2> QED
    BY <2>1, <2>2
<1> QED
  BY <1>1, <1>2, <1>3, PTL DEF Log!Spec, CallsAreLogged

-----------------------------------------------------------------------------
(* The file system logger                                                  *)

Appends == [pc : {"new", "appending", "committing", "done"}, logs : Seq(Logs)]
Clearings ==
  [pc : {"new", "committing", "copying", "truncating", "erasing", "done"}, logs : Seq(Logs),
   date : {0} \cup Milliseconds]

\* A log that is not yet logged is not in the cache; one that is being written is
\* among those its call writes.
CallInv(l) ==
  /\ append[l].pc = "new" => l \notin Fs!ToSet(logsCache)
  /\ append[l].pc \in {"appending", "committing"} => l \in Fs!ToSet(append[l].logs)
  /\ append[l].pc = "done" => l \in Fs!Kept \cup dropped

\* What a commit writes is the cache, but for logs that came since it began.
Covers(writer) == writer.pc = "committing" =>
                    Fs!ToSet(logsCache) \subseteq Fs!ToSet(writer.logs) \cup dropped

\* What clear() empties has been copied, but for logs that came since.
CopiedInv(k) == clear[k].pc = "truncating" => Fs!ToSet(file) \subseteq Fs!Saved \cup dropped

LogsInv ==
  /\ Fs!TypeOK
  /\ \A l \in Logs : CallInv(l) /\ Covers(append[l])
  /\ \A k \in Clears : Covers(clear[k]) /\ CopiedInv(k)

\* What two sequences have together.
LEMMA MembersOfBoth ==
  ASSUME NEW S, NEW s \in Seq(S), NEW t \in Seq(S)
  PROVE  Fs!ToSet(s \o t) = Fs!ToSet(s) \cup Fs!ToSet(t)
<1>1. /\ s \o t \in Seq(S) /\ Len(s \o t) = Len(s) + Len(t)
      /\ \A i \in 1 .. Len(s) : (s \o t)[i] = s[i]
      /\ \A i \in 1 .. Len(t) : (s \o t)[Len(s) + i] = t[i]
      /\ Len(s) \in Nat /\ Len(t) \in Nat
  OBVIOUS
<1>2. ASSUME NEW x \in Fs!ToSet(s \o t)
      PROVE  x \in Fs!ToSet(s) \cup Fs!ToSet(t)
  <2>1. PICK i \in 1 .. Len(s) + Len(t) : (s \o t)[i] = x
    BY <1>1 DEF Fs!ToSet
  <2>2. CASE i <= Len(s)
    BY <1>1, <2>1, <2>2 DEF Fs!ToSet
  <2>3. CASE i > Len(s)
    <3>1. i - Len(s) \in 1 .. Len(t) /\ x = t[i - Len(s)]
      BY <1>1, <2>1, <2>3
    <3> QED
      BY <3>1 DEF Fs!ToSet
  <2> QED
    BY <1>1, <2>1, <2>2, <2>3
<1>3. ASSUME NEW x \in Fs!ToSet(s)
      PROVE  x \in Fs!ToSet(s \o t)
  BY <1>1 DEF Fs!ToSet
<1>4. ASSUME NEW x \in Fs!ToSet(t)
      PROVE  x \in Fs!ToSet(s \o t)
  <2>1. PICK i \in 1 .. Len(t) : t[i] = x
    BY DEF Fs!ToSet
  <2>2. Len(s) + i \in 1 .. Len(s \o t) /\ (s \o t)[Len(s) + i] = x
    BY <1>1, <2>1
  <2> QED
    BY <1>1, <2>2 DEF Fs!ToSet
<1> QED
  BY <1>2, <1>3, <1>4

\* What a sequence has with one more.
LEMMA MembersAndOne ==
  ASSUME NEW S, NEW s \in Seq(S), NEW e \in S
  PROVE  /\ Append(s, e) \in Seq(S)
         /\ Fs!ToSet(Append(s, e)) = Fs!ToSet(s) \cup {e}
         /\ Fs!IsInjective(s) /\ e \notin Fs!ToSet(s) => Fs!IsInjective(Append(s, e))
<1>1. /\ Append(s, e) \in Seq(S) /\ Len(Append(s, e)) = Len(s) + 1 /\ Len(s) \in Nat
      /\ Append(s, e)[Len(s) + 1] = e
      /\ \A i \in 1 .. Len(s) : Append(s, e)[i] = s[i]
  OBVIOUS
<1>2. Fs!ToSet(Append(s, e)) = Fs!ToSet(s) \cup {e}
  <2>1. ASSUME NEW x \in Fs!ToSet(Append(s, e))
        PROVE  x \in Fs!ToSet(s) \cup {e}
    BY <1>1 DEF Fs!ToSet
  <2>2. e \in Fs!ToSet(Append(s, e))
    BY <1>1 DEF Fs!ToSet
  <2>3. ASSUME NEW x \in Fs!ToSet(s)
        PROVE  x \in Fs!ToSet(Append(s, e))
    BY <1>1 DEF Fs!ToSet
  <2> QED
    BY <2>1, <2>2, <2>3
<1>3. ASSUME Fs!IsInjective(s), e \notin Fs!ToSet(s)
      PROVE  Fs!IsInjective(Append(s, e))
  BY <1>1, <1>3 DEF Fs!IsInjective, Fs!ToSet
<1> QED
  BY <1>1, <1>2, <1>3

\* What was kept or dropped is still kept or dropped, and the calls but one did
\* not move: all that concerns them is whether the logs in the cache are covered.
StillKept == Fs!Kept \cup dropped \subseteq (Fs!Kept \cup dropped)'

\* Before the first log there is none to keep.
LEMMA LogsInit ==
  ASSUME Fs!ConstantsAssumption, Fs!Init
  PROVE  LogsInv
<1>1. Fs!ToSet(<<>>) = {} /\ Fs!IsInjective(<<>>) /\ <<>> \in Seq(Logs)
  BY DEF Fs!ToSet, Fs!IsInjective
<1>2. Fs!TypeOK
  BY <1>1 DEF Fs!ConstantsAssumption, Fs!Init, Fs!TypeOK, Fs!New
<1> QED
  BY <1>1, <1>2 DEF Fs!Init, LogsInv, CallInv, Covers, CopiedInv, Fs!New

\* A log is logged.
LEMMA InfoKeeps ==
  ASSUME Fs!ConstantsAssumption, LogsInv, NEW l \in Logs, Fs!info(l)
  PROVE  LogsInv'
<1>1. /\ Fs!TypeOK /\ append[l].pc = "new"
      /\ UNCHANGED <<file, saved, console, clear, failures, withMemCache>>
      /\ l \notin Fs!ToSet(logsCache) /\ logsCache \in Seq(Logs)
  BY DEF LogsInv, Fs!info, CallInv, Fs!TypeOK
<1>2. CASE withMemCache
  <2> DEFINE cache == Append(logsCache, l)
             next == IF Fs!CacheIsFull(cache) THEN [pc |-> "committing", logs |-> cache]
                     ELSE Fs!Done
  <2>1. /\ logsCache' = cache /\ append' = [append EXCEPT ![l] = next]
        /\ dropped' = IF Fs!CommitInFlight THEN dropped \cup {l} ELSE dropped
    BY <1>2 DEF Fs!info
  <2>2. /\ cache \in Seq(Logs) /\ Fs!ToSet(cache) = Fs!ToSet(logsCache) \cup {l}
        /\ Fs!IsInjective(cache)
    BY <1>1, MembersAndOne DEF Fs!TypeOK
  <2>3. next \in Appends /\ next.pc \in {"committing", "done"}
        /\ (next.pc = "committing" => next.logs = cache)
    BY <2>2 DEF Appends, Fs!Done
  <2> HIDE DEF cache, next
  <2>4. /\ append' \in [Logs -> Appends] /\ append'[l] = next
        /\ \A m \in Logs \ {l} : append'[m] = append[m]
    BY <1>1, <2>1, <2>3 DEF Fs!TypeOK, Appends
  <2>5. Fs!TypeOK'
    BY <1>1, <1>2, <2>1, <2>2, <2>4 DEF Fs!TypeOK, Appends
  <2>6. StillKept /\ l \in Fs!Kept' /\ dropped \subseteq dropped'
    BY <1>1, <2>1, <2>2 DEF StillKept, Fs!Kept, Fs!Saved
  <2>7. \A m \in Logs : CallInv(m)'
    <3>1. ASSUME NEW m \in Logs \ {l}
          PROVE  CallInv(m)'
      BY <2>1, <2>2, <2>4, <2>6 DEF LogsInv, CallInv, StillKept
    <3>2. CallInv(l)'
      BY <2>1, <2>2, <2>3, <2>4, <2>6 DEF CallInv
    <3> QED
      BY <3>1, <3>2
  <2>8. ASSUME NEW writer, Covers(writer), writer.pc = "committing" => Fs!CommitInFlight
        PROVE  writer.pc = "committing" =>
                 Fs!ToSet(logsCache') \subseteq Fs!ToSet(writer.logs) \cup dropped'
    BY <2>1, <2>2, <2>8 DEF Covers
  <2>9. \A m \in Logs : Covers(append[m])'
    <3>1. ASSUME NEW m \in Logs \ {l}
          PROVE  Covers(append[m])'
      BY <2>4, <2>8 DEF LogsInv, Fs!CommitInFlight, Covers
    <3>2. Covers(append[l])'
      BY <2>1, <2>3, <2>4 DEF Covers
    <3> QED
      BY <3>1, <3>2
  <2>10. \A k \in Clears : Covers(clear[k])' /\ CopiedInv(k)'
    BY <1>1, <2>6, <2>8 DEF LogsInv, Fs!CommitInFlight, Covers, CopiedInv, Fs!Saved
  <2> QED
    BY <2>5, <2>7, <2>9, <2>10 DEF LogsInv
<1>3. CASE ~withMemCache
  <2> DEFINE next == [pc |-> "appending", logs |-> <<l>>]
  <2>1. append' = [append EXCEPT ![l] = next] /\ UNCHANGED <<logsCache, dropped>>
    BY <1>3 DEF Fs!info
  <2>2. next \in Appends /\ next.pc = "appending" /\ Fs!ToSet(next.logs) = {l}
    BY <1>1 DEF Appends, Fs!ToSet
  <2> HIDE DEF next
  <2>3. /\ append' \in [Logs -> Appends] /\ append'[l] = next
        /\ \A m \in Logs \ {l} : append'[m] = append[m]
    BY <1>1, <2>1, <2>2 DEF Fs!TypeOK, Appends
  <2>4. Fs!TypeOK'
    BY <1>1, <2>1, <2>3 DEF Fs!TypeOK, Appends
  <2>5. ASSUME NEW m \in Logs
        PROVE  CallInv(m)' /\ Covers(append[m])'
    <3>1. CASE m = l
      BY <2>2, <2>3, <3>1 DEF CallInv, Covers
    <3>2. CASE m # l
      BY <1>1, <2>1, <2>3, <3>2 DEF LogsInv, CallInv, Covers, Fs!Kept, Fs!Saved
    <3> QED
      BY <3>1, <3>2
  <2>6. \A k \in Clears : Covers(clear[k])' /\ CopiedInv(k)'
    BY <1>1, <2>1 DEF LogsInv, Covers, CopiedInv, Fs!Saved
  <2> QED
    BY <2>4, <2>5, <2>6 DEF LogsInv
<1> QED
  BY <1>2, <1>3

\* A write: what the call did not have was to be dropped.
LEMMA WriteKeeps ==
  ASSUME Fs!ConstantsAssumption, LogsInv, NEW writer, writer.logs \in Seq(Logs), Covers(writer),
         writer.pc \in {"appending", "committing"}, Fs!WriteToFile(writer),
         UNCHANGED <<saved, console>>
  PROVE  /\ file' \in Seq(Logs) /\ dropped' \subseteq Logs
         /\ logsCache' = logsCache \/ logsCache' = <<>>
         /\ Fs!ToSet(logsCache') \subseteq Fs!ToSet(logsCache)
         /\ dropped \subseteq dropped' /\ Fs!ToSet(writer.logs) \subseteq Fs!ToSet(file')
         /\ StillKept
         /\ \A k \in Clears : clear[k].pc = "truncating" =>
              Fs!ToSet(file') \subseteq Fs!Saved \cup dropped'
<1>1. /\ file \in Seq(Logs) /\ logsCache \in Seq(Logs) /\ file' = file \o writer.logs
      /\ dropped' = IF Fs!CopyTaken THEN dropped \cup Fs!ToSet(writer.logs) ELSE dropped
      /\ dropped \subseteq Logs
      /\ logsCache' = IF writer.pc = "committing" THEN <<>> ELSE logsCache
  BY DEF LogsInv, Fs!TypeOK, Fs!WriteToFile
<1>2. Fs!ToSet(writer.logs) \subseteq Logs /\ Fs!ToSet(<<>>) = {}
  BY DEF Fs!ToSet
<1>3. Fs!ToSet(file') = Fs!ToSet(file) \cup Fs!ToSet(writer.logs)
  <2>1. Fs!ToSet(file) \cup Fs!ToSet(writer.logs) = Fs!ToSet(file \o writer.logs)
    BY <1>1, MembersOfBoth
  <2> QED
    BY <1>1, <2>1
<1>4. StillKept
  BY <1>1, <1>2, <1>3 DEF StillKept, Fs!Kept, Fs!Saved, Covers
<1>5. \A k \in Clears : clear[k].pc = "truncating" =>
        Fs!ToSet(file') \subseteq Fs!Saved \cup dropped'
  BY <1>1, <1>3 DEF LogsInv, CopiedInv, Fs!CopyTaken
<1> QED
  BY <1>1, <1>2, <1>3, <1>4, <1>5

\* Smaller caches are covered as before, by what is still written.
LEMMA LessIsCovered ==
  ASSUME Fs!ToSet(logsCache') \subseteq Fs!ToSet(logsCache), dropped \subseteq dropped',
         NEW writer, Covers(writer), writer.pc = "committing"
  PROVE  Fs!ToSet(logsCache') \subseteq Fs!ToSet(writer.logs) \cup dropped'
BY DEF Covers

\* A call that logs ends, with its log kept.
LEMMA LogEnds ==
  ASSUME Fs!ConstantsAssumption, LogsInv, NEW l \in Logs,
         append' = [append EXCEPT ![l] = Fs!Done],
         UNCHANGED clear, StillKept, l \in (Fs!Kept \cup dropped)',
         Fs!ToSet(logsCache') \subseteq Fs!ToSet(logsCache), dropped \subseteq dropped',
         Fs!TypeOK', \A k \in Clears : CopiedInv(k)'
  PROVE  LogsInv'
<1>1. /\ append'[l] = Fs!Done /\ Fs!Done.pc = "done"
      /\ \A m \in Logs \ {l} : append'[m] = append[m]
  BY DEF LogsInv, Fs!TypeOK, Fs!Done
<1>2. ASSUME NEW m \in Logs
      PROVE  CallInv(m)' /\ Covers(append[m])'
  <2>1. CASE m = l
    BY <1>1, <2>1 DEF CallInv, Covers
  <2>2. CASE m # l
    <3>1. CallInv(m) /\ Covers(append[m]) /\ append'[m] = append[m]
      BY <1>1, <2>2 DEF LogsInv
    <3>2. CallInv(m)'
      BY <3>1 DEF CallInv, StillKept
    <3>3. Covers(append[m])'
      BY <3>1, LessIsCovered DEF Covers
    <3> QED
      BY <3>2, <3>3
  <2> QED
    BY <2>1, <2>2
<1>3. ASSUME NEW k \in Clears
      PROVE  Covers(clear[k])'
  BY LessIsCovered DEF LogsInv, Covers
<1> QED
  BY <1>2, <1>3 DEF LogsInv

\* appendFile() answers: the logs that were handed to it are in the file.
LEMMA AppendedKeeps ==
  ASSUME Fs!ConstantsAssumption, LogsInv, NEW l \in Logs, Fs!Appended(l)
  PROVE  LogsInv'
<1>1. /\ append[l].pc \in {"appending", "committing"} /\ Fs!WriteToFile(append[l])
      /\ append' = [append EXCEPT ![l] = Fs!Done]
      /\ UNCHANGED <<saved, console, clear, failures, withMemCache>>
  BY DEF Fs!Appended
<1>2. append[l].logs \in Seq(Logs) /\ Covers(append[l]) /\ l \in Fs!ToSet(append[l].logs)
  BY <1>1 DEF LogsInv, Fs!TypeOK, CallInv
<1>3. /\ file' \in Seq(Logs) /\ dropped' \subseteq Logs
      /\ logsCache' = logsCache \/ logsCache' = <<>>
      /\ Fs!ToSet(logsCache') \subseteq Fs!ToSet(logsCache)
      /\ dropped \subseteq dropped' /\ Fs!ToSet(append[l].logs) \subseteq Fs!ToSet(file')
      /\ StillKept
      /\ \A k \in Clears : clear[k].pc = "truncating" =>
           Fs!ToSet(file') \subseteq Fs!Saved \cup dropped'
  BY <1>1, <1>2, WriteKeeps
<1>4. Fs!IsInjective(<<>>) /\ <<>> \in Seq(Logs)
  BY DEF Fs!IsInjective
<1>5. Fs!TypeOK'
  BY <1>1, <1>3, <1>4 DEF LogsInv, Fs!TypeOK, Fs!Done
<1>6. l \in (Fs!Kept \cup dropped)' /\ \A k \in Clears : CopiedInv(k)'
  BY <1>1, <1>2, <1>3 DEF Fs!Kept, Fs!Saved, CopiedInv
<1> QED
  BY <1>1, <1>3, <1>5, <1>6, LogEnds

\* appendFile() fails: the log is on the console instead.
LEMMA AppendFailsKeeps ==
  ASSUME Fs!ConstantsAssumption, LogsInv, NEW l \in Logs, Fs!AppendFails(l)
  PROVE  LogsInv'
<1>1. /\ append' = [append EXCEPT ![l] = Fs!Done] /\ console' = console \cup {l}
      /\ failures < MaxFailures /\ failures' = failures + 1
      /\ UNCHANGED <<logsCache, file, saved, clear, dropped, withMemCache>>
  BY DEF Fs!AppendFails
<1>2. Fs!TypeOK'
  <2>1. failures' \in 0 .. MaxFailures
    BY <1>1 DEF LogsInv, Fs!TypeOK, Fs!ConstantsAssumption
  <2> QED
    BY <1>1, <2>1 DEF LogsInv, Fs!TypeOK, Fs!Done
<1>3. StillKept /\ l \in (Fs!Kept \cup dropped)' /\ \A k \in Clears : CopiedInv(k)'
  BY <1>1 DEF StillKept, Fs!Kept, Fs!Saved, LogsInv, CopiedInv
<1> QED
  BY <1>1, <1>2, <1>3, LogEnds

\* A step of clear() that loses nothing.
LEMMA ClearMoves ==
  ASSUME Fs!ConstantsAssumption, LogsInv, NEW k \in Clears, NEW c \in Clearings,
         clear' = [clear EXCEPT ![k] = c], UNCHANGED append, StillKept,
         Fs!ToSet(logsCache') \subseteq Fs!ToSet(logsCache), dropped \subseteq dropped',
         Fs!TypeOK',
         c.pc = "committing" => Fs!ToSet(logsCache') \subseteq Fs!ToSet(c.logs) \cup dropped',
         c.pc # "new" => c.date \in Milliseconds,
         \A j \in Clears : clear'[j].pc = "truncating" =>
           Fs!ToSet(file') \subseteq Fs!Saved' \cup dropped'
  PROVE  LogsInv'
<1>1. clear'[k] = c /\ \A j \in Clears \ {k} : clear'[j] = clear[j]
  BY DEF LogsInv, Fs!TypeOK
<1>2. ASSUME NEW m \in Logs
      PROVE  CallInv(m)' /\ Covers(append[m])'
  <2>1. CallInv(m) /\ Covers(append[m]) /\ append' = append
    BY DEF LogsInv
  <2>2. CallInv(m)'
    BY <2>1 DEF CallInv, StillKept
  <2>3. Covers(append[m])'
    BY <2>1, LessIsCovered DEF Covers
  <2> QED
    BY <2>2, <2>3
<1>3. ASSUME NEW j \in Clears
      PROVE  Covers(clear[j])' /\ CopiedInv(j)'
  <2>1. CopiedInv(j)'
    BY DEF CopiedInv
  <2>2. CASE j = k
    BY <1>1, <2>1, <2>2 DEF Covers
  <2>3. CASE j # k
    <3>1. Covers(clear[j]) /\ clear'[j] = clear[j]
      BY <1>1, <2>3 DEF LogsInv
    <3> QED
      BY <2>1, <3>1, LessIsCovered DEF Covers
  <2> QED
    BY <2>2, <2>3
<1> QED
  BY <1>2, <1>3 DEF LogsInv

\* clear() begins: it takes the cache to commit, or drops it.
LEMMA ClearingKeeps ==
  ASSUME Fs!ConstantsAssumption, LogsInv, NEW k \in Clears, Fs!Clear(k)
  PROVE  LogsInv'
<1>0. /\ clear[k].pc = "new" /\ UNCHANGED <<file, saved, console, append, failures, withMemCache>>
      /\ clear[k] \in Clearings /\ logsCache \in Seq(Logs) /\ Fs!ToSet(logsCache) \subseteq Logs
      /\ Fs!ToSet(<<>>) = {} /\ Fs!IsInjective(<<>>) /\ <<>> \in Seq(Logs)
      /\ clear \in [Clears -> Clearings]
  BY DEF Fs!Clear, LogsInv, Fs!TypeOK, Clearings, Fs!ToSet, Fs!IsInjective
<1> SUFFICES ASSUME NEW date \in Milliseconds,
                    \/ /\ clear' = [clear EXCEPT ![k] = [pc |-> "committing", logs |-> logsCache,
                                                         date |-> date]]
                       /\ UNCHANGED <<logsCache, dropped>>
                    \/ /\ clear' = [clear EXCEPT ![k] = [pc |-> "erasing", logs |-> <<>>,
                                                         date |-> date]]
                       /\ logsCache' = <<>>
                       /\ dropped' = dropped \cup Fs!ToSet(logsCache)
             PROVE  LogsInv'
  BY DEF Fs!Clear
<1>1. CASE /\ clear' = [clear EXCEPT ![k] = [pc |-> "committing", logs |-> logsCache, date |-> date]]
           /\ UNCHANGED <<logsCache, dropped>>
  <2> DEFINE c == [pc |-> "committing", logs |-> logsCache, date |-> date]
  <2>1. c \in Clearings /\ c.pc = "committing" /\ c.logs = logsCache /\ c.date = date
    BY <1>0 DEF Clearings
  <2>2. clear' = [clear EXCEPT ![k] = c]
    BY <1>1
  <2> HIDE DEF c
  <2>3. /\ clear' \in [Clears -> Clearings] /\ clear'[k] = c
        /\ \A j \in Clears \ {k} : clear'[j] = clear[j]
    BY <1>0, <2>1, <2>2
  <2>4. Fs!TypeOK'
    BY <1>0, <1>1, <2>1, <2>3 DEF LogsInv, Fs!TypeOK, Clearings
  <2>5. StillKept /\ Fs!ToSet(logsCache') \subseteq Fs!ToSet(c.logs)
    BY <1>0, <1>1, <2>1 DEF StillKept, Fs!Kept, Fs!Saved
  <2>6. \A j \in Clears : clear'[j].pc = "truncating" =>
          Fs!ToSet(file') \subseteq Fs!Saved' \cup dropped'
    BY <1>0, <1>1, <2>1, <2>3 DEF LogsInv, CopiedInv, Fs!Saved
  <2> QED
    BY <1>0, <1>1, <2>1, <2>2, <2>4, <2>5, <2>6, ClearMoves
<1>2. CASE /\ clear' = [clear EXCEPT ![k] = [pc |-> "erasing", logs |-> <<>>, date |-> date]]
           /\ logsCache' = <<>>
           /\ dropped' = dropped \cup Fs!ToSet(logsCache)
  <2> DEFINE c == [pc |-> "erasing", logs |-> <<>>, date |-> date]
  <2>1. c \in Clearings /\ c.pc = "erasing" /\ c.date = date
    BY <1>0 DEF Clearings
  <2>2. clear' = [clear EXCEPT ![k] = c]
    BY <1>2
  <2> HIDE DEF c
  <2>3. /\ clear' \in [Clears -> Clearings] /\ clear'[k] = c
        /\ \A j \in Clears \ {k} : clear'[j] = clear[j]
    BY <1>0, <2>1, <2>2
  <2>4. Fs!TypeOK'
    BY <1>0, <1>2, <2>1, <2>3 DEF LogsInv, Fs!TypeOK, Clearings
  <2>5. StillKept
    BY <1>0, <1>2 DEF StillKept, Fs!Kept, Fs!Saved
  <2>6. \A j \in Clears : clear'[j].pc = "truncating" =>
          Fs!ToSet(file') \subseteq Fs!Saved' \cup dropped'
    BY <1>0, <1>2, <2>1, <2>3 DEF LogsInv, CopiedInv, Fs!Saved
  <2> QED
    BY <1>0, <1>2, <2>1, <2>2, <2>4, <2>5, <2>6, ClearMoves
<1> QED
  BY <1>1, <1>2

\* The cache that clear() took is in the file.
LEMMA CommittedKeeps ==
  ASSUME Fs!ConstantsAssumption, LogsInv, NEW k \in Clears, Fs!Committed(k)
  PROVE  LogsInv'
<1> DEFINE c == [clear[k] EXCEPT !.pc = "copying"]
<1>1. /\ clear[k].pc = "committing" /\ Fs!WriteToFile(clear[k])
      /\ clear' = [clear EXCEPT ![k] = c]
      /\ UNCHANGED <<saved, console, append, failures, withMemCache>>
      /\ clear \in [Clears -> Clearings]
  BY DEF Fs!Committed, LogsInv, Fs!TypeOK, Clearings
<1>2. c \in Clearings /\ c.pc = "copying" /\ c.date = clear[k].date
  BY <1>1 DEF Clearings
<1> HIDE DEF c
<1>3. /\ clear' \in [Clears -> Clearings] /\ clear'[k] = c
      /\ \A j \in Clears \ {k} : clear'[j] = clear[j]
  BY <1>1, <1>2
<1>4. /\ clear[k].logs \in Seq(Logs) /\ Covers(clear[k])
      /\ clear[k].date \in Milliseconds
  BY <1>1 DEF LogsInv, Fs!TypeOK, Clearings
<1>5. /\ file' \in Seq(Logs) /\ dropped' \subseteq Logs
      /\ logsCache' = logsCache \/ logsCache' = <<>>
      /\ Fs!ToSet(logsCache') \subseteq Fs!ToSet(logsCache)
      /\ dropped \subseteq dropped' /\ StillKept
      /\ \A j \in Clears : clear[j].pc = "truncating" =>
           Fs!ToSet(file') \subseteq Fs!Saved \cup dropped'
  BY <1>1, <1>4, WriteKeeps
<1>6. Fs!IsInjective(<<>>) /\ <<>> \in Seq(Logs)
  BY DEF Fs!IsInjective
<1>7. Fs!TypeOK'
  BY <1>1, <1>2, <1>3, <1>4, <1>5, <1>6 DEF LogsInv, Fs!TypeOK, Clearings
<1>8. \A j \in Clears : clear'[j].pc = "truncating" =>
        Fs!ToSet(file') \subseteq Fs!Saved' \cup dropped'
  BY <1>1, <1>2, <1>3, <1>5 DEF Fs!Saved
<1> QED
  BY <1>1, <1>2, <1>4, <1>5, <1>7, <1>8, ClearMoves

\* The old logs are copied: what was in a copy of the same date is dropped.
LEMMA CopiedKeeps ==
  ASSUME Fs!ConstantsAssumption, LogsInv, NEW k \in Clears, Fs!Copied(k)
  PROVE  LogsInv'
<1> DEFINE c == [clear[k] EXCEPT !.pc = "truncating"]
           date == clear[k].date
<1>1. /\ clear[k].pc = "copying" /\ saved' = [saved EXCEPT ![date] = Fs!ToSet(file)]
      /\ dropped' = dropped \cup (saved[date] \ Fs!ToSet(file))
      /\ clear' = [clear EXCEPT ![k] = c]
      /\ UNCHANGED <<logsCache, file, console, append, failures, withMemCache>>
      /\ clear \in [Clears -> Clearings] /\ Fs!ToSet(file) \subseteq Logs
      /\ date \in Milliseconds /\ saved \in [Milliseconds -> SUBSET Logs]
  BY DEF Fs!Copied, LogsInv, Fs!TypeOK, Clearings, Fs!ToSet
<1>2. c \in Clearings /\ c.pc = "truncating" /\ c.date = date
  BY <1>1 DEF Clearings
<1> HIDE DEF c
<1>3. /\ clear' \in [Clears -> Clearings] /\ clear'[k] = c
      /\ \A j \in Clears \ {k} : clear'[j] = clear[j]
  BY <1>1, <1>2
<1> HIDE DEF date
<1>4. /\ saved' \in [Milliseconds -> SUBSET Logs] /\ saved'[date] = Fs!ToSet(file)
      /\ \A d \in Milliseconds \ {date} : saved'[d] = saved[d]
      /\ dropped \subseteq dropped' /\ saved[date] \subseteq Logs
      /\ saved[date] \subseteq Fs!ToSet(file) \cup dropped'
  BY <1>1
<1>5. Fs!TypeOK'
  BY <1>1, <1>2, <1>3, <1>4 DEF LogsInv, Fs!TypeOK, Clearings
<1>6. Fs!Saved \subseteq Fs!Saved' \cup dropped' /\ Fs!ToSet(file) \subseteq Fs!Saved'
  BY <1>1, <1>4 DEF Fs!Saved
<1>7. StillKept
  BY <1>1, <1>4, <1>6 DEF StillKept, Fs!Kept, Fs!Saved
<1>8. \A j \in Clears : clear'[j].pc = "truncating" =>
        Fs!ToSet(file') \subseteq Fs!Saved' \cup dropped'
  BY <1>1, <1>6
<1> QED
  BY <1>1, <1>2, <1>4, <1>5, <1>7, <1>8, ClearMoves

\* What is left of a call of clear() that has ended.
LEMMA ClearEnds ==
  ASSUME LogsInv, NEW k \in Clears, clear[k].pc # "new", Fs!EndClear(k)
  PROVE  \E c \in Clearings :
           /\ c.pc = "done" /\ c.date \in Milliseconds
           /\ clear' = [clear EXCEPT ![k] = c]
           /\ clear' \in [Clears -> Clearings] /\ clear'[k] = c
           /\ \A j \in Clears \ {k} : clear'[j] = clear[j]
<1> DEFINE c == [clear[k] EXCEPT !.pc = "done", !.logs = <<>>]
<1>0. clear \in [Clears -> Clearings] /\ clear[k].date \in Milliseconds
  BY DEF LogsInv, Fs!TypeOK, Clearings
<1>1. clear' = [clear EXCEPT ![k] = c]
  BY <1>0 DEF Fs!EndClear
<1>2. <<>> \in Seq(Logs)
  OBVIOUS
<1>3. c \in Clearings /\ c.pc = "done" /\ c.date = clear[k].date
  BY <1>0, <1>2 DEF Clearings
<1> HIDE DEF c
<1> QED
  BY <1>0, <1>1, <1>3

\* The file is emptied, after it was copied or to erase it.
LEMMA TruncatedKeeps ==
  ASSUME Fs!ConstantsAssumption, LogsInv, NEW k \in Clears, Fs!Truncated(k)
  PROVE  LogsInv'
<1>1. /\ clear[k].pc \in {"truncating", "erasing"} /\ file' = <<>>
      /\ dropped' = IF clear[k].pc = "erasing" THEN dropped \cup Fs!ToSet(file) ELSE dropped
      /\ Fs!EndClear(k)
      /\ UNCHANGED <<logsCache, saved, console, append, failures, withMemCache>>
      /\ Fs!ToSet(file) \subseteq Logs
  BY DEF Fs!Truncated, LogsInv, Fs!TypeOK, Fs!ToSet
<1>2. Fs!ToSet(<<>>) = {} /\ <<>> \in Seq(Logs)
  BY DEF Fs!ToSet
<1>3. PICK c \in Clearings :
         /\ c.pc = "done" /\ c.date \in Milliseconds
         /\ clear' = [clear EXCEPT ![k] = c]
         /\ clear' \in [Clears -> Clearings] /\ clear'[k] = c
         /\ \A j \in Clears \ {k} : clear'[j] = clear[j]
  BY <1>1, ClearEnds
<1>4. Fs!TypeOK'
  BY <1>1, <1>2, <1>3 DEF LogsInv, Fs!TypeOK, Clearings
<1>5. StillKept
  BY <1>1, <1>2 DEF StillKept, Fs!Kept, Fs!Saved, LogsInv, CopiedInv
<1>6. \A j \in Clears : clear'[j].pc = "truncating" =>
        Fs!ToSet(file') \subseteq Fs!Saved' \cup dropped'
  BY <1>1, <1>2
<1> QED
  BY <1>1, <1>3, <1>4, <1>5, <1>6, ClearMoves

\* clear() fails between two of its steps.
LEMMA ClearFailsKeeps ==
  ASSUME Fs!ConstantsAssumption, LogsInv, NEW k \in Clears, Fs!ClearFails(k)
  PROVE  LogsInv'
<1>1. /\ failures < MaxFailures /\ failures' = failures + 1 /\ clear[k].pc # "new"
      /\ Fs!EndClear(k)
      /\ UNCHANGED <<logsCache, file, saved, console, append, dropped, withMemCache>>
      /\ failures' \in 0 .. MaxFailures
  BY DEF Fs!ClearFails, LogsInv, Fs!TypeOK, Fs!ConstantsAssumption
<1>2. PICK c \in Clearings :
         /\ c.pc = "done" /\ c.date \in Milliseconds
         /\ clear' = [clear EXCEPT ![k] = c]
         /\ clear' \in [Clears -> Clearings] /\ clear'[k] = c
         /\ \A j \in Clears \ {k} : clear'[j] = clear[j]
  BY <1>1, ClearEnds
<1>3. Fs!TypeOK'
  BY <1>1, <1>2 DEF LogsInv, Fs!TypeOK, Clearings
<1>4. StillKept
  BY <1>1 DEF StillKept, Fs!Kept, Fs!Saved
<1>5. \A j \in Clears : clear'[j].pc = "truncating" =>
        Fs!ToSet(file') \subseteq Fs!Saved' \cup dropped'
  BY <1>1, <1>2 DEF LogsInv, CopiedInv, Fs!Saved
<1> QED
  BY <1>1, <1>2, <1>3, <1>4, <1>5, ClearMoves

\* A log that info() accepted is in the cache, on its way to the file, in the file,
\* in a copy of it or on the console, or was lost at a moment the code loses logs at.
THEOREM LogsKept ==
  ASSUME Fs!ConstantsAssumption
  PROVE  Fs!Spec => []LogsAreKept
<1>1. Fs!Init => LogsInv
  BY LogsInit
<1>2. LogsInv /\ [Fs!Next]_(Fs!vars) => LogsInv'
  <2> SUFFICES ASSUME LogsInv, [Fs!Next]_(Fs!vars)
               PROVE  LogsInv'
    OBVIOUS
  <2>1. CASE UNCHANGED Fs!vars
    BY <2>1 DEF Fs!vars, LogsInv, Fs!TypeOK, CallInv, Covers, CopiedInv, Fs!Kept, Fs!Saved
  <2> QED
    BY <2>1, InfoKeeps, AppendedKeeps, AppendFailsKeeps, ClearingKeeps, CommittedKeeps,
       CopiedKeeps, TruncatedKeeps, ClearFailsKeeps DEF Fs!Next
<1>3. LogsInv => Fs!TypeOK /\ Fs!LogsAreKept
  BY DEF LogsInv, CallInv, Fs!LogsAreKept
<1> QED
  BY <1>1, <1>2, <1>3, PTL DEF Fs!Spec, LogsAreKept

-----------------------------------------------------------------------------
(* The authorization of the management services                            *)

\* The outcome is that of the session the call came with.
SessionInv ==
  /\ permission \in Auth!PermissionsNoWildCard
  /\ session \in Auth!Sessions \cup {Auth!NoSession}
  /\ outcome = "called" =>
       session # Auth!NoSession /\ Auth!IsPermissionsMatches(permission, Auth!Credential(session))
  /\ outcome = "AuthorizationException" =>
       /\ session # Auth!NoSession
       /\ ~Auth!IsPermissionsMatches(permission, Auth!Credential(session))

\* The tests of the code, one after the other, are right about every permission.
LEMMA MatchesAreCovered ==
  ASSUME Auth!ConstantsAssumption, NEW t \in Auth!PermissionsNoWildCard,
         NEW p \in Auth!Permissions
  PROVE  Auth!Matches(t, p) <=> t \in Auth!Covers(p)
<1>1. /\ t = <<t[1], t[2], t[3]>> /\ t[1] \in Topics /\ t[2] \in Auth!Operations
      /\ t[3] \in Actions
      /\ t[1] # "*" /\ t[2] # "*" /\ t[3] # "*"
  BY DEF Auth!ConstantsAssumption, Auth!PermissionsNoWildCard, Auth!Operations
<1>2. CASE p = <<"*">>
  BY <1>2 DEF Auth!Matches, Auth!Covers
<1>3. CASE p \in {<<u, "*">> : u \in Topics \cup {"*"}}
  <2>1. PICK u \in Topics \cup {"*"} : p = <<u, "*">>
    BY <1>3
  <2>2. /\ Len(p) = 2 /\ p # <<"*">> /\ p # t
        /\ Auth!Part(p, 1) = u /\ Auth!Part(p, 2) = "*" /\ Auth!Part(p, 3) = "undefined"
    BY <1>1, <2>1 DEF Auth!Part
  <2>3. Auth!Matches(t, p) <=> u = t[1]
    BY <1>1, <2>2 DEF Auth!Matches
  <2>4. Auth!Covers(p) = {q \in Auth!PermissionsNoWildCard : q[1] = u}
    BY <2>1, <2>2 DEF Auth!Covers
  <2> QED
    BY <2>3, <2>4
<1>4. CASE p \in (Topics \cup {"*"}) \X Auth!Operations \X (Actions \cup {"*"})
  <2>1. /\ p = <<p[1], p[2], p[3]>> /\ p[1] \in Topics \cup {"*"} /\ p[2] \in Auth!Operations
        /\ p[3] \in Actions \cup {"*"}
    BY <1>4
  <2>2. /\ Len(p) = 3 /\ p # <<"*">> /\ p[2] # "*"
        /\ Auth!Part(p, 1) = p[1] /\ Auth!Part(p, 2) = p[2] /\ Auth!Part(p, 3) = p[3]
    <3>1. PICK x, y, z : p = <<x, y, z>>
      BY <2>1
    <3>2. Len(p) = 3 /\ p # <<"*">>
      BY <3>1
    <3>3. p[2] # "*"
      BY <2>1 DEF Auth!Operations
    <3> QED
      BY <3>2, <3>3 DEF Auth!Part
  <2>3. Auth!Matches(t, p) <=> \/ p = t
                               \/ p[1] = "*" /\ p[2] = t[2] /\ p[3] = "*"
                               \/ p[1] = t[1] /\ p[2] = t[2] /\ p[3] \in {"*", t[3]}
    BY <2>2 DEF Auth!Matches
  <2>4. CASE p[3] = "*"
    <3>1. Auth!Covers(p) =
            {q \in Auth!PermissionsNoWildCard : q[2] = p[2] /\ p[1] \in {"*", q[1]}}
      BY <2>2, <2>4 DEF Auth!Covers
    <3> QED
      BY <1>1, <2>3, <2>4, <3>1
  <2>5. CASE p[3] # "*"
    <3>1. Auth!Covers(p) = {p}
      BY <2>2, <2>5 DEF Auth!Covers
    <3> QED
      BY <1>1, <2>1, <2>3, <2>5, <3>1
  <2> QED
    BY <2>4, <2>5
<1> QED
  BY <1>2, <1>3, <1>4 DEF Auth!Permissions

\* So they are about what is held.
LEMMA HeldCovers ==
  ASSUME Auth!ConstantsAssumption, permission \in Auth!PermissionsNoWildCard, NEW ps \in Auth!Held
  PROVE  Auth!IsPermissionsMatches(permission, ps) <=> Auth!Covered(ps)
<1>1. ps \subseteq Auth!Permissions
  BY DEF Auth!Held
<1> QED
  BY <1>1, MatchesAreCovered DEF Auth!IsPermissionsMatches, Auth!Covered

\* The method behind @Authorize is called for exactly the sessions whose credentials
\* cover the permission the decorator names.
THEOREM CoveredCallsPass ==
  ASSUME Auth!ConstantsAssumption
  PROVE  Auth!Spec => []ExactlyCoveredCallsPass
<1>1. Auth!Init => SessionInv
  BY DEF Auth!Init, SessionInv
<1>2. SessionInv /\ [Auth!Next]_(Auth!vars) => SessionInv'
  <2> SUFFICES ASSUME SessionInv, [Auth!Next]_(Auth!vars)
               PROVE  SessionInv'
    OBVIOUS
  <2>1. CASE Auth!Authorize
    BY <2>1 DEF Auth!Authorize, SessionInv
  <2>2. CASE UNCHANGED Auth!vars
    BY <2>2 DEF Auth!vars, SessionInv
  <2> QED
    BY <2>1, <2>2 DEF Auth!Next
<1>3. SessionInv => Auth!ExactlyCoveredCallsPass
  <2> SUFFICES ASSUME SessionInv, session # Auth!NoSession
               PROVE  Auth!ExactlyCoveredCallsPass
    BY DEF SessionInv, Auth!ExactlyCoveredCallsPass, Auth!OnlyCoveredCallsPass,
           Auth!CoveredCallsAreNotRefused
  <2>1. session \in Auth!Sessions
    BY DEF SessionInv
  <2>2. /\ session.user \in Auth!Held
        /\ session.client # None => session.client \in Auth!Held
        /\ session.apiKey # None => session.apiKey \in Auth!Held
        /\ permission \in Auth!PermissionsNoWildCard
    BY <2>1 DEF Auth!Sessions, SessionInv
  <2>3. CASE session.apiKey # None
    BY <2>2, <2>3, HeldCovers
    DEF Auth!Credential, SessionInv, Auth!ExactlyCoveredCallsPass,
        Auth!OnlyCoveredCallsPass,
        Auth!CoveredCallsAreNotRefused
  <2>4. CASE session.apiKey = None /\ session.client # None
    BY <2>2, <2>4, HeldCovers
    DEF Auth!Credential, SessionInv, Auth!ExactlyCoveredCallsPass,
        Auth!OnlyCoveredCallsPass,
        Auth!CoveredCallsAreNotRefused
  <2>5. CASE session.apiKey = None /\ session.client = None
    BY <2>2, <2>5, HeldCovers
    DEF Auth!Credential, SessionInv, Auth!ExactlyCoveredCallsPass,
        Auth!OnlyCoveredCallsPass,
        Auth!CoveredCallsAreNotRefused
  <2> QED
    BY <2>3, <2>4, <2>5
<1> QED
  BY <1>1, <1>2, <1>3, PTL DEF Auth!Spec, ExactlyCoveredCallsPass

-----------------------------------------------------------------------------
(* The set-up of the application                                           *)

PCs == Start!Parts \cup {"connecting", "registered", "done", "failed"}

SetupTypes ==
  /\ pc \in [Initializers -> PCs]
  /\ initialized \subseteq Start!Parts
  /\ jobs \in [Start!Jobs -> Nat]
  /\ answers \in {{}, Start!Questions}
  /\ handlers \in BOOLEAN /\ connected \in {{}, {"mongodb"}}
  /\ missing \subseteq Start!Sources \cup {"cloudinary"}
  /\ together \in BOOLEAN /\ destroyed \in BOOLEAN

\* A call that has come past a part left it set up, and found what that needed in
\* the environment.
Passed(c) ==
  /\ pc[c] # "logger" /\ pc[c] # "failed" => "logger" \in initialized
  /\ pc[c] \in {"broker", "media", "webhooks", "registered", "done"} =>
       "persistence" \in initialized
  /\ pc[c] \in {"media", "webhooks", "registered", "done"} => "broker" \in initialized
  /\ pc[c] \in {"webhooks", "registered", "done"} => "media" \in initialized
  /\ pc[c] = "done" => "webhooks" \in initialized
  /\ pc[c] = "failed" => missing # {} \/ c \in refused \/ together
  /\ pc[c] \notin {"logger", "persistence", "failed"} => missing \cap Start!Sources = {}
  /\ pc[c] \in {"webhooks", "registered", "done"} => "cloudinary" \notin missing

\* The flag of a part says what was registered for it; between the registration
\* of the webhooks' handler and their flag one call is on its way.
FlagsInv ==
  /\ jobs["clearLogs"] = IF "logger" \in initialized THEN 1 ELSE 0
  /\ jobs["retryFailedEvents"] = IF "broker" \in initialized THEN 1 ELSE 0
  /\ jobs["retryOutboxEvents"] = IF "webhooks" \in initialized THEN 1 ELSE 0
  /\ answers = IF "media" \in initialized THEN Start!Questions ELSE {}
  /\ "webhooks" \in initialized => handlers
  /\ handlers /\ "webhooks" \notin initialized => \E c \in Initializers : pc[c] = "registered"
  /\ \A c \in Initializers : pc[c] = "registered" => handlers /\ "webhooks" \notin initialized
  /\ \A c, d \in Initializers : pc[c] = "registered" /\ pc[d] = "registered" => c = d

\* Only a call that connects while another does backs up a second time.
BackupInv ==
  /\ "persistence" \notin initialized => jobs["backup"] = 0
  /\ "persistence" \in initialized => jobs["backup"] > 0 /\ (connected = {"mongodb"} \/ destroyed)
  /\ jobs["backup"] > 1 => together
  /\ "persistence" \in initialized /\ (\E c \in Initializers : pc[c] = "connecting") => together
  /\ \A c, d \in Initializers : pc[c] = "connecting" /\ pc[d] = "connecting" => c = d \/ together

\* The inductive invariant.
StartupInv == SetupTypes /\ FlagsInv /\ BackupInv /\ \A c \in Initializers : Passed(c)

\* Parts are only added, and what is known of a call stays so.
LEMMA PassedKept ==
  ASSUME SetupTypes, NEW c \in Initializers, NEW next \in PCs, Start!Goes(c, next),
         \A d \in Initializers : Passed(d),
         initialized \subseteq initialized', together => together',
         refused \subseteq refused', missing' = missing,
         Passed(c)'
  PROVE  /\ pc' \in [Initializers -> PCs] /\ pc'[c] = next
         /\ \A d \in Initializers \ {c} : pc'[d] = pc[d]
         /\ \A d \in Initializers : Passed(d)'
<1>1. /\ pc' \in [Initializers -> PCs] /\ pc'[c] = next
      /\ \A d \in Initializers \ {c} : pc'[d] = pc[d]
  BY DEF SetupTypes, Start!Goes
<1>2. ASSUME NEW d \in Initializers \ {c}
      PROVE  Passed(d)'
  <2>1. Passed(d) /\ pc'[d] = pc[d]
    BY <1>1
  <2> QED
    BY <2>1 DEF Passed
<1> QED
  BY <1>1, <1>2

\* One more of a job.
LEMMA OneMore ==
  ASSUME SetupTypes, NEW j \in Start!Jobs, Start!Registers(j)
  PROVE  /\ jobs' \in [Start!Jobs -> Nat] /\ jobs'[j] = jobs[j] + 1
         /\ \A i \in Start!Jobs \ {j} : jobs'[i] = jobs[i]
BY DEF SetupTypes, Start!Registers

\* An Init that returned leaves everything set up, the jobs are registered once but
\* for the backup by two connects at once, and Init may be called again.
THEOREM StartupSound == Start!Spec => []StartupIsSound
<1>1. Start!Init => StartupInv
  <2> SUFFICES ASSUME Start!Init
               PROVE  StartupInv
    OBVIOUS
  <2>1. SetupTypes
    BY DEF Start!Init, SetupTypes, PCs, Start!Parts
  <2>2. FlagsInv
    BY DEF Start!Init, FlagsInv, Start!Jobs
  <2>3. BackupInv
    BY DEF Start!Init, BackupInv, Start!Jobs
  <2>4. \A c \in Initializers : Passed(c)
    BY DEF Start!Init, Passed
  <2> QED
    BY <2>1, <2>2, <2>3, <2>4 DEF StartupInv
<1>2. StartupInv /\ [Start!Next]_(Start!vars) => StartupInv'
  <2> SUFFICES ASSUME StartupInv, [Start!Next]_(Start!vars)
               PROVE  StartupInv'
    OBVIOUS
  <2>0. SetupTypes /\ FlagsInv /\ BackupInv /\ \A c \in Initializers : Passed(c)
    BY DEF StartupInv
  <2>1. CASE UNCHANGED Start!vars
    BY <2>0, <2>1 DEF Start!vars, StartupInv, SetupTypes, FlagsInv, BackupInv, Passed
  <2>2. CASE Start!Destroy
    BY <2>0, <2>2 DEF Start!Destroy, StartupInv, SetupTypes, FlagsInv, BackupInv, Passed
  <2>3. ASSUME NEW c \in Initializers, Start!LoggerSetup(c)
        PROVE  StartupInv'
    <3>1. /\ pc[c] = "logger" /\ Start!Goes(c, "persistence")
          /\ initialized' = initialized \cup {"logger"}
          /\ "logger" \notin initialized => Start!Registers("clearLogs")
          /\ "logger" \in initialized => jobs' = jobs
          /\ UNCHANGED <<answers, handlers, missing, connected, refused, together, destroyed>>
      BY <2>3 DEF Start!LoggerSetup, Start!RegistersOnce
    <3>2. /\ jobs' \in [Start!Jobs -> Nat] /\ jobs'["clearLogs"] = 1
          /\ \A i \in Start!Jobs \ {"clearLogs"} : jobs'[i] = jobs[i]
      BY <2>0, <3>1, OneMore DEF FlagsInv, Start!Jobs, SetupTypes
    <3>3. Passed(c)'
      BY <2>0, <3>1 DEF Passed, Start!Goes, SetupTypes
    <3>4. /\ pc' \in [Initializers -> PCs] /\ pc'[c] = "persistence"
          /\ \A d \in Initializers \ {c} : pc'[d] = pc[d]
          /\ \A d \in Initializers : Passed(d)'
      BY <2>0, <3>1, <3>3, PassedKept DEF PCs, Start!Parts
    <3>5. SetupTypes'
      BY <2>0, <3>1, <3>2, <3>4 DEF SetupTypes, Start!Parts
    <3>6. FlagsInv'
      BY <2>0, <3>1, <3>2, <3>4 DEF FlagsInv, Start!Jobs
    <3>7. BackupInv'
      BY <2>0, <3>1, <3>2, <3>4 DEF BackupInv, Start!Jobs
    <3> QED
      BY <3>4, <3>5, <3>6, <3>7 DEF StartupInv
  <2>4. ASSUME NEW c \in Initializers, Start!PersistenceSetup(c)
        PROVE  StartupInv'
    <3> DEFINE next == IF missing \cap Start!Sources # {} THEN "failed"
                       ELSE IF "persistence" \in initialized THEN "broker" ELSE "connecting"
    <3>1. /\ pc[c] = "persistence" /\ Start!Goes(c, next) /\ next \in PCs
          /\ together' = (together \/ (pc'[c] = "connecting"
                                           /\ \E d \in Initializers : pc[d] = "connecting"))
          /\ UNCHANGED <<initialized, jobs, answers, handlers, missing, connected, refused, destroyed>>
      BY <2>4 DEF Start!PersistenceSetup, PCs, Start!Parts
    <3>3. Passed(c)'
      BY <2>0, <3>1 DEF Passed, Start!Goes, SetupTypes
    <3>4. /\ pc' \in [Initializers -> PCs] /\ pc'[c] = next
          /\ \A d \in Initializers \ {c} : pc'[d] = pc[d]
          /\ \A d \in Initializers : Passed(d)'
      BY <2>0, <3>1, <3>3, PassedKept
    <3>5. SetupTypes'
      BY <2>0, <3>1, <3>4 DEF SetupTypes
    <3>6. FlagsInv'
      BY <2>0, <3>1, <3>4 DEF FlagsInv
    <3>7. BackupInv'
      BY <2>0, <3>1, <3>4 DEF BackupInv
    <3> QED
      BY <3>4, <3>5, <3>6, <3>7 DEF StartupInv
  <2>5. ASSUME NEW c \in Initializers, Start!Connected(c)
        PROVE  StartupInv'
    <3>1. /\ pc[c] = "connecting" /\ Start!Goes(c, "broker") /\ Start!Registers("backup")
          /\ initialized' = initialized \cup {"persistence"} /\ connected' = {"mongodb"}
          /\ UNCHANGED <<answers, handlers, missing, refused, together, destroyed>>
      BY <2>0, <2>5 DEF Start!Connected, SetupTypes
    <3>2. /\ jobs' \in [Start!Jobs -> Nat] /\ jobs'["backup"] = jobs["backup"] + 1
          /\ \A i \in Start!Jobs \ {"backup"} : jobs'[i] = jobs[i]
      BY <2>0, <3>1, OneMore DEF Start!Jobs
    <3>3. Passed(c)'
      BY <2>0, <3>1 DEF Passed, Start!Goes, SetupTypes
    <3>4. /\ pc' \in [Initializers -> PCs] /\ pc'[c] = "broker"
          /\ \A d \in Initializers \ {c} : pc'[d] = pc[d]
          /\ \A d \in Initializers : Passed(d)'
      BY <2>0, <3>1, <3>3, PassedKept DEF PCs, Start!Parts
    <3>5. SetupTypes'
      BY <2>0, <3>1, <3>2, <3>4 DEF SetupTypes, Start!Parts
    <3>6. FlagsInv'
      BY <2>0, <3>1, <3>2, <3>4 DEF FlagsInv, Start!Jobs
    <3>7. BackupInv'
      BY <2>0, <3>1, <3>2, <3>4 DEF BackupInv, Start!Jobs, SetupTypes
    <3> QED
      BY <3>4, <3>5, <3>6, <3>7 DEF StartupInv
  <2>6. ASSUME NEW c \in Initializers, Start!ConnectFails(c)
        PROVE  StartupInv'
    <3>1. /\ pc[c] = "connecting" /\ Start!Goes(c, "failed") /\ refused' = refused \cup {c}
          /\ UNCHANGED <<initialized, jobs, answers, handlers, missing, connected, together, destroyed>>
      BY <2>6 DEF Start!ConnectFails
    <3>3. Passed(c)'
      BY <2>0, <3>1 DEF Passed, Start!Goes, SetupTypes
    <3>4. /\ pc' \in [Initializers -> PCs] /\ pc'[c] = "failed"
          /\ \A d \in Initializers \ {c} : pc'[d] = pc[d]
          /\ \A d \in Initializers : Passed(d)'
      BY <2>0, <3>1, <3>3, PassedKept DEF PCs
    <3>5. SetupTypes'
      BY <2>0, <3>1, <3>4 DEF SetupTypes
    <3>6. FlagsInv'
      BY <2>0, <3>1, <3>4 DEF FlagsInv
    <3>7. BackupInv'
      BY <2>0, <3>1, <3>4 DEF BackupInv
    <3> QED
      BY <3>4, <3>5, <3>6, <3>7 DEF StartupInv
  <2>7. ASSUME NEW c \in Initializers, Start!MessagesBrokerSetup(c)
        PROVE  StartupInv'
    <3>1. /\ pc[c] = "broker" /\ Start!Goes(c, "media")
          /\ initialized' = initialized \cup {"broker"}
          /\ "broker" \notin initialized => Start!Registers("retryFailedEvents")
          /\ "broker" \in initialized => jobs' = jobs
          /\ UNCHANGED <<answers, handlers, missing, connected, refused, together, destroyed>>
      BY <2>7 DEF Start!MessagesBrokerSetup, Start!RegistersOnce
    <3>2. /\ jobs' \in [Start!Jobs -> Nat] /\ jobs'["retryFailedEvents"] = 1
          /\ \A i \in Start!Jobs \ {"retryFailedEvents"} : jobs'[i] = jobs[i]
      BY <2>0, <3>1, OneMore DEF FlagsInv, Start!Jobs, SetupTypes
    <3>3. Passed(c)'
      BY <2>0, <3>1 DEF Passed, Start!Goes, SetupTypes
    <3>4. /\ pc' \in [Initializers -> PCs] /\ pc'[c] = "media"
          /\ \A d \in Initializers \ {c} : pc'[d] = pc[d]
          /\ \A d \in Initializers : Passed(d)'
      BY <2>0, <3>1, <3>3, PassedKept DEF PCs, Start!Parts
    <3>5. SetupTypes'
      BY <2>0, <3>1, <3>2, <3>4 DEF SetupTypes, Start!Parts
    <3>6. FlagsInv'
      BY <2>0, <3>1, <3>2, <3>4 DEF FlagsInv, Start!Jobs
    <3>7. BackupInv'
      BY <2>0, <3>1, <3>2, <3>4 DEF BackupInv, Start!Jobs
    <3> QED
      BY <3>4, <3>5, <3>6, <3>7 DEF StartupInv
  <2>8. ASSUME NEW c \in Initializers, Start!MediaManagerSetup(c)
        PROVE  StartupInv'
    <3> DEFINE next == IF "cloudinary" \in missing THEN "failed" ELSE "webhooks"
    <3>1. /\ pc[c] = "media" /\ Start!Goes(c, next) /\ next \in PCs
          /\ \/ "cloudinary" \in missing /\ UNCHANGED <<initialized, answers>>
             \/ /\ "cloudinary" \notin missing
                /\ initialized' = initialized \cup {"media"} /\ answers' = Start!Questions
          /\ UNCHANGED <<jobs, handlers, missing, connected, refused, together, destroyed>>
      BY <2>0, <2>8 DEF Start!MediaManagerSetup, FlagsInv, PCs, Start!Parts
    <3>2. initialized \subseteq initialized' /\ initialized' \subseteq Start!Parts
      BY <2>0, <3>1 DEF SetupTypes, Start!Parts
    <3>3. Passed(c)'
      <4>1. pc'[c] = next
        BY <2>0, <3>1 DEF Start!Goes, SetupTypes
      <4> QED
        BY <2>0, <3>1, <4>1 DEF Passed
    <3>4. /\ pc' \in [Initializers -> PCs] /\ pc'[c] = next
          /\ \A d \in Initializers \ {c} : pc'[d] = pc[d]
          /\ \A d \in Initializers : Passed(d)'
      BY <2>0, <3>1, <3>2, <3>3, PassedKept
    <3>5. SetupTypes'
      BY <2>0, <3>1, <3>2, <3>4 DEF SetupTypes
    <3>6. FlagsInv'
      BY <2>0, <3>1, <3>4 DEF FlagsInv
    <3>7. BackupInv'
      BY <2>0, <3>1, <3>4 DEF BackupInv
    <3> QED
      BY <3>4, <3>5, <3>6, <3>7 DEF StartupInv
  <2>9. ASSUME NEW c \in Initializers, Start!WebhooksManagerSetup(c)
        PROVE  StartupInv'
    <3> DEFINE next == IF "webhooks" \in initialized THEN "done"
                       ELSE IF handlers THEN "failed" ELSE "registered"
    <3>1. /\ pc[c] = "webhooks" /\ Start!Goes(c, next) /\ next \in PCs
          /\ handlers' = (handlers \/ "webhooks" \notin initialized)
          /\ together' = (together \/ (pc'[c] = "failed"
                                           /\ \E d \in Initializers : pc[d] = "registered"))
          /\ UNCHANGED <<initialized, jobs, answers, missing, connected, refused, destroyed>>
      BY <2>9 DEF Start!WebhooksManagerSetup, PCs
    <3>2. pc'[c] = next /\ (next = "failed" => together')
      BY <2>0, <3>1 DEF Start!Goes, SetupTypes, FlagsInv
    <3>3. Passed(c)'
      BY <2>0, <3>1, <3>2 DEF Passed
    <3>4. /\ pc' \in [Initializers -> PCs] /\ pc'[c] = next
          /\ \A d \in Initializers \ {c} : pc'[d] = pc[d]
          /\ \A d \in Initializers : Passed(d)'
      BY <2>0, <3>1, <3>3, PassedKept
    <3>5. SetupTypes'
      BY <2>0, <3>1, <3>4 DEF SetupTypes
    <3>6. FlagsInv'
      BY <2>0, <3>1, <3>4 DEF FlagsInv
    <3>7. BackupInv'
      BY <2>0, <3>1, <3>4 DEF BackupInv
    <3> QED
      BY <3>4, <3>5, <3>6, <3>7 DEF StartupInv
  <2>10. ASSUME NEW c \in Initializers, Start!HandlerRegistered(c)
         PROVE  StartupInv'
    <3>1. /\ pc[c] = "registered" /\ Start!Goes(c, "done") /\ Start!Registers("retryOutboxEvents")
          /\ initialized' = initialized \cup {"webhooks"}
          /\ UNCHANGED <<answers, handlers, missing, connected, refused, together, destroyed>>
      BY <2>10 DEF Start!HandlerRegistered
    <3>2. /\ jobs' \in [Start!Jobs -> Nat] /\ jobs'["retryOutboxEvents"] = 1
          /\ \A i \in Start!Jobs \ {"retryOutboxEvents"} : jobs'[i] = jobs[i]
      BY <2>0, <3>1, OneMore DEF FlagsInv, Start!Jobs
    <3>3. Passed(c)'
      BY <2>0, <3>1 DEF Passed, Start!Goes, SetupTypes
    <3>4. /\ pc' \in [Initializers -> PCs] /\ pc'[c] = "done"
          /\ \A d \in Initializers \ {c} : pc'[d] = pc[d]
          /\ \A d \in Initializers : Passed(d)'
      BY <2>0, <3>1, <3>3, PassedKept DEF PCs
    <3>5. SetupTypes'
      BY <2>0, <3>1, <3>2, <3>4 DEF SetupTypes, Start!Parts
    <3>6. FlagsInv'
      BY <2>0, <3>1, <3>2, <3>4 DEF FlagsInv, Start!Jobs
    <3>7. BackupInv'
      BY <2>0, <3>1, <3>2, <3>4 DEF BackupInv, Start!Jobs
    <3> QED
      BY <3>4, <3>5, <3>6, <3>7 DEF StartupInv
  <2> QED
    BY <2>1, <2>2, <2>3, <2>4, <2>5, <2>6, <2>7, <2>8, <2>9, <2>10
    DEF Start!Next, Start!Step
<1>3. StartupInv => Start!StartupIsSound
  <2> SUFFICES ASSUME StartupInv
               PROVE  /\ Start!ReadyIsComplete
                      /\ Start!JobsAreRegisteredOnce
                      /\ Start!InitMayBeRepeated
    BY DEF Start!StartupIsSound
  <2>1. Start!ReadyIsComplete
    BY DEF StartupInv, Start!ReadyIsComplete, Passed, SetupTypes, FlagsInv, BackupInv,
           Start!Jobs, Start!Sources
  <2>2. Start!JobsAreRegisteredOnce
    BY DEF StartupInv, Start!JobsAreRegisteredOnce, FlagsInv, BackupInv, Start!Jobs
  <2>3. Start!InitMayBeRepeated
    BY DEF StartupInv, Start!InitMayBeRepeated, Passed
  <2> QED
    BY <2>1, <2>2, <2>3
<1> QED
  BY <1>1, <1>2, <1>3, PTL DEF Start!Spec, StartupIsSound

-----------------------------------------------------------------------------
(* The media manager                                                       *)

UploadCalls ==
  [at : Media!Stages, path : Media!Paths, type : STRING, next : 1 .. Len(Compressors) + 1,
   name : Media!Names \cup {Media!NoName}]

InCloud == {"copied", "uploaded", "saved", "done"}

\* An object is named before it is stored, and then the provider knows it by that.
Named(u) ==
  /\ call[u].at \in {"new", "compress"} => call[u].name = Media!NoName
  /\ call[u].at \in InCloud => call[u].name # Media!NoName
  /\ call[u].at \in {"uploaded", "saved", "done"} => ids[u] = call[u].name
  /\ u \in assets => call[u].at \in {"saved", "done"}

\* It is the last one stored under its name, but for one of the same name.
InPlace(u) ==
  call[u].at \in InCloud /\ u \notin removed =>
    \/ call[u].name \in DOMAIN cloud /\ cloud[call[u].name] = u
    \/ \E v \in Uploads \ {u} : call[v].name = call[u].name

\* Once the compressors are through the original is not there if one took part,
\* and once the upload has returned the file that was uploaded is not.
Gone(u, p) ==
  /\ call[u].at \in {"upload", "copied", "uploaded", "saved", "done"} /\ p[2] = 0 =>
       call[u].path[2] = 0
  /\ call[u].at = "done" => p # call[u].path

\* Compressors come one after the other: what is in the upload folder was written
\* by the last that took part or by one before it; and a file is gone when it
\* should be, but where its removal failed.
Files(u) ==
  /\ call[u].path[2] < call[u].next
  /\ call[u].at = "new" => call[u].path[2] = 0
  /\ \A p \in local : p[1] = u =>
       /\ call[u].at # "new"
       /\ p[2] <= call[u].path[2]
       /\ p \in stuck \/ Gone(u, p)

MediaInv ==
  /\ Media!TypeOK
  /\ \A u \in Uploads : Named(u) /\ InPlace(u) /\ Files(u)
  /\ \A d \in Deletes, u \in Uploads : remove[d] = <<u>> => u \in assets

\* Sizes and names.
LEMMA MediaNumbers ==
  ASSUME Media!ConstantsAssumption
  PROVE  /\ Len(Compressors) \in Nat
         /\ \A i \in 1 .. Len(Compressors) : Compressors[i].to \in STRING
         /\ Media!NoName \notin Media!Names
         /\ \A p \in Media!Paths : p = <<p[1], p[2]>> /\ p[2] \in Nat
         /\ \A u \in Uploads : \A i \in 0 .. Len(Compressors) :
              <<u, i>> \in Media!Paths /\ <<u, i>>[1] = u /\ <<u, i>>[2] = i
<1>1. Len(Compressors) \in Nat /\ \A i \in 1 .. Len(Compressors) : Compressors[i].to \in STRING
  <2> DEFINE Compressor == [supports : STRING, to : STRING]
  <2>1. Compressors \in Seq(Compressor)
    BY DEF Media!ConstantsAssumption
  <2>2. \A x \in Compressor : x.to \in STRING
    OBVIOUS
  <2> HIDE DEF Compressor
  <2> QED
    BY <2>1, <2>2
<1>2. Media!NoName \notin Media!Names
  <2> SUFFICES ASSUME NEW n \in Media!Names
               PROVE  n # <<>>
    BY DEF Media!NoName
  <2>1. PICK x, y : n = <<x, y>>
    BY DEF Media!Names
  <2> QED
    BY <2>1
<1>3. \A p \in Media!Paths : p = <<p[1], p[2]>> /\ p[2] \in Nat
  BY <1>1 DEF Media!Paths
<1>4. \A u \in Uploads : \A i \in 0 .. Len(Compressors) :
              <<u, i>> \in Media!Paths /\ <<u, i>>[1] = u /\ <<u, i>>[2] = i
  BY DEF Media!Paths
<1> QED
  BY <1>1, <1>2, <1>3, <1>4

\* What is known of one call.
LEMMA MediaCall ==
  ASSUME Media!ConstantsAssumption, MediaInv, NEW u \in Uploads
  PROVE  /\ call \in [Uploads -> UploadCalls] /\ call[u] \in UploadCalls
         /\ call[u].at \in Media!Stages /\ call[u].path \in Media!Paths /\ call[u].path[1] = u
         /\ call[u].path[2] \in Nat /\ call[u].path = <<u, call[u].path[2]>>
         /\ call[u].next \in Nat /\ call[u].next \in 1 .. Len(Compressors) + 1
         /\ Named(u) /\ InPlace(u) /\ Files(u) /\ local \subseteq Media!Paths
         /\ stuck \subseteq Media!Paths
<1>1. call \in [Uploads -> UploadCalls] /\ call[u] \in UploadCalls /\ call[u].path[1] = u
      /\ Named(u) /\ InPlace(u) /\ Files(u) /\ local \subseteq Media!Paths
      /\ stuck \subseteq Media!Paths
  BY DEF MediaInv, Media!TypeOK, UploadCalls
<1>2. /\ call[u].at \in Media!Stages /\ call[u].path \in Media!Paths
      /\ call[u].next \in 1 .. Len(Compressors) + 1
  BY <1>1 DEF UploadCalls
<1> QED
  BY <1>1, <1>2, MediaNumbers

\* A step of one upload: the others see an object of its name, if anything.
LEMMA UploadMoves ==
  ASSUME Media!ConstantsAssumption, MediaInv, NEW u \in Uploads, NEW c \in UploadCalls,
         call' = [call EXCEPT ![u] = c], c.path[1] = u,
         c.name = call[u].name \/ call[u].name = Media!NoName,
         local' \subseteq Media!Paths, \A p \in local' : p[1] # u => p \in local,
         \A n \in DOMAIN cloud : n # c.name => n \in DOMAIN cloud' /\ cloud'[n] = cloud[n],
         \A n \in DOMAIN cloud' : n \in Media!Names /\ cloud'[n] \in Uploads,
         cloud' = cloud \/ c.name # Media!NoName,
         ids' \in [Uploads -> Media!Names \cup {Media!NoName}],
         \A v \in Uploads \ {u} : ids'[v] = ids[v],
         assets \subseteq assets', assets' \subseteq assets \cup {u},
         UNCHANGED <<provider, now, remove, removed>>,
         stuck \subseteq stuck', stuck' \subseteq Media!Paths,
         Named(u)', InPlace(u)', Files(u)'
  PROVE  MediaInv'
<1>1. /\ call' \in [Uploads -> UploadCalls] /\ call'[u] = c
      /\ \A v \in Uploads \ {u} : call'[v] = call[v]
  BY MediaCall
<1>2. Media!TypeOK'
  <2>1. \A v \in Uploads : call'[v].path[1] = v
    BY <1>1 DEF MediaInv, Media!TypeOK
  <2> QED
    BY <1>1, <2>1 DEF MediaInv, Media!TypeOK, UploadCalls
<1>3. ASSUME NEW v \in Uploads \ {u}
      PROVE  Named(v)' /\ InPlace(v)' /\ Files(v)'
  <2>1. call'[v] = call[v] /\ ids'[v] = ids[v] /\ (v \in assets' <=> v \in assets)
        /\ Named(v) /\ InPlace(v) /\ Files(v)
    BY <1>1 DEF MediaInv
  <2>2. Named(v)'
    BY <2>1 DEF Named
  <2>3. Files(v)'
    BY <2>1 DEF Files, Gone
  <2>4. InPlace(v)'
    <3> SUFFICES ASSUME call[v].at \in InCloud, v \notin removed
                 PROVE  \/ call[v].name \in DOMAIN cloud' /\ cloud'[call[v].name] = v
                        \/ \E w \in Uploads \ {v} : call'[w].name = call[v].name
      BY <2>1 DEF InPlace
    <3>1. call[v].name # Media!NoName
      BY <2>1 DEF Named
    <3>2. CASE call[v].name = c.name
      BY <1>1, <3>2
    <3>3. CASE call[v].name \in DOMAIN cloud /\ cloud[call[v].name] = v /\ call[v].name # c.name
      BY <3>3
    <3>4. ASSUME NEW w \in Uploads \ {v}, call[w].name = call[v].name
          PROVE  call'[w].name = call[v].name
      BY <1>1, <3>1, <3>4
    <3> QED
      BY <2>1, <3>2, <3>3, <3>4 DEF InPlace
  <2> QED
    BY <2>2, <2>3, <2>4
<1>4. \A d \in Deletes, v \in Uploads : remove'[d] = <<v>> => v \in assets'
  BY DEF MediaInv
<1> QED
  BY <1>2, <1>3, <1>4 DEF MediaInv

\* It goes on, and touches nothing but its files.
LEMMA UploadGoes ==
  ASSUME Media!ConstantsAssumption, MediaInv, NEW u \in Uploads, NEW c \in UploadCalls,
         call' = [call EXCEPT ![u] = c], c.path[1] = u,
         c.name = call[u].name \/ (call[u].name = Media!NoName /\ c.at \notin InCloud),
         c.at \in InCloud => call[u].at \in InCloud,
         local' \subseteq Media!Paths, \A p \in local' : p[1] # u => p \in local,
         UNCHANGED <<provider, now, cloud, ids, remove, removed>>,
         stuck \subseteq stuck', stuck' \subseteq Media!Paths,
         assets \subseteq assets', assets' \subseteq assets \cup {u},
         Named(u)', Files(u)'
  PROVE  MediaInv'
<1>1. call'[u] = c /\ \A v \in Uploads \ {u} : call'[v] = call[v]
  BY MediaCall
<1>2. InPlace(u)'
  <2>1. CASE c.at \in InCloud
    <3>1. InPlace(u) /\ c.name = call[u].name /\ call[u].at \in InCloud
      BY <2>1, MediaCall
    <3> QED
      BY <1>1, <2>1, <3>1 DEF InPlace
  <2>2. CASE c.at \notin InCloud
    BY <1>1, <2>2 DEF InPlace
  <2> QED
    BY <2>1, <2>2
<1>3. /\ \A n \in DOMAIN cloud : n \in Media!Names /\ cloud[n] \in Uploads
      /\ ids \in [Uploads -> Media!Names \cup {Media!NoName}]
  BY DEF MediaInv, Media!TypeOK
<1> QED
  BY <1>2, <1>3, UploadMoves

\* Before the first upload there is no file and no asset.
LEMMA MediaInit ==
  ASSUME Media!ConstantsAssumption, Media!Init
  PROVE  MediaInv
<1>1. \A u \in Uploads :
        Media!Original(u) \in Media!Paths /\ Media!Original(u)[1] = u /\ Media!Original(u)[2] = 0
  BY MediaNumbers DEF Media!Original
<1>2. call \in [Uploads -> UploadCalls]
  <2>1. 1 \in 1 .. Len(Compressors) + 1 /\ Type \in [Uploads -> STRING]
    BY MediaNumbers DEF Media!ConstantsAssumption
  <2> QED
    BY <1>1, <2>1 DEF Media!Init, UploadCalls, Media!Stages
<1>3. Media!TypeOK
  BY <1>1, <1>2 DEF Media!ConstantsAssumption, Media!Init, Media!TypeOK, UploadCalls
<1>4. ASSUME NEW u \in Uploads
      PROVE  Named(u) /\ InPlace(u) /\ Files(u)
  BY <1>1 DEF Media!Init, Named, InPlace, Files, Gone, InCloud
<1>5. ASSUME NEW d \in Deletes, NEW u \in Uploads, remove[d] = <<u>>
      PROVE  FALSE
  BY <1>5 DEF Media!Init
<1> QED
  BY <1>3, <1>4, <1>5 DEF MediaInv

\* upload() begins with the file that the request left on the disk.
LEMMA UploadKeeps ==
  ASSUME Media!ConstantsAssumption, MediaInv, NEW u \in Uploads, Media!upload(u)
  PROVE  MediaInv'
<1> DEFINE stage == IF Media!supports(Type[u]) THEN "compress" ELSE "upload"
           c == [call[u] EXCEPT !.at = stage]
<1>1. /\ call[u].at = "new" /\ local' = local \cup {Media!Original(u)}
      /\ call' = [call EXCEPT ![u] = c] /\ stage \in {"compress", "upload"}
      /\ UNCHANGED <<provider, now, cloud, ids, assets, remove, removed, stuck>>
  BY MediaCall DEF Media!upload, Media!GoTo
<1> HIDE DEF stage
<1>0. stage \in Media!Stages
  BY <1>1 DEF Media!Stages
<1>2. /\ c \in UploadCalls /\ c.at = stage /\ c.path = call[u].path /\ c.name = call[u].name
      /\ c.next = call[u].next
  BY <1>0, MediaCall DEF UploadCalls
<1> HIDE DEF c
<1>3. call'[u] = c
  BY <1>1, MediaCall
<1>4. Media!Original(u) \in Media!Paths /\ Media!Original(u)[1] = u /\ Media!Original(u)[2] = 0
  BY MediaNumbers DEF Media!Original
<1>5. Named(u)'
  BY <1>1, <1>2, <1>3, MediaCall DEF Named, InCloud
<1>6. Files(u)'
  <2>1. \A p \in local : p[1] # u
    BY <1>1, MediaCall DEF Files, Gone
  <2>2. call[u].path[2] < call[u].next /\ call[u].path[2] = 0
    BY <1>1, MediaCall DEF Files, Gone
  <2>3. \A p \in local' : p[1] = u => p[2] = 0
    BY <1>1, <1>4, <2>1
  <2>4. \A p \in local' : p[1] = u =>
          /\ stage # "new" /\ p[2] <= call[u].path[2]
          /\ stage \in {"upload", "copied", "uploaded", "saved", "done"} /\ p[2] = 0 =>
               call[u].path[2] = 0
          /\ stage = "done" => p # call[u].path
    BY <1>1, <2>2, <2>3
  <2> QED
    BY <1>2, <1>3, <2>2, <2>4 DEF Files, Gone
<1> QED
  BY <1>1, <1>2, <1>4, <1>5, <1>6, UploadGoes, MediaCall DEF InCloud

\* A compressor leaves the file as it is or writes another one beside it.
LEMMA CompressKeeps ==
  ASSUME Media!ConstantsAssumption, MediaInv, NEW u \in Uploads, Media!Compress(u)
  PROVE  MediaInv'
<1> DEFINE i == call[u].next
<1>1. /\ call[u].at = "compress" /\ i \in 1 .. Len(Compressors) /\ i \in Nat
      /\ i + 1 \in 1 .. Len(Compressors) + 1
      /\ UNCHANGED <<provider, now, cloud, ids, assets, remove, removed, stuck>>
      /\ call[u].name = Media!NoName /\ call[u].path[2] < i /\ u \notin assets
  BY MediaCall, MediaNumbers DEF Media!Compress, Named, Files, Gone
<1>2. CASE /\ local' = local \cup {<<u, i>>}
           /\ call' = [call EXCEPT ![u].next = i + 1, ![u].path = <<u, i>>,
                                   ![u].type = Compressors[i].to]
  <2> DEFINE c == [call[u] EXCEPT !.next = i + 1, !.path = <<u, i>>, !.type = Compressors[i].to]
  <2>1. /\ <<u, i>> \in Media!Paths /\ <<u, i>>[1] = u /\ <<u, i>>[2] = i
        /\ Compressors[i].to \in STRING
    BY <1>1, MediaNumbers
  <2>2. call' = [call EXCEPT ![u] = c]
    BY <1>2, MediaCall
  <2>3. /\ c \in UploadCalls /\ c.at = "compress" /\ c.path = <<u, i>> /\ c.name = Media!NoName
        /\ c.next = i + 1
    BY ZenonT(30), <1>1, <2>1, MediaCall DEF UploadCalls
  <2> HIDE DEF c
  <2>4. call'[u] = c
    BY <2>2, MediaCall
  <2>5. Named(u)'
    BY <1>1, <2>3, <2>4 DEF Named, InCloud
  <2>6. Files(u)'
    <3>1. \A p \in local : p[1] = u => p[2] <= call[u].path[2] /\ p[2] \in Nat
      BY MediaCall, MediaNumbers DEF Files, Gone
    <3>2. \A p \in local : p[1] = u => p[2] <= i
      BY <1>1, <3>1, MediaCall
    <3>3. \A p \in local' : p[1] = u => p[2] <= i
      <4> SUFFICES ASSUME NEW p \in local', p[1] = u
                   PROVE  p[2] <= i
        OBVIOUS
      <4>1. CASE p \in local
        BY <3>2, <4>1
      <4>2. CASE p = <<u, i>>
        BY <1>1, <2>1, <4>2
      <4> QED
        BY <1>2, <4>1, <4>2
    <3> QED
      BY <1>1, <2>1, <2>3, <2>4, <3>3 DEF Files, Gone
  <2>7. local' \subseteq Media!Paths /\ \A p \in local' : p[1] # u => p \in local
    BY <1>2, <2>1, MediaCall
  <2>8. c.path[1] = u /\ c.name = call[u].name /\ c.at \notin InCloud
    BY <1>1, <2>1, <2>3 DEF InCloud
  <2> HIDE DEF i
  <2> QED
    BY <1>1, <2>2, <2>3, <2>5, <2>6, <2>7, <2>8, UploadGoes, MediaCall
<1>3. CASE call' = [call EXCEPT ![u].next = i + 1] /\ UNCHANGED local
  <2> DEFINE c == [call[u] EXCEPT !.next = i + 1]
  <2>2. call' = [call EXCEPT ![u] = c]
    BY <1>3, MediaCall
  <2>3. /\ c \in UploadCalls /\ c.at = "compress" /\ c.path = call[u].path
        /\ c.name = Media!NoName
        /\ c.next = i + 1
    BY SMTT(30), <1>1, MediaCall DEF UploadCalls
  <2> HIDE DEF c
  <2>4. call'[u] = c
    BY <2>2, MediaCall
  <2>5. Named(u)'
    BY <1>1, <2>3, <2>4 DEF Named, InCloud
  <2>6. Files(u)'
    <3>1. call[u].path[2] < i + 1
      BY <1>1, MediaCall
    <3> QED
      BY <1>1, <1>3, <2>3, <2>4, <3>1, MediaCall DEF Files, Gone
  <2> QED
    BY <1>1, <1>3, <2>2, <2>3, <2>5, <2>6, UploadGoes, MediaCall DEF InCloud
<1> QED
  BY <1>2, <1>3 DEF Media!Compress

\* Only the stage of the upload changes, and files are only removed.
LEMMA StageMoves ==
  ASSUME Media!ConstantsAssumption, MediaInv, NEW u \in Uploads, NEW stage \in Media!Stages,
         Media!GoTo(u, stage),
         call[u].at \notin {"new", "failed"}, stage # "new",
         stage = "compress" => call[u].at = "compress",
         stage \in InCloud => call[u].at \in InCloud,
         stage \in {"uploaded", "saved", "done"} => ids[u] = call[u].name,
         u \in assets' => stage \in {"saved", "done"},
         local' \subseteq local,
         UNCHANGED <<provider, now, cloud, ids, remove, removed>>,
         stuck \subseteq stuck', stuck' \subseteq Media!Paths,
         assets \subseteq assets', assets' \subseteq assets \cup {u},
         call[u].at = "compress" /\ stage # "failed" => Media!Original(u) \notin local' \ stuck',
         stage = "done" => call[u].path \notin local' \ stuck' /\ call[u].at = "saved"
  PROVE  MediaInv'
<1> DEFINE c == [call[u] EXCEPT !.at = stage]
<1>1. call' = [call EXCEPT ![u] = c]
  BY MediaCall DEF Media!GoTo
<1>2. /\ c \in UploadCalls /\ c.at = stage /\ c.path = call[u].path /\ c.name = call[u].name
      /\ c.next = call[u].next
  BY ZenonT(30), MediaCall DEF UploadCalls
<1> HIDE DEF c
<1>3. call'[u] = c
  BY <1>1, MediaCall
<1>4. Named(u)'
  BY <1>2, <1>3, MediaCall DEF Named, InCloud
<1>5. Files(u)'
  <2>1. call[u].path[2] < call[u].next
    BY MediaCall DEF Files, Gone
  <2>2. ASSUME NEW p \in local', p[1] = u
        PROVE  p[2] <= call[u].path[2]
    BY <2>2, MediaCall DEF Files, Gone
  <2>3. ASSUME NEW p \in local', p[1] = u, p \notin stuck'
        PROVE  /\ stage \in {"upload", "copied", "uploaded", "saved", "done"} /\ p[2] = 0 =>
                    call[u].path[2] = 0
               /\ stage = "done" => p # call[u].path
    <3>1. /\ p \in local /\ p[2] <= call[u].path[2] /\ p = <<u, p[2]>>
          /\ call[u].at \in {"upload", "copied", "uploaded", "saved", "done"} /\ p[2] = 0 =>
               call[u].path[2] = 0
      BY <2>3, MediaCall, MediaNumbers DEF Files, Gone
    <3>2. call[u].at = "compress" /\ stage # "failed" => p[2] # 0
      BY <2>3, <3>1 DEF Media!Original
    <3>3. stage \in {"upload", "copied", "uploaded", "saved", "done"} =>
            call[u].at \in {"upload", "copied", "uploaded", "saved", "done", "compress"}
      <4>1. call[u].at \in Media!Stages
        BY MediaCall
      <4> QED
        BY <4>1 DEF Media!Stages
    <3> QED
      BY <2>3, <3>1, <3>2, <3>3
  <2> QED
    BY <1>2, <1>3, <2>1, <2>2, <2>3 DEF Files, Gone
<1> QED
  BY ZenonT(30), <1>1, <1>2, <1>4, <1>5, UploadGoes, MediaCall

\* A compressor fails.
LEMMA CompressFailsKeeps ==
  ASSUME Media!ConstantsAssumption, MediaInv, NEW u \in Uploads, Media!CompressFails(u)
  PROVE  MediaInv'
<1>1. /\ call[u].at = "compress" /\ Media!GoTo(u, "failed") /\ u \notin assets
      /\ UNCHANGED <<provider, now, local, cloud, ids, assets, remove, removed, stuck>>
  BY MediaCall DEF Media!CompressFails, Named
<1> QED
  BY <1>1, StageMoves, MediaCall DEF InCloud, Media!Stages

\* A removal that fails is remembered.
LEMMA UnlinkMoves ==
  ASSUME MediaInv, NEW path \in Media!Paths, Media!unlink(path)
  PROVE  /\ local' \subseteq local /\ path \notin local' \ stuck'
         /\ stuck \subseteq stuck' /\ stuck' \subseteq Media!Paths
BY DEF MediaInv, Media!TypeOK, Media!unlink

\* The compressors are through: the original goes.
LEMMA CompressedKeeps ==
  ASSUME Media!ConstantsAssumption, MediaInv, NEW u \in Uploads, Media!Compressed(u)
  PROVE  MediaInv'
<1>1. /\ call[u].at = "compress" /\ Media!GoTo(u, "upload") /\ u \notin assets
      /\ UNCHANGED <<provider, now, cloud, ids, assets, remove, removed>>
      /\ Media!unlink(Media!Original(u)) /\ Media!Original(u) \in Media!Paths
  BY MediaCall, MediaNumbers DEF Media!Compressed, Media!Original, Named
<1> QED
  BY <1>1, UnlinkMoves, StageMoves, MediaCall DEF InCloud, Media!Stages

\* The object is named.
LEMMA NameObjectKeeps ==
  ASSUME Media!ConstantsAssumption, MediaInv, NEW u \in Uploads, Media!NameObject(u)
  PROVE  MediaInv'
<1> DEFINE c == [call[u] EXCEPT !.name = Media!ObjectName(u)]
<1>1. /\ call[u].at = "upload" /\ call[u].name = Media!NoName
      /\ call' = [call EXCEPT ![u] = c]
      /\ UNCHANGED <<provider, now, local, cloud, ids, assets, remove, removed, stuck>>
  BY MediaCall DEF Media!NameObject
<1>2. Media!ObjectName(u) \in Media!Names
  BY DEF Media!ObjectName, Media!Names, MediaInv, Media!TypeOK, Media!ConstantsAssumption
<1>3. /\ c \in UploadCalls /\ c.at = "upload" /\ c.path = call[u].path
      /\ c.next = call[u].next /\ c.type = call[u].type
  BY ZenonT(30), <1>1, <1>2, MediaCall DEF UploadCalls
<1> HIDE DEF c
<1>4. call'[u] = c
  BY <1>1, MediaCall
<1>5. Named(u)' /\ Files(u)'
  BY <1>1, <1>3, <1>4, MediaCall DEF Named, Files, Gone, InCloud
<1> QED
  BY <1>1, <1>3, <1>5, UploadGoes, MediaCall DEF InCloud

\* The object is stored.
LEMMA StoredKeeps ==
  ASSUME Media!ConstantsAssumption, MediaInv, NEW u \in Uploads, Media!Stored(u)
  PROVE  MediaInv'
<1> DEFINE c == [call[u] EXCEPT !.at = "copied"]
           name == call[u].name
<1>1. /\ call[u].at = "upload" /\ name # Media!NoName
      /\ call' = [call EXCEPT ![u] = c]
      /\ cloud' = Media!With(cloud, name, u)
      /\ UNCHANGED <<provider, now, local, ids, assets, remove, removed, stuck>>
  BY MediaCall DEF Media!Stored, Media!GoTo
<1>0. "copied" \in Media!Stages
  BY DEF Media!Stages
<1>2. /\ c \in UploadCalls /\ c.at = "copied" /\ c.path = call[u].path /\ c.name = name
      /\ c.next = call[u].next
  BY <1>0, MediaCall DEF UploadCalls
<1> HIDE DEF c
<1>3. call'[u] = c
  BY <1>1, MediaCall
<1>4. name \in Media!Names
  BY <1>1, MediaCall DEF UploadCalls
<1>5. /\ \A n \in DOMAIN cloud : n \in Media!Names /\ cloud[n] \in Uploads
      /\ ids \in [Uploads -> Media!Names \cup {Media!NoName}]
  BY DEF MediaInv, Media!TypeOK
<1> HIDE DEF name
<1>6. /\ name \in DOMAIN cloud' /\ cloud'[name] = u
      /\ \A n \in DOMAIN cloud : n # name => n \in DOMAIN cloud' /\ cloud'[n] = cloud[n]
      /\ \A n \in DOMAIN cloud' : n \in Media!Names /\ cloud'[n] \in Uploads
  BY <1>1, <1>4, <1>5 DEF Media!With
<1>7. Named(u)' /\ InPlace(u)'
  BY <1>1, <1>2, <1>3, <1>6, MediaCall DEF Named, InPlace, InCloud
<1>8. Files(u)'
  BY <1>1, <1>2, <1>3, MediaCall DEF Files, Gone
<1> QED
  <2>1. /\ local' = local /\ assets' = assets /\ ids' = ids /\ local \subseteq Media!Paths
        /\ c.path[1] = u /\ c.name = call[u].name /\ c.name # Media!NoName
        /\ stuck \subseteq Media!Paths
    BY <1>1, <1>2, MediaCall DEF name
  <2> QED
    BY <1>1, <1>2, <1>5, <1>6, <1>7, <1>8, <2>1, UploadMoves

\* The provider's repository knows the object.
LEMMA IdentifiedKeeps ==
  ASSUME Media!ConstantsAssumption, MediaInv, NEW u \in Uploads, Media!Identified(u)
  PROVE  MediaInv'
<1> DEFINE c == [call[u] EXCEPT !.at = "uploaded"]
<1>1. /\ call[u].at = "copied" /\ call' = [call EXCEPT ![u] = c]
      /\ ids' = [ids EXCEPT ![u] = call[u].name]
      /\ UNCHANGED <<provider, now, local, cloud, assets, remove, removed, stuck>>
  BY MediaCall DEF Media!Identified, Media!GoTo
<1>0. "uploaded" \in Media!Stages
  BY DEF Media!Stages
<1>2. /\ c \in UploadCalls /\ c.at = "uploaded" /\ c.path = call[u].path
      /\ c.name = call[u].name /\ c.next = call[u].next
      /\ call[u].name \in Media!Names \cup {Media!NoName}
  BY <1>0, MediaCall DEF UploadCalls
<1> HIDE DEF c
<1>3. call'[u] = c
  BY <1>1, MediaCall
<1>4. /\ \A n \in DOMAIN cloud : n \in Media!Names /\ cloud[n] \in Uploads
      /\ ids \in [Uploads -> Media!Names \cup {Media!NoName}]
  BY DEF MediaInv, Media!TypeOK
<1>5. /\ ids' \in [Uploads -> Media!Names \cup {Media!NoName}] /\ ids'[u] = call[u].name
      /\ \A v \in Uploads \ {u} : ids'[v] = ids[v]
  BY <1>1, <1>2, <1>4
<1>6. Named(u)' /\ InPlace(u)' /\ Files(u)'
  BY <1>1, <1>2, <1>3, <1>5, MediaCall DEF Named, InPlace, Files, Gone, InCloud
<1> QED
  <2>1. /\ local' = local /\ assets' = assets /\ cloud' = cloud /\ local \subseteq Media!Paths
        /\ c.path[1] = u /\ stuck \subseteq Media!Paths
    BY <1>1, <1>2, MediaCall
  <2> QED
    BY <1>1, <1>2, <1>4, <1>5, <1>6, <2>1, UploadMoves

\* The disk or the provider fails.
LEMMA UploadFailsKeeps ==
  ASSUME Media!ConstantsAssumption, MediaInv, NEW u \in Uploads, Media!UploadFails(u)
  PROVE  MediaInv'
<1>1. /\ call[u].at \in {"upload", "copied"} /\ Media!GoTo(u, "failed")
      /\ UNCHANGED <<provider, now, local, cloud, ids, assets, remove, removed, stuck>>
  BY DEF Media!UploadFails
<1>2. u \notin assets
  BY <1>1, MediaCall DEF Named
<1> QED
  BY <1>1, <1>2, StageMoves, MediaCall DEF InCloud, Media!Stages

\* The asset is saved.
LEMMA SavedKeeps ==
  ASSUME Media!ConstantsAssumption, MediaInv, NEW u \in Uploads, Media!Saved(u)
  PROVE  MediaInv'
<1>1. /\ call[u].at = "uploaded" /\ Media!GoTo(u, "saved") /\ ids[u] = call[u].name
      /\ assets' = assets \cup {u}
      /\ UNCHANGED <<provider, now, local, cloud, ids, remove, removed, stuck>>
  BY MediaCall DEF Media!Saved, Named
<1> QED
  BY <1>1, StageMoves, MediaCall DEF InCloud, Media!Stages

\* The file that was uploaded goes.
LEMMA UnlinkedKeeps ==
  ASSUME Media!ConstantsAssumption, MediaInv, NEW u \in Uploads, Media!Unlinked(u)
  PROVE  MediaInv'
<1>1. /\ call[u].at = "saved" /\ Media!GoTo(u, "done") /\ ids[u] = call[u].name
      /\ UNCHANGED <<provider, now, cloud, ids, assets, remove, removed>>
      /\ Media!unlink(call[u].path) /\ call[u].path \in Media!Paths
  BY MediaCall DEF Media!Unlinked, Named
<1> QED
  BY <1>1, UnlinkMoves, StageMoves, MediaCall DEF InCloud, Media!Stages

\* Calls of delete: an object may go, and then its asset was removed -- or
\* another upload has its name.
LEMMA DeleteKeeps ==
  ASSUME Media!ConstantsAssumption, MediaInv, NEW d \in Deletes, NEW u \in Uploads,
         Media!delete(d, u) \/ Media!Deleted(d, u) \/ Media!DeleteFails(d)
  PROVE  MediaInv'
<1>1. CASE Media!delete(d, u)
  <2>1. /\ u \in assets /\ remove' = [remove EXCEPT ![d] = <<u>>]
        /\ UNCHANGED <<provider, now, local, call, cloud, ids, assets, removed, stuck>>
    BY <1>1 DEF Media!delete
  <2>2. remove' \in [Deletes -> {<<>>} \cup {<<v>> : v \in Uploads}]
    BY <2>1 DEF MediaInv, Media!TypeOK
  <2>3. Media!TypeOK'
    BY <2>1, <2>2 DEF MediaInv, Media!TypeOK, Media!Names, Media!Paths
  <2>4. \A v \in Uploads : Named(v)' /\ InPlace(v)' /\ Files(v)'
    BY <2>1 DEF MediaInv, Named, InPlace, Files, Gone
  <2>5. ASSUME NEW e \in Deletes, NEW v \in Uploads, remove'[e] = <<v>>
        PROVE  v \in assets'
    <3>1. CASE e = d
      BY <2>1, <2>5, <3>1 DEF MediaInv, Media!TypeOK
    <3>2. CASE e # d
      BY <2>1, <2>5, <3>2 DEF MediaInv, Media!TypeOK
    <3> QED
      BY <3>1, <3>2
  <2> QED
    BY <2>3, <2>4, <2>5 DEF MediaInv
<1>2. CASE Media!Deleted(d, u)
  <2>1. /\ remove[d] = <<u>> /\ remove' = [remove EXCEPT ![d] = <<>>]
        /\ cloud' = Media!Without(cloud, ids[u]) /\ removed \subseteq removed'
        /\ removed' \subseteq removed \cup {u}
        /\ u \notin removed' => provider = "fs" /\ ids[u] \notin DOMAIN cloud
        /\ UNCHANGED <<provider, now, local, call, ids, assets, stuck>>
    BY <1>2 DEF Media!Deleted
  <2>2. u \in assets /\ ids[u] = call[u].name /\ call[u].at \in {"saved", "done"}
    BY <2>1, MediaCall DEF MediaInv, Named
  <2>3. /\ \A n \in DOMAIN cloud' : n \in DOMAIN cloud /\ cloud'[n] = cloud[n]
        /\ \A n \in DOMAIN cloud : n # ids[u] => n \in DOMAIN cloud'
    BY <2>1 DEF Media!Without
  <2>4. remove' \in [Deletes -> {<<>>} \cup {<<v>> : v \in Uploads}]
    BY <2>1 DEF MediaInv, Media!TypeOK
  <2>5. Media!TypeOK'
    <3>1. removed' \subseteq assets'
      BY <2>1, <2>2 DEF MediaInv, Media!TypeOK
    <3>2. \A n \in DOMAIN cloud' : n \in Media!Names /\ cloud'[n] \in Uploads
      BY <2>3 DEF MediaInv, Media!TypeOK
    <3> QED
      BY <2>1, <2>4, <3>1, <3>2 DEF MediaInv, Media!TypeOK
  <2>6. ASSUME NEW v \in Uploads
        PROVE  Named(v)' /\ InPlace(v)' /\ Files(v)'
    <3>1. Named(v)' /\ Files(v)'
      BY <2>1 DEF MediaInv, Named, Files, Gone
    <3>2. InPlace(v)'
      <4> SUFFICES ASSUME call[v].at \in InCloud, v \notin removed'
                   PROVE  \/ call[v].name \in DOMAIN cloud' /\ cloud'[call[v].name] = v
                          \/ \E w \in Uploads \ {v} : call[w].name = call[v].name
        BY <2>1 DEF InPlace
      <4>1. \/ call[v].name \in DOMAIN cloud /\ cloud[call[v].name] = v
            \/ \E w \in Uploads \ {v} : call[w].name = call[v].name
        BY <2>1, MediaCall DEF InPlace
      <4>2. CASE v = u
        BY <2>1, <2>2, <2>3, <4>1, <4>2
      <4>3. CASE v # u
        BY <2>2, <2>3, <4>1, <4>3
      <4> QED
        BY <4>2, <4>3
    <3> QED
      BY <3>1, <3>2
  <2>7. ASSUME NEW e \in Deletes, NEW v \in Uploads, remove'[e] = <<v>>
        PROVE  v \in assets'
    <3>1. e # d
      BY <2>1, <2>7 DEF MediaInv, Media!TypeOK
    <3> QED
      BY <2>1, <2>7, <3>1 DEF MediaInv, Media!TypeOK
  <2> QED
    BY <2>5, <2>6, <2>7 DEF MediaInv
<1>3. CASE Media!DeleteFails(d)
  <2>1. /\ remove' = [remove EXCEPT ![d] = <<>>]
        /\ UNCHANGED <<provider, now, local, call, cloud, ids, assets, removed, stuck>>
    BY <1>3 DEF Media!DeleteFails
  <2>2. remove' \in [Deletes -> {<<>>} \cup {<<v>> : v \in Uploads}]
    BY <2>1 DEF MediaInv, Media!TypeOK
  <2>3. Media!TypeOK'
    BY <2>1, <2>2 DEF MediaInv, Media!TypeOK, Media!Names, Media!Paths
  <2>4. \A v \in Uploads : Named(v)' /\ InPlace(v)' /\ Files(v)'
    BY <2>1 DEF MediaInv, Named, InPlace, Files, Gone
  <2>5. ASSUME NEW e \in Deletes, NEW v \in Uploads, remove'[e] = <<v>>
        PROVE  v \in assets'
    <3>1. e # d
      BY <2>1, <2>5 DEF MediaInv, Media!TypeOK
    <3> QED
      BY <2>1, <2>5, <3>1 DEF MediaInv, Media!TypeOK
  <2> QED
    BY <2>3, <2>4, <2>5 DEF MediaInv
<1> QED
  BY <1>1, <1>2, <1>3

\* A millisecond passes.
LEMMA TickKeeps ==
  ASSUME Media!ConstantsAssumption, MediaInv, Media!Tick
  PROVE  MediaInv'
<1>1. now' \in 0 .. LastMoment
  BY DEF Media!Tick, MediaInv, Media!TypeOK, Media!ConstantsAssumption
<1>2. Media!TypeOK'
  BY <1>1 DEF Media!Tick, MediaInv, Media!TypeOK
<1>3. \A u \in Uploads : Named(u)' /\ InPlace(u)' /\ Files(u)'
  BY DEF Media!Tick, MediaInv, Named, InPlace, Files, Gone
<1> QED
  BY <1>2, <1>3 DEF Media!Tick, MediaInv

\* Every step keeps it.
LEMMA MediaStep ==
  ASSUME Media!ConstantsAssumption, MediaInv, [Media!Next]_(Media!vars)
  PROVE  MediaInv'
<1>1. CASE Media!Tick
  BY <1>1, TickKeeps
<1>2. ASSUME NEW u \in Uploads,
             \/ Media!upload(u) \/ Media!Compress(u) \/ Media!CompressFails(u)
             \/ Media!Compressed(u)
             \/ Media!NameObject(u) \/ Media!Stored(u) \/ Media!Identified(u)
             \/ Media!UploadFails(u)
             \/ Media!Saved(u) \/ Media!Unlinked(u)
      PROVE  MediaInv'
  BY <1>2, UploadKeeps, CompressKeeps, CompressFailsKeeps, CompressedKeeps,
     NameObjectKeeps,
     StoredKeeps, IdentifiedKeeps, UploadFailsKeeps, SavedKeeps, UnlinkedKeeps
<1>3. ASSUME NEW d \in Deletes, NEW u \in Uploads, Media!delete(d, u) \/ Media!Deleted(d, u)
      PROVE  MediaInv'
  BY <1>3, DeleteKeeps
<1>4. ASSUME NEW d \in Deletes, Media!DeleteFails(d)
      PROVE  MediaInv'
  <2>1. PICK u \in Uploads : remove[d] = <<u>>
    BY <1>4 DEF Media!DeleteFails, MediaInv, Media!TypeOK
  <2> QED
    BY <1>4, DeleteKeeps
<1>5. CASE UNCHANGED Media!vars
  <2>1. Media!TypeOK'
    BY <1>5 DEF Media!vars, MediaInv, Media!TypeOK
  <2>2. \A u \in Uploads : Named(u)' /\ InPlace(u)' /\ Files(u)'
    BY <1>5 DEF Media!vars, MediaInv, Named, InPlace, Files, Gone
  <2> QED
    BY <1>5, <2>1, <2>2 DEF Media!vars, MediaInv
<1> QED
  BY <1>1, <1>2, <1>3, <1>4, <1>5 DEF Media!Next

\* And says what is asked of the media.
LEMMA MediaGoal ==
  ASSUME Media!ConstantsAssumption, MediaInv
  PROVE  Media!AssetsAreKept
<1>1. Media!AssetsAreServed
  <2> SUFFICES ASSUME NEW u \in assets \ removed
               PROVE  \/ ids[u] \in DOMAIN cloud /\ cloud[ids[u]] = u
                      \/ \E v \in Uploads \ {u} : call[v].name = call[u].name
    BY DEF Media!AssetsAreServed
  <2>1. u \in Uploads
    BY DEF MediaInv, Media!TypeOK
  <2>2. Named(u) /\ InPlace(u)
    BY <2>1 DEF MediaInv
  <2> QED
    BY <2>1, <2>2 DEF Named, InPlace, InCloud
<1>2. Media!NothingElseIsLeftBehind
  <2> SUFFICES ASSUME NEW u \in Uploads, call[u].at = "done",
                      NEW p \in local \ stuck, p[1] = u
               PROVE  p[2] \in 1 .. call[u].path[2] - 1
    BY DEF Media!NothingElseIsLeftBehind
  <2>1. /\ p = <<u, p[2]>> /\ p[2] \in Nat /\ p # call[u].path /\ p[2] <= call[u].path[2]
        /\ p[2] = 0 => call[u].path[2] = 0
        /\ call[u].path = <<u, call[u].path[2]>> /\ call[u].path[2] \in Nat
    BY MediaCall, MediaNumbers DEF Files, Gone
  <2> QED
    BY <2>1
<1> QED
  BY <1>1, <1>2 DEF Media!AssetsAreKept, MediaInv

\* An asset nobody deleted is served with its own content but for another upload
\* of its name, and an upload leaves none of its files behind but what a
\* compressor made before the last.
THEOREM AssetsKept ==
  ASSUME Media!ConstantsAssumption
  PROVE  Media!Spec => []AssetsAreKept
<1>1. Media!Init => MediaInv
  BY MediaInit
<1>2. MediaInv /\ [Media!Next]_(Media!vars) => MediaInv'
  BY MediaStep
<1>3. MediaInv => Media!AssetsAreKept
  BY MediaGoal
<1> QED
  BY <1>1, <1>2, <1>3, PTL DEF Media!Spec, AssetsAreKept

-----------------------------------------------------------------------------
(* The jobs scheduler                                                      *)

\* A first run at that time is as FirstRunIsDue says.
DueAt(rh, since, time) ==
  ~(/\ rh.firstExecutionDay = Schedule!Weekday(since)
    /\ rh.firstExecutionTime # Null
    /\ rh.firstExecutionTime < since % HoursPerDay) =>
    /\ Schedule!Due(rh, time)
    /\ \A u \in since .. time - 1 : ~Schedule!Due(rh, u)

\* The first run and the n after it.
RunsOf(first, n, length) == {first + k * length : k \in 0 .. n}

\* A job of rhythm rh that was registered at the time since ran in it until now;
\* its interval fires at next.
InRhythm(rh, since, next, runs, time, over) ==
  \E first \in Schedule!Times, n \in Nat :
    /\ runs = RunsOf(first, n, Schedule!parseExecutionFrequency(rh))
    /\ DueAt(rh, since, first)
    /\ first + n * Schedule!parseExecutionFrequency(rh) <= time
    /\ IF next = Null THEN over
       ELSE next =
         first + n * Schedule!parseExecutionFrequency(rh) + Schedule!parseExecutionFrequency(rh)

\* It waits for its first run, or it runs, or its timers were cleared.
Job(rh, since, due, next, runs, time, over) ==
  /\ rh = Null => due = Null /\ next = Null /\ runs = {} /\ ~over
  /\ rh # Null => since # Null
  /\ due # Null =>
       /\ due - time \in 0 .. HoursPerDay * DaysPerWeek - 1
       /\ DueAt(rh, since, due)
       /\ runs = {} /\ next = Null
  /\ next # Null => next >= time /\ runs # {}
  /\ runs # {} => InRhythm(rh, since, next, runs, time, over)
  /\ over => due = Null /\ next = Null

SchedulerTypes ==
  /\ hour \in Schedule!Times
  /\ rhythm \in [Registrations -> Rhythms \cup {Null}]
  /\ timeout \in [Registrations -> Int \cup {Null}]
  /\ interval \in [Registrations -> Int \cup {Null}]
  /\ registered \in [Registrations -> Schedule!Times \cup {Null}]
  /\ started \in [Registrations -> SUBSET Schedule!Times]
  /\ run \in [Runs -> [of : Registrations, failures : 0 .. maxRetries] \cup {Null}]
  /\ cleared \subseteq Registrations

\* The inductive invariant.
SchedulerInv ==
  /\ SchedulerTypes
  /\ \A i \in Registrations :
       Job(rhythm[i], registered[i], timeout[i], interval[i], started[i], hour, i \in cleared)

-----------------------------------------------------------------------------
\* Quotients and remainders.
LEMMA Distributes ==
  ASSUME NEW p \in Int, NEW q \in Int, NEW d \in Int
  PROVE  (p + q) * d = p * d + q * d /\ p * d \in Int /\ q * d \in Int
OBVIOUS

\* The product of natural numbers is one.
LEMMA NatTimes ==
  ASSUME NEW p \in Nat, NEW d \in Nat
  PROVE  p * d \in Nat
OBVIOUS

\* Multiples keep the order.
LEMMA Larger ==
  ASSUME NEW p \in Int, NEW q \in Int, p <= q, NEW d \in Nat
  PROVE  p * d <= q * d /\ p * d \in Int /\ q * d \in Int
<1>1. PICK r \in Nat : q = p + r
  <2>1. q - p \in Nat /\ q = p + (q - p)
    OBVIOUS
  <2> QED
    BY <2>1
<1>2. r * d \in Nat
  BY NatTimes
<1>3. q * d = p * d + r * d /\ p * d \in Int
  BY <1>1, Distributes
<1> QED
  BY <1>2, <1>3

\* A number is made of its quotient and its remainder.
LEMMA Quotient ==
  ASSUME NEW x \in Int, NEW d \in Nat \ {0}
  PROVE  \E q \in Int, r \in 0 .. d - 1 : q = x \div d /\ r = x % d /\ x = q * d + r
<1>1. \E q \in Int, r \in Int : q = x \div d /\ r = x % d /\ x = d * q + r
  OBVIOUS
<1>2. 0 <= x % d /\ x % d < d
  OBVIOUS
<1>3. PICK q \in Int, r \in Int : q = x \div d /\ r = x % d /\ x = d * q + r
  BY <1>1
<1>4. x = q * d + r
  BY <1>3
<1>5. r \in 0 .. d - 1
  BY <1>2, <1>3
<1> QED
  BY <1>3, <1>4, <1>5

\* Quotient and remainder are the only such pair.
LEMMA QuotientIs ==
  ASSUME NEW d \in Nat \ {0}, NEW q \in Int, NEW r \in 0 .. d - 1
  PROVE  (q * d + r) \div d = q /\ (q * d + r) % d = r
<1> DEFINE x == q * d + r
<1>1. x \in Int /\ q * d \in Int
  OBVIOUS
<1>2. PICK p \in Int, s \in 0 .. d - 1 : p = x \div d /\ s = x % d /\ x = p * d + s
  BY <1>1, Quotient
<1>3. q * d + r = p * d + s
  BY <1>2
<1>4. ~(p < q)
  <2> SUFFICES ASSUME p < q
               PROVE  FALSE
    OBVIOUS
  <2>1. (p + 1) * d <= q * d
    BY Larger
  <2>2. (p + 1) * d = p * d + d /\ p * d \in Int
    BY Distributes
  <2> QED
    BY <1>1, <1>3, <2>1, <2>2
<1>5. ~(q < p)
  <2> SUFFICES ASSUME q < p
               PROVE  FALSE
    OBVIOUS
  <2>1. (q + 1) * d <= p * d /\ p * d \in Int
    BY Larger
  <2>2. (q + 1) * d = q * d + d
    BY Distributes
  <2> QED
    BY <1>1, <1>3, <2>1, <2>2
<1>6. p = q
  BY <1>4, <1>5
<1> QED
  BY <1>1, <1>2, <1>3, <1>6

\* Days that are less than a week apart have different names.
LEMMA DaysDiffer ==
  ASSUME NEW d \in Nat \ {0}, NEW q \in Int, NEW j \in Int, NEW k \in Int,
         0 <= j, j < k, k < d
  PROVE  (q + j) % d # (q + k) % d
<1> SUFFICES ASSUME (q + j) % d = (q + k) % d
             PROVE  FALSE
  OBVIOUS
<1>1. PICK a \in Int, b \in Int, r \in 0 .. d - 1 : q + j = a * d + r /\ q + k = b * d + r
  <2>1. q + j \in Int /\ q + k \in Int
    OBVIOUS
  <2>2. PICK a \in Int, r \in 0 .. d - 1 : r = (q + j) % d /\ q + j = a * d + r
    BY <2>1, Quotient
  <2>3. PICK b \in Int, s \in 0 .. d - 1 : s = (q + k) % d /\ q + k = b * d + s
    BY <2>1, Quotient
  <2> QED
    BY <2>2, <2>3
<1>2. k - j = (b - a) * d /\ b - a \in Int
  <2>1. b * d = (b - a) * d + a * d /\ a * d \in Int /\ (b - a) * d \in Int
    BY Distributes
  <2> QED
    BY <1>1, <2>1
<1>3. CASE b - a <= 0
  <2>1. (b - a) * d <= 0 * d
    BY <1>2, <1>3, Larger
  <2> QED
    BY <1>2, <2>1
<1>4. CASE 1 <= b - a
  <2>1. 1 * d <= (b - a) * d /\ (b - a) * d \in Int
    BY <1>2, <1>4, Larger
  <2> QED
    BY <1>2, <2>1
<1> QED
  BY <1>2, <1>3, <1>4

\* The day that is a weekday's next one.
ToDay(d, q, day) == IF day - (q % d) < 0 THEN day - (q % d) + d ELSE day - (q % d)

\* That many days on it is that weekday.
LEMMA NextDay ==
  ASSUME NEW d \in Nat \ {0}, NEW q \in Int, NEW day \in 0 .. d - 1
  PROVE  ToDay(d, q, day) \in 0 .. d - 1 /\ (q + ToDay(d, q, day)) % d = day
<1> DEFINE k == ToDay(d, q, day)
<1>1. PICK a \in Int, w \in 0 .. d - 1 : w = q % d /\ q = a * d + w
  BY Quotient
<1>2. CASE day - w < 0
  <2>1. (a + 1) * d = a * d + 1 * d /\ a * d \in Int /\ a + 1 \in Int
    BY Distributes
  <2>2. k = day - w + d
    BY <1>1, <1>2 DEF ToDay
  <2>3. k \in 0 .. d - 1
    BY <1>2, <2>2
  <2> HIDE DEF k
  <2>4. q + k = (a + 1) * d + day
    BY <1>1, <2>1, <2>2
  <2>5. ((a + 1) * d + day) % d = day
    BY <2>1, QuotientIs
  <2> QED
    BY <2>3, <2>4, <2>5 DEF k
<1>3. CASE ~(day - w < 0)
  <2>1. k = day - w
    BY <1>1, <1>3 DEF ToDay
  <2>2. k \in 0 .. d - 1
    BY <1>3, <2>1
  <2> HIDE DEF k
  <2>3. q + k = a * d + day
    BY <1>1, <2>1, Distributes
  <2>4. (a * d + day) % d = day
    BY QuotientIs
  <2> QED
    BY <2>2, <2>3, <2>4 DEF k
<1> QED
  BY <1>2, <1>3

\* Of two moments the earlier is on the earlier day, or on the same.
LEMMA DayOrder ==
  ASSUME NEW d \in Nat \ {0}, NEW a \in Int, NEW c \in Int,
         NEW b \in 0 .. d - 1, NEW e \in 0 .. d - 1, a * d + b <= c * d + e
  PROVE  a <= c
<1> SUFFICES ASSUME c < a
             PROVE  FALSE
  OBVIOUS
<1>1. (c + 1) * d <= a * d /\ a * d \in Int
  BY Larger
<1>2. (c + 1) * d = c * d + 1 * d /\ c * d \in Int
  BY Distributes
<1> QED
  BY <1>1, <1>2

\* What is due at an hour of a day.
LEMMA DueIs ==
  ASSUME Schedule!ConstantsAssumption, NEW rh, NEW a \in Int, NEW b \in Schedule!Hours
  PROVE  Schedule!Due(rh, a * HoursPerDay + b) <=>
           rh.firstExecutionTime \in {Null, b} /\ rh.firstExecutionDay \in {Null, a % DaysPerWeek}
<1>1. (a * HoursPerDay + b) \div HoursPerDay = a /\ (a * HoursPerDay + b) % HoursPerDay = b
  BY QuotientIs DEF Schedule!ConstantsAssumption, Schedule!Hours
<1> QED
  BY <1>1 DEF Schedule!Due, Schedule!Weekday

\* The day of the first run: the next one of its name.
LEMMA FirstDay ==
  ASSUME Schedule!ConstantsAssumption, hour \in Nat, NEW rh \in Rhythms
  PROVE  /\ Schedule!parseFirstExecutionDay(rh) \in 0 .. DaysPerWeek - 1
         /\ rh.firstExecutionDay = Null => Schedule!parseFirstExecutionDay(rh) = 0
         /\ rh.firstExecutionDay # Null =>
              (hour \div HoursPerDay + Schedule!parseFirstExecutionDay(rh)) % DaysPerWeek =
                rh.firstExecutionDay
<1>1. rh.firstExecutionDay \in (0 .. DaysPerWeek - 1) \cup {Null} /\ DaysPerWeek \in Nat \ {0}
  BY DEF Schedule!ConstantsAssumption, Schedule!Days
<1>2. CASE rh.firstExecutionDay = Null
  BY <1>1, <1>2 DEF Schedule!parseFirstExecutionDay
<1>3. CASE rh.firstExecutionDay # Null
  <2> DEFINE q == hour \div HoursPerDay
             day == rh.firstExecutionDay
  <2>1. Schedule!parseFirstExecutionDay(rh) = ToDay(DaysPerWeek, q, day)
    BY <1>3 DEF Schedule!parseFirstExecutionDay, Schedule!Weekday, ToDay
  <2>2. q \in Int
    BY Quotient DEF Schedule!ConstantsAssumption
  <2>3. day \in 0 .. DaysPerWeek - 1
    BY <1>1, <1>3
  <2> HIDE DEF q, day
  <2>4. ToDay(DaysPerWeek, q, day) \in 0 .. DaysPerWeek - 1
        /\ (q + ToDay(DaysPerWeek, q, day)) % DaysPerWeek = day
    BY <1>1, <2>2, <2>3, NextDay
  <2> QED
    BY <1>3, <2>1, <2>4 DEF q, day
<1> QED
  BY <1>2, <1>3

\* A job first runs at the first moment its rhythm names, unless it missed it.
LEMMA FirstRun ==
  ASSUME Schedule!ConstantsAssumption, hour \in Nat, NEW rh \in Rhythms
  PROVE  /\ Schedule!calculateFirstExecutionTimeout(rh) \in 0 .. HoursPerDay * DaysPerWeek - 1
         /\ DueAt(rh, hour, hour + Schedule!calculateFirstExecutionTimeout(rh))
<1> DEFINE H == HoursPerDay
           D == DaysPerWeek
           k == Schedule!parseFirstExecutionDay(rh)
           time == rh.firstExecutionTime
           day == rh.firstExecutionDay
           tt == IF time = Null THEN 0 ELSE time
           calc == Schedule!calculateFirstExecutionTimeout(rh)
<1>1. H \in Nat \ {0} /\ D \in Nat \ {0} /\ time \in Schedule!Hours \cup {Null} /\ Null \notin Int
  BY DEF Schedule!ConstantsAssumption
<1>2. PICK q \in Int, h \in 0 .. H - 1 :
        q = hour \div H /\ h = hour % H /\ hour = q * H + h
  BY <1>1, Quotient
<1>3. k \in 0 .. D - 1 /\ (day = Null => k = 0) /\ (day # Null => (q + k) % D = day)
  BY <1>2, FirstDay
<1>4. tt \in 0 .. H - 1 /\ (time # Null => tt = time) /\ (time = Null => tt = 0)
  BY <1>1 DEF Schedule!Hours
<1> DEFINE date == (q + k) * H + tt
<1>5. calc = IF time = Null /\ k = 0 THEN 0
             ELSE IF date < hour THEN date + H - hour ELSE date - hour
  BY <1>2 DEF Schedule!calculateFirstExecutionTimeout
<1>6. Schedule!Weekday(hour) = q % D /\ hour % H = h
  BY <1>2 DEF Schedule!Weekday
<1> HIDE DEF H, D, k, time, day, tt, calc
<1>7. /\ q * H \in Int /\ k * H \in Int /\ (q + k) * H = q * H + k * H
      /\ date = q * H + k * H + tt /\ date \in Int
  <2>1. k \in Int /\ H \in Int
    BY <1>1, <1>3
  <2> QED
    BY <1>4, <2>1, Distributes
<1>8. H * D \in Nat /\ H <= H * D /\ k * H + H <= H * D
  <2>1. k + 1 <= D /\ 1 <= D /\ k \in Int /\ D \in Int /\ H \in Nat
    BY <1>1, <1>3
  <2>2. (k + 1) * H <= D * H /\ 1 * H <= D * H /\ D * H \in Int
    BY <2>1, Larger
  <2>3. (k + 1) * H = k * H + 1 * H
    BY <2>1, Distributes
  <2>4. D * H = H * D /\ 1 * H = H
    BY <2>1
  <2> QED
    BY <1>1, <1>7, <2>2, <2>3, <2>4
\* Every moment from now on is an hour of today or of a later day.
<1>9. ASSUME NEW c \in Int, NEW e \in 0 .. H - 1, NEW u \in Int, hour <= u, u <= c * H + e
      PROVE  \E a \in Int, b \in 0 .. H - 1 : u = a * H + b /\ q <= a /\ a <= c
  <2>1. PICK a \in Int, b \in 0 .. H - 1 : a = u \div H /\ b = u % H /\ u = a * H + b
    BY <1>1, Quotient
  <2>2. q * H + h <= a * H + b /\ a * H + b <= c * H + e
    BY <1>2, <1>9, <2>1
  <2> QED
    BY <1>1, <1>2, <2>1, <2>2, DayOrder
<1>10. ASSUME NEW a \in Int, NEW b \in 0 .. H - 1
       PROVE  Schedule!Due(rh, a * H + b) <=> time \in {Null, b} /\ day \in {Null, a % D}
  BY DueIs DEF Schedule!Hours, H, D, time, day
<1>11. CASE time = Null /\ k = 0
  <2>1. calc = 0 /\ calc \in 0 .. H * D - 1
    BY <1>1, <1>5, <1>8, <1>11
  <2>2. q + k = q
    BY <1>11
  <2>3. Schedule!Due(rh, hour)
    BY <1>2, <1>3, <1>10, <1>11, <2>2
  <2>4. hour + calc = hour /\ hour .. hour - 1 = {}
    BY <2>1
  <2> QED
    BY <2>1, <2>3, <2>4 DEF DueAt, calc, H, D
<1>12. CASE ~(time = Null /\ k = 0) /\ date < hour
  <2>1. calc = date + H - hour
    BY <1>5, <1>12
  <2>2. k = 0
    <3>1. (q + k) * H + tt <= q * H + h /\ q + k \in Int
      BY <1>2, <1>3, <1>7, <1>12
    <3>2. q + k <= q
      BY <1>1, <1>2, <1>4, <3>1, DayOrder
    <3> QED
      BY <1>3, <3>2
  <2>3. time # Null /\ time = tt /\ tt < h /\ date = q * H + tt
    BY <1>2, <1>4, <1>7, <1>12, <2>2
  <2>4. calc \in 0 .. H * D - 1
    BY <1>1, <1>2, <1>4, <1>7, <1>8, <2>1, <2>3
  <2>5. CASE day # Null
    <3>1. day = Schedule!Weekday(hour)
      BY <1>3, <1>6, <2>2, <2>5
    <3> QED
      BY <1>6, <2>3, <2>4, <3>1 DEF DueAt, time, day, calc, H, D
  <2>6. CASE day = Null
    <3>1. hour + calc = (q + 1) * H + tt /\ q + 1 \in Int
      <4>1. (q + 1) * H = q * H + 1 * H
        BY <1>1, Distributes
      <4> QED
        BY <1>1, <1>2, <1>4, <1>7, <2>1, <2>3, <4>1
    <3>2. Schedule!Due(rh, hour + calc)
      BY <1>4, <1>10, <2>3, <2>6, <3>1
    <3>3. ASSUME NEW u \in hour .. hour + calc - 1, Schedule!Due(rh, u)
          PROVE  FALSE
      <4>1. PICK a \in Int, b \in 0 .. H - 1 : u = a * H + b /\ q <= a /\ a <= q + 1
        <5>1. u \in Int /\ hour <= u /\ u <= (q + 1) * H + tt
          BY <1>2, <2>4, <3>1, <3>3
        <5> QED
          BY <1>4, <1>9, <3>1, <5>1
      <4>2. b = tt
        BY <1>1, <1>10, <2>3, <3>3, <4>1
      <4>3. a = q \/ a = q + 1
        BY <4>1
      <4>4. u # q * H + tt /\ u # (q + 1) * H + tt
        BY <1>7, <1>12, <2>3, <2>4, <3>1, <3>3
      <4> QED
        BY <4>1, <4>2, <4>3, <4>4
    <3> QED
      BY <2>4, <3>2, <3>3 DEF DueAt, calc, H, D
  <2> QED
    BY <2>5, <2>6
<1>13. CASE ~(time = Null /\ k = 0) /\ ~(date < hour)
  <2>1. calc = date - hour /\ hour + calc = date
    BY <1>5, <1>7, <1>13
  <2>2. calc \in 0 .. H * D - 1
    BY <1>1, <1>2, <1>4, <1>7, <1>8, <1>13, <2>1
  <2>3. q + k \in Int
    BY <1>3
  <2>4. Schedule!Due(rh, date)
    BY <1>3, <1>4, <1>10, <2>3
  <2>5. ASSUME NEW u \in hour .. date - 1, Schedule!Due(rh, u)
        PROVE  FALSE
    <3>1. PICK a \in Int, b \in 0 .. H - 1 : u = a * H + b /\ q <= a /\ a <= q + k
      <4>1. u \in Int /\ hour <= u /\ u <= (q + k) * H + tt
        BY <1>7, <2>5
      <4> QED
        BY <1>4, <1>9, <2>3, <4>1
    <3>2. time \in {Null, b} /\ day \in {Null, a % D}
      BY <1>10, <2>5, <3>1
    <3>3. CASE a = q + k
      <4>1. a * H + b < (q + k) * H + tt
        BY <2>5, <3>1, <1>7
      <4>2. b < tt
        BY <1>4, <1>7, <3>3, <4>1
      <4> QED
        BY <1>1, <1>4, <3>2, <4>2
    <3>4. CASE a < q + k
      <4>1. day # Null
        BY <1>3, <3>1, <3>4
      <4>2. PICK j \in Int : a = q + j /\ 0 <= j /\ j < k
        <5>1. a = q + (a - q) /\ a - q \in Int /\ 0 <= a - q /\ a - q < k
          BY <1>3, <3>1, <3>4
        <5> QED
          BY <5>1
      <4>3. (q + j) % D # (q + k) % D
        <5>1. /\ D \in Nat \ {0} /\ q \in Int /\ j \in Int /\ k \in Int
              /\ 0 <= j /\ j < k /\ k < D
          BY <1>1, <1>3, <4>2
        <5> QED
          BY <5>1, DaysDiffer
      <4> QED
        BY <1>3, <3>2, <4>1, <4>2, <4>3
    <3> QED
      BY <1>3, <3>1, <3>3, <3>4
  <2> QED
    BY <2>1, <2>2, <2>4, <2>5 DEF DueAt, calc, H, D
<1> QED
  BY <1>11, <1>12, <1>13

-----------------------------------------------------------------------------
\* An interval lasts.
LEMMA Lengths ==
  ASSUME Schedule!ConstantsAssumption, NEW rh \in Rhythms
  PROVE  Schedule!parseExecutionFrequency(rh) \in Nat \ {0}
<1>1. /\ rh.frequency \in {"everyHour", "everyDay", "everyWeek", "custom"}
      /\ rh.interval \in Nat \ {0}
      /\ HoursPerDay \in Nat \ {0} /\ DaysPerWeek \in Nat \ {0}
  BY DEF Schedule!ConstantsAssumption
<1>2. HoursPerDay * DaysPerWeek \in Nat \ {0}
  <2>1. 1 * DaysPerWeek <= HoursPerDay * DaysPerWeek /\ HoursPerDay * DaysPerWeek \in Int
    BY <1>1, Larger
  <2> QED
    BY <1>1, <2>1
<1> QED
  BY <1>1, <1>2 DEF Schedule!parseExecutionFrequency

\* Time goes on, if no timer is due.
LEMMA JobWaits ==
  ASSUME Schedule!ConstantsAssumption, NEW rh \in Rhythms \cup {Null}, NEW since,
         NEW due \in Int \cup {Null}, NEW next \in Int \cup {Null}, NEW runs,
         NEW time \in Int, NEW over, Job(rh, since, due, next, runs, time, over),
         due # time, next # time
  PROVE  Job(rh, since, due, next, runs, time + 1, over)
<1>1. due # Null => due - (time + 1) \in 0 .. HoursPerDay * DaysPerWeek - 1
  <2>1. due # Null => due \in Int /\ due - time \in 0 .. HoursPerDay * DaysPerWeek - 1
    BY DEF Job
  <2> DEFINE week == HoursPerDay * DaysPerWeek - 1
  <2>2. due # Null => due - time \in 0 .. week
    BY <2>1
  <2>0. week \in Int
    BY DEF Schedule!ConstantsAssumption
  <2> HIDE DEF week
  <2>3. due # Null => due - (time + 1) \in 0 .. week
    BY <2>0, <2>1, <2>2
  <2> QED
    BY <2>3 DEF week
<1>2. next # Null => next >= time + 1
  BY DEF Job
<1>3. ASSUME rh # Null, InRhythm(rh, since, next, runs, time, over)
      PROVE  InRhythm(rh, since, next, runs, time + 1, over)
  <2> DEFINE L == Schedule!parseExecutionFrequency(rh)
  <2>1. PICK first \in Schedule!Times, n \in Nat :
          /\ runs = RunsOf(first, n, L) /\ DueAt(rh, since, first) /\ first + n * L <= time
          /\ IF next = Null THEN over ELSE next = first + n * L + L
    BY <1>3 DEF InRhythm
  <2>2. L \in Int /\ first \in Int
    BY <1>3, Lengths DEF Schedule!Times
  <2>3. first + n * L <= time + 1
    <3> HIDE DEF L
    <3> QED
      BY <2>1, <2>2
  <2> QED
    BY <2>1, <2>3 DEF InRhythm
<1> QED
  BY <1>1, <1>2, <1>3 DEF Job

\* The timers are cleared.
LEMMA JobCleared ==
  ASSUME NEW rh, NEW since, NEW due, NEW next, NEW runs, NEW time, NEW over,
         Job(rh, since, due, next, runs, time, over)
  PROVE  Job(rh, since, Null, Null, runs, time, rh # Null)
BY DEF Job, InRhythm

\* The timeout fires.
LEMMA JobBegins ==
  ASSUME Schedule!ConstantsAssumption, NEW rh \in Rhythms, NEW since, NEW next, NEW runs,
         NEW time \in Schedule!Times, NEW over, Job(rh, since, time, next, runs, time, over)
  PROVE  /\ runs = {}
         /\ Job(rh, since, Null, time + Schedule!parseExecutionFrequency(rh), {time}, time, over)
<1> DEFINE L == Schedule!parseExecutionFrequency(rh)
<1>1. time \in Int /\ time # Null /\ L \in Nat \ {0} /\ Null \notin Int /\ rh # Null
  BY Lengths DEF Schedule!ConstantsAssumption, Schedule!Times
<1>2. runs = {} /\ DueAt(rh, since, time) /\ ~over /\ since # Null
  BY <1>1 DEF Job
<1> HIDE DEF L
<1>3. RunsOf(time, 0, L) = {time} /\ time + 0 * L = time
  BY <1>1 DEF RunsOf
<1>4. time + L \in Int /\ time + L >= time /\ time + L # Null
  BY <1>1
<1>5. InRhythm(rh, since, time + L, {time}, time, over)
  BY <1>1, <1>2, <1>3, <1>4 DEF InRhythm, L
<1> QED
  BY <1>1, <1>2, <1>4, <1>5 DEF Job, L

\* The interval fires.
LEMMA JobGoesOn ==
  ASSUME Schedule!ConstantsAssumption, NEW rh \in Rhythms, NEW since, NEW due, NEW runs,
         NEW time \in Schedule!Times, NEW over, Job(rh, since, due, time, runs, time, over)
  PROVE  Job(rh, since, due, time + Schedule!parseExecutionFrequency(rh), runs \cup {time}, time,
         over)
<1> DEFINE L == Schedule!parseExecutionFrequency(rh)
<1>1. time \in Int /\ time # Null /\ L \in Nat \ {0} /\ Null \notin Int /\ rh # Null
  BY Lengths DEF Schedule!ConstantsAssumption, Schedule!Times
<1>2. runs # {} /\ due = Null /\ ~over /\ since # Null
      /\ InRhythm(rh, since, time, runs, time, over)
  BY <1>1 DEF Job
<1>3. PICK first \in Schedule!Times, n \in Nat :
          /\ runs = RunsOf(first, n, L) /\ DueAt(rh, since, first)
          /\ time = first + n * L + L
  BY <1>1, <1>2 DEF InRhythm
<1>4. first \in Int
  BY DEF Schedule!Times
<1> HIDE DEF L
<1>5. (n + 1) * L = n * L + 1 * L /\ n * L \in Int /\ n + 1 \in Nat
  BY <1>1, Distributes
<1>6. first + (n + 1) * L = time
  BY <1>1, <1>3, <1>4, <1>5
<1>7. RunsOf(first, n + 1, L) = runs \cup {time}
  <2>1. 0 .. n + 1 = (0 .. n) \cup {n + 1}
    BY <1>5
  <2> QED
    BY <1>3, <1>6, <2>1 DEF RunsOf
<1>8. time + L \in Int /\ time + L >= time /\ time + L # Null
  BY <1>1
<1>9. InRhythm(rh, since, time + L, runs \cup {time}, time, over)
  <2>1. first + (n + 1) * L <= time
    BY <1>1, <1>6
  <2>2. time + L = first + (n + 1) * L + L
    BY <1>6
  <2> QED
    BY <1>3, <1>5, <1>7, <1>8, <2>1, <2>2 DEF InRhythm, L
<1> QED
  BY <1>1, <1>2, <1>8, <1>9 DEF Job, L

-----------------------------------------------------------------------------
\* Before a job is registered no timer is set.
LEMMA SchedulerInit ==
  ASSUME Schedule!ConstantsAssumption, Schedule!Init
  PROVE  SchedulerInv
<1>1. SchedulerTypes
  BY DEF Schedule!ConstantsAssumption, Schedule!Init, SchedulerTypes, Schedule!Never,
         Schedule!Times
<1>2. ASSUME NEW i \in Registrations
      PROVE  Job(rhythm[i], registered[i], timeout[i], interval[i], started[i], hour,
             i \in cleared)
  BY DEF Schedule!Init, Schedule!Never, Job
<1> QED
  BY <1>1, <1>2 DEF SchedulerInv

\* A job is registered.
LEMMA RegisterKeeps ==
  ASSUME Schedule!ConstantsAssumption, SchedulerInv, NEW i \in Registrations, NEW rh \in Rhythms,
         Schedule!register(i, rh)
  PROVE  SchedulerInv'
<1> DEFINE first == hour + Schedule!calculateFirstExecutionTimeout(rh)
<1>1. /\ rhythm[i] = Null /\ rhythm' = [rhythm EXCEPT ![i] = rh]
      /\ timeout' = [timeout EXCEPT ![i] = first]
      /\ registered' = [registered EXCEPT ![i] = hour]
      /\ UNCHANGED <<hour, interval, run, started, cleared>>
  BY DEF Schedule!register
<1>2. /\ hour \in Schedule!Times /\ hour \in Nat /\ Null \notin Int /\ Null \notin Rhythms
  BY DEF Schedule!ConstantsAssumption, SchedulerInv, SchedulerTypes, Schedule!Times
<1>3. /\ first - hour \in 0 .. HoursPerDay * DaysPerWeek - 1 /\ first \in Int
      /\ DueAt(rh, hour, first)
  <2> DEFINE calc == Schedule!calculateFirstExecutionTimeout(rh)
  <2>1. calc \in 0 .. HoursPerDay * DaysPerWeek - 1 /\ DueAt(rh, hour, hour + calc)
    BY <1>2, FirstRun
  <2> HIDE DEF calc
  <2>2. hour + calc \in Int /\ (hour + calc) - hour = calc
    BY <1>2, <2>1
  <2> QED
    BY <2>1, <2>2 DEF calc
<1> HIDE DEF first
<1>4. SchedulerTypes'
  BY <1>1, <1>2, <1>3 DEF SchedulerInv, SchedulerTypes, Schedule!Times
<1>5. ASSUME NEW j \in Registrations
      PROVE  Job(rhythm'[j], registered'[j], timeout'[j], interval'[j], started'[j], hour',
             j \in cleared')
  <2>1. Job(rhythm[j], registered[j], timeout[j], interval[j], started[j], hour, j \in cleared)
    BY DEF SchedulerInv
  <2>2. CASE j = i
    <3>1. interval[i] = Null /\ started[i] = {} /\ i \notin cleared
      BY <1>1, <2>1, <2>2 DEF Job
    <3>2. rhythm'[i] = rh /\ registered'[i] = hour /\ timeout'[i] = first
      BY <1>1 DEF SchedulerInv, SchedulerTypes
    <3>3. Job(rh, hour, first, Null, {}, hour, FALSE)
      BY <1>2, <1>3 DEF Job
    <3>4. interval'[i] = Null /\ started'[i] = {} /\ hour' = hour /\ (i \in cleared') = FALSE
      BY <1>1, <3>1
    <3> QED
      BY <2>2, <3>2, <3>3, <3>4
  <2>3. CASE j # i
    <3>1. rhythm'[j] = rhythm[j] /\ registered'[j] = registered[j] /\ timeout'[j] = timeout[j]
      BY <1>1, <2>3 DEF SchedulerInv, SchedulerTypes
    <3> QED
      BY <1>1, <2>1, <3>1
  <2> QED
    BY <2>2, <2>3
<1> QED
  BY <1>4, <1>5 DEF SchedulerInv

\* A timer of a job fires.
LEMMA TimerKeeps ==
  ASSUME Schedule!ConstantsAssumption, SchedulerInv, NEW i \in Registrations,
         Schedule!FirstExecution(i) \/ Schedule!NextExecution(i)
  PROVE  SchedulerInv'
<1> DEFINE L == Schedule!parseExecutionFrequency(rhythm[i])
           job == Job(rhythm[i], registered[i], timeout[i], interval[i], started[i], hour,
                  i \in cleared)
<1>1. /\ timeout[i] = hour \/ interval[i] = hour
      /\ Schedule!runner(i)
      /\ timeout' = timeout \/ timeout' = [timeout EXCEPT ![i] = Null]
      /\ interval' = [interval EXCEPT ![i] = hour + L]
      /\ UNCHANGED <<hour, rhythm, registered, cleared>>
  BY DEF Schedule!FirstExecution, Schedule!NextExecution
<1>2. /\ hour \in Schedule!Times /\ hour \in Int /\ Null \notin Int
      /\ started' = [started EXCEPT ![i] = @ \cup {hour}]
      /\ job
  BY <1>1
  DEF Schedule!runner, Schedule!ConstantsAssumption, SchedulerInv, SchedulerTypes,
      Schedule!Times
<1>3. rhythm[i] \in Rhythms
  BY <1>1, <1>2 DEF Job, SchedulerInv, SchedulerTypes
<1>4. L \in Nat \ {0}
  BY <1>3, Lengths
<1>5. SchedulerTypes'
  <2>1. run' \in [Runs -> [of : Registrations, failures : 0 .. maxRetries] \cup {Null}]
    <3>1. PICK r \in Runs : run' = [run EXCEPT ![r] = [of |-> i, failures |-> 0]]
      BY <1>1 DEF Schedule!runner
    <3>2. [of |-> i, failures |-> 0] \in [of : Registrations, failures : 0 .. maxRetries]
      BY DEF Schedule!ConstantsAssumption
    <3> QED
      BY <3>1, <3>2 DEF SchedulerInv, SchedulerTypes
  <2> HIDE DEF L
  <2>2. /\ interval' \in [Registrations -> Int \cup {Null}]
        /\ timeout' \in [Registrations -> Int \cup {Null}]
    BY <1>1, <1>2, <1>4 DEF SchedulerInv, SchedulerTypes
  <2>3. started' \in [Registrations -> SUBSET Schedule!Times]
    BY <1>2 DEF SchedulerInv, SchedulerTypes
  <2> QED
    BY <1>1, <2>1, <2>2, <2>3 DEF SchedulerInv, SchedulerTypes
<1>6. /\ interval'[i] = hour + L /\ started'[i] = started[i] \cup {hour}
      /\ timeout'[i] = timeout[i] \/ timeout'[i] = Null
      /\ \A j \in Registrations \ {i} :
           timeout'[j] = timeout[j] /\ interval'[j] = interval[j] /\ started'[j] = started[j]
  BY <1>1, <1>2 DEF SchedulerInv, SchedulerTypes
<1>7. Job(rhythm[i], registered[i], timeout'[i], interval'[i], started'[i], hour, i \in cleared)
  <2>1. CASE Schedule!FirstExecution(i)
    <3>1. timeout[i] = hour /\ timeout'[i] = Null
      BY <2>1 DEF Schedule!FirstExecution, SchedulerInv, SchedulerTypes
    <3>2. /\ started[i] = {}
          /\ Job(rhythm[i], registered[i], Null, hour + L, {hour}, hour, i \in cleared)
      BY <1>2, <1>3, <3>1, JobBegins
    <3> QED
      BY <1>6, <3>1, <3>2
  <2>2. CASE Schedule!NextExecution(i)
    <3>1. interval[i] = hour /\ timeout'[i] = timeout[i]
      BY <2>2 DEF Schedule!NextExecution
    <3>2. Job(rhythm[i], registered[i], timeout[i], hour + L, started[i] \cup {hour}, hour,
          i \in cleared)
      BY <1>2, <1>3, <3>1, JobGoesOn
    <3> QED
      BY <1>6, <3>1, <3>2
  <2> QED
    BY <2>1, <2>2
<1>8. ASSUME NEW j \in Registrations
      PROVE  Job(rhythm'[j], registered'[j], timeout'[j], interval'[j], started'[j], hour',
             j \in cleared')
  <2>1. CASE j = i
    BY <1>1, <1>7, <2>1
  <2>2. CASE j # i
    <3>1. Job(rhythm[j], registered[j], timeout[j], interval[j], started[j], hour, j \in cleared)
      BY DEF SchedulerInv
    <3> QED
      BY <1>1, <1>6, <2>2, <3>1
  <2> QED
    BY <2>1, <2>2
<1> QED
  BY <1>5, <1>8 DEF SchedulerInv

\* An attempt of a run ends.
LEMMA AttemptKeeps ==
  ASSUME Schedule!ConstantsAssumption, SchedulerInv, NEW r \in Runs,
         Schedule!Succeed(r) \/ Schedule!Fail(r)
  PROVE  SchedulerInv'
<1>1. UNCHANGED <<hour, rhythm, timeout, interval, registered, started, cleared>>
  BY DEF Schedule!Succeed, Schedule!Fail
<1>2. run \in [Runs -> [of : Registrations, failures : 0 .. maxRetries] \cup {Null}]
      /\ maxRetries \in Nat
  BY DEF SchedulerInv, SchedulerTypes, Schedule!ConstantsAssumption
<1>3. run' \in [Runs -> [of : Registrations, failures : 0 .. maxRetries] \cup {Null}]
  <2>1. CASE Schedule!Succeed(r)
    BY <1>2, <2>1 DEF Schedule!Succeed
  <2>2. CASE Schedule!Fail(r)
    <3>1. run[r] \in [of : Registrations, failures : 0 .. maxRetries]
      BY <1>2, <2>2 DEF Schedule!Fail
    <3>2. Schedule!Retries(run[r].failures + 1) =>
            [run[r] EXCEPT !.failures = @ + 1] \in
              [of : Registrations, failures : 0 .. maxRetries]
      BY <1>2, <3>1 DEF Schedule!Retries
    <3> DEFINE next == IF Schedule!Retries(run[r].failures + 1)
                       THEN [run[r] EXCEPT !.failures = @ + 1] ELSE Null
    <3>3. run' = [run EXCEPT ![r] = next]
      BY <2>2 DEF Schedule!Fail
    <3>4. next \in [of : Registrations, failures : 0 .. maxRetries] \cup {Null}
      BY <3>2
    <3> HIDE DEF next
    <3> QED
      BY <1>2, <3>3, <3>4
  <2> QED
    BY <2>1, <2>2
<1>4. SchedulerTypes'
  BY <1>1, <1>3 DEF SchedulerInv, SchedulerTypes
<1> QED
  BY <1>1, <1>4 DEF SchedulerInv

\* The timers are cleared.
LEMMA ClearKeeps ==
  ASSUME Schedule!ConstantsAssumption, SchedulerInv, Schedule!clearJobs
  PROVE  SchedulerInv'
<1>1. /\ interval' = Schedule!Never /\ timeout' = Schedule!Never
      /\ cleared' = {i \in Registrations : rhythm[i] # Null}
      /\ UNCHANGED <<hour, rhythm, run, registered, started>>
  BY DEF Schedule!clearJobs
<1>2. SchedulerTypes'
  BY <1>1 DEF SchedulerInv, SchedulerTypes, Schedule!Never
<1>3. ASSUME NEW j \in Registrations
      PROVE  Job(rhythm'[j], registered'[j], timeout'[j], interval'[j], started'[j], hour',
             j \in cleared')
  <2>1. Job(rhythm[j], registered[j], timeout[j], interval[j], started[j], hour, j \in cleared)
    BY DEF SchedulerInv
  <2>2. Job(rhythm[j], registered[j], Null, Null, started[j], hour, rhythm[j] # Null)
    BY <2>1, JobCleared
  <2>3. timeout'[j] = Null /\ interval'[j] = Null /\ (j \in cleared' <=> rhythm[j] # Null)
    BY <1>1 DEF Schedule!Never
  <2> QED
    BY <1>1, <2>2, <2>3
<1> QED
  BY <1>2, <1>3 DEF SchedulerInv

\* An hour passes.
LEMMA HourKeeps ==
  ASSUME Schedule!ConstantsAssumption, SchedulerInv, Schedule!Tick
  PROVE  SchedulerInv'
<1>1. /\ hour \in Int /\ hour' = hour + 1 /\ hour' \in Schedule!Times
      /\ \A i \in Registrations : timeout[i] # hour /\ interval[i] # hour
      /\ UNCHANGED <<rhythm, timeout, interval, run, registered, started, cleared>>
  BY DEF Schedule!Tick, SchedulerInv, SchedulerTypes, Schedule!Times,
         Schedule!ConstantsAssumption
<1>2. SchedulerTypes'
  BY <1>1 DEF SchedulerInv, SchedulerTypes
<1>3. ASSUME NEW j \in Registrations
      PROVE  Job(rhythm[j], registered[j], timeout[j], interval[j], started[j], hour + 1,
             j \in cleared)
  <2>1. /\ Job(rhythm[j], registered[j], timeout[j], interval[j], started[j], hour, j \in cleared)
        /\ rhythm[j] \in Rhythms \cup {Null}
        /\ timeout[j] \in Int \cup {Null} /\ interval[j] \in Int \cup {Null}
    BY DEF SchedulerInv, SchedulerTypes
  <2> QED
    BY <1>1, <2>1, JobWaits
<1> QED
  BY <1>1, <1>2, <1>3 DEF SchedulerInv

\* Every step keeps it.
LEMMA SchedulerStep ==
  ASSUME Schedule!ConstantsAssumption, SchedulerInv, [Schedule!Next]_(Schedule!vars)
  PROVE  SchedulerInv'
<1>1. CASE UNCHANGED Schedule!vars
  <2>1. SchedulerTypes'
    BY <1>1 DEF Schedule!vars, SchedulerInv, SchedulerTypes
  <2> QED
    BY <1>1, <2>1 DEF Schedule!vars, SchedulerInv
<1> QED
  BY <1>1, RegisterKeeps, TimerKeeps, AttemptKeeps, ClearKeeps, HourKeeps
  DEF Schedule!Next

\* Both are what the properties say.
LEMMA TypeHolds ==
  ASSUME Schedule!ConstantsAssumption, SchedulerInv
  PROVE  Schedule!TypeOK
<1> SUFFICES ASSUME NEW i \in Registrations
             PROVE  /\ \/ timeout[i] = Null
                       \/ timeout[i] - hour \in 0 .. HoursPerDay * DaysPerWeek - 1
                    /\ \/ interval[i] = Null
                       \/ interval[i] - hour \in 0 .. Schedule!parseExecutionFrequency(rhythm[i])
                    /\ timeout[i] = Null \/ interval[i] = Null
  BY DEF Schedule!TypeOK, SchedulerInv, SchedulerTypes
<1>1. /\ Job(rhythm[i], registered[i], timeout[i], interval[i], started[i], hour, i \in cleared)
      /\ rhythm[i] \in Rhythms \cup {Null} /\ hour \in Int /\ interval[i] \in Int \cup {Null}
  BY DEF SchedulerInv, SchedulerTypes, Schedule!Times
<1>2. ASSUME interval[i] # Null
      PROVE  interval[i] - hour \in 0 .. Schedule!parseExecutionFrequency(rhythm[i])
  <2> DEFINE L == Schedule!parseExecutionFrequency(rhythm[i])
  <2>1. /\ rhythm[i] \in Rhythms /\ interval[i] >= hour /\ interval[i] \in Int
        /\ InRhythm(rhythm[i], registered[i], interval[i], started[i], hour, i \in cleared)
    BY <1>1, <1>2 DEF Job
  <2>2. L \in Nat
    BY <2>1, Lengths
  <2>3. PICK first \in Schedule!Times, n \in Nat :
          first + n * L <= hour /\ interval[i] = first + n * L + L
    BY <1>2, <2>1 DEF InRhythm
  <2>4. first \in Int
    BY DEF Schedule!Times
  <2> HIDE DEF L
  <2>5. n * L \in Int
    BY <2>2
  <2>6. interval[i] - hour \in 0 .. L
    BY <1>1, <2>1, <2>2, <2>3, <2>4, <2>5
  <2> QED
    BY <2>6 DEF L
<1> QED
  BY <1>1, <1>2 DEF Job

\* Later runs are a number of intervals later.
LEMMA RunsAreSpaced ==
  ASSUME NEW first \in Int, NEW k \in Int, NEW l \in Int, NEW d \in Nat
  PROVE  /\ first + l * d = (first + k * d) + (l - k) * d
         /\ first + k * d \in Int /\ (l - k) * d \in Int /\ l - k \in Int
<1>1. PICK j \in Int : j = l - k /\ l = k + j
  OBVIOUS
<1>2. (k + j) * d = k * d + j * d /\ k * d \in Int /\ j * d \in Int
  BY Distributes
<1> QED
  BY <1>1, <1>2

\* Days and weeks later it is the same hour, and weeks later the same weekday.
LEMMA SameHour ==
  ASSUME Schedule!ConstantsAssumption, NEW t \in Int, NEW j \in Int
  PROVE  /\ (j * HoursPerDay) % HoursPerDay = 0
         /\ (j * (HoursPerDay * DaysPerWeek)) % HoursPerDay = 0
         /\ Schedule!Weekday(t + j * (HoursPerDay * DaysPerWeek)) = Schedule!Weekday(t)
<1> DEFINE H == HoursPerDay
           D == DaysPerWeek
<1>1. H \in Nat \ {0} /\ D \in Nat \ {0}
  BY DEF Schedule!ConstantsAssumption
<1> HIDE DEF H, D
<1>2. \A i \in Int : (i * H) % H = 0
  <2> SUFFICES ASSUME NEW i \in Int
               PROVE  (i * H) % H = 0
    OBVIOUS
  <2>1. (i * H + 0) % H = 0
    BY <1>1, QuotientIs
  <2>2. i * H + 0 = i * H
    BY <1>1
  <2> QED
    BY <2>1, <2>2
<1>3. j * (H * D) = (j * D) * H /\ j * D \in Int
  BY <1>1
<1>4. (j * (H * D)) % H = 0
  BY <1>2, <1>3
<1>5. PICK a \in Int, b \in 0 .. H - 1 : a = t \div H /\ b = t % H /\ t = a * H + b
  BY <1>1, Quotient
<1>6. (t + j * (H * D)) \div H = a + j * D
  <2>1. (a + j * D) * H = a * H + (j * D) * H /\ a * H \in Int /\ (j * D) * H \in Int
    BY <1>1, <1>3, Distributes
  <2>2. t + j * (H * D) = (a + j * D) * H + b
    BY <1>3, <1>5, <2>1
  <2>3. ((a + j * D) * H + b) \div H = a + j * D
    BY <1>1, <1>3, QuotientIs
  <2> QED
    BY <2>2, <2>3
<1>7. (a + j * D) % D = a % D
  <2>1. PICK c \in Int, e \in 0 .. D - 1 : c = a \div D /\ e = a % D /\ a = c * D + e
    BY <1>1, Quotient
  <2>2. (c + j) * D = c * D + j * D /\ c * D \in Int /\ c + j \in Int
    BY <1>1, Distributes
  <2>3. a + j * D = (c + j) * D + e
    BY <1>3, <2>1, <2>2
  <2>4. ((c + j) * D + e) % D = e
    BY <1>1, <2>1, <2>2, QuotientIs
  <2> QED
    BY <2>1, <2>3, <2>4
<1> QED
  BY <1>2, <1>4, <1>5, <1>6, <1>7 DEF Schedule!Weekday, H, D

\* The first run is due, and the others keep the rhythm.
LEMMA RhythmHolds ==
  ASSUME Schedule!ConstantsAssumption, SchedulerInv
  PROVE  Schedule!FirstRunIsDue /\ Schedule!RunsKeepTheRhythm
<1> SUFFICES ASSUME NEW i \in Registrations, NEW t \in started[i]
             PROVE  LET length == Schedule!parseExecutionFrequency(rhythm[i]) IN
                    /\ (\A u \in started[i] : t <= u) /\ ~Schedule!Missed(i) =>
                         /\ Schedule!Due(rhythm[i], t)
                         /\ \A u \in registered[i] .. t - 1 : ~Schedule!Due(rhythm[i], u)
                    /\ t + length < hour /\ i \notin cleared => t + length \in started[i]
                    /\ \A u \in started[i] :
                         /\ u > t => u >= t + length
                         /\ rhythm[i].frequency \in {"everyDay", "everyWeek"} =>
                              (u - t) % HoursPerDay = 0
                         /\ rhythm[i].frequency = "everyWeek" =>
                              Schedule!Weekday(u) = Schedule!Weekday(t)
  BY DEF Schedule!FirstRunIsDue, Schedule!RunsKeepTheRhythm
<1> DEFINE L == Schedule!parseExecutionFrequency(rhythm[i])
<1>1. /\ Job(rhythm[i], registered[i], timeout[i], interval[i], started[i], hour, i \in cleared)
      /\ rhythm[i] \in Rhythms \cup {Null} /\ hour \in Int /\ interval[i] \in Int \cup {Null}
  BY DEF SchedulerInv, SchedulerTypes, Schedule!Times
<1>2. /\ rhythm[i] \in Rhythms /\ L \in Nat \ {0}
      /\ InRhythm(rhythm[i], registered[i], interval[i], started[i], hour, i \in cleared)
      /\ interval[i] # Null => interval[i] >= hour
  BY <1>1, Lengths DEF Job
<1>3. PICK first \in Schedule!Times, n \in Nat :
        /\ started[i] = RunsOf(first, n, L)
        /\ DueAt(rhythm[i], registered[i], first)
        /\ IF interval[i] = Null THEN i \in cleared ELSE interval[i] = first + n * L + L
  BY <1>2 DEF InRhythm
<1>4. first \in Int
  BY DEF Schedule!Times
<1>5. PICK k \in 0 .. n : t = first + k * L
  BY <1>3 DEF RunsOf
<1>6. ASSUME \A u \in started[i] : t <= u, ~Schedule!Missed(i)
      PROVE  /\ Schedule!Due(rhythm[i], t)
             /\ \A u \in registered[i] .. t - 1 : ~Schedule!Due(rhythm[i], u)
  <2>1. t = first
    <3> HIDE DEF L
    <3>1. 0 * L = 0 /\ k * L >= 0 /\ k * L \in Int
      BY <1>2, NatTimes
    <3>2. first \in started[i]
      BY <1>3, <1>4, <3>1 DEF RunsOf
    <3> QED
      BY <1>4, <1>5, <1>6, <3>1, <3>2
  <2> QED
    BY <1>3, <1>6, <2>1 DEF DueAt, Schedule!Missed
<1>7. ASSUME t + L < hour, i \notin cleared
      PROVE  t + L \in started[i]
  <2> HIDE DEF L
  <2>1. (k + 1) * L = k * L + 1 * L /\ k * L \in Int
    BY <1>2, Distributes
  <2>2. t + L = first + (k + 1) * L
    BY <1>2, <1>4, <1>5, <2>1
  <2>3. k # n
    <3>1. interval[i] = first + n * L + L /\ interval[i] >= hour
      BY <1>2, <1>3, <1>7
    <3> QED
      BY <1>1, <1>2, <1>4, <1>5, <1>7, <2>1, <3>1
  <2> QED
    BY <1>3, <2>2, <2>3 DEF RunsOf
<1>8. ASSUME NEW u \in started[i]
      PROVE  /\ u > t => u >= t + L
             /\ rhythm[i].frequency \in {"everyDay", "everyWeek"} => (u - t) % HoursPerDay = 0
             /\ rhythm[i].frequency = "everyWeek" => Schedule!Weekday(u) = Schedule!Weekday(t)
  <2>1. PICK l \in 0 .. n : u = first + l * L
    BY <1>3, <1>8 DEF RunsOf
  <2>2. PICK j \in Int : j = l - k /\ u = t + j * L /\ u - t = j * L /\ t \in Int /\ j * L \in Int
    <3> HIDE DEF L
    <3>1. /\ first + l * L = (first + k * L) + (l - k) * L
          /\ first + k * L \in Int /\ (l - k) * L \in Int /\ l - k \in Int
      BY <1>2, <1>4, RunsAreSpaced
    <3> QED
      BY <1>5, <2>1, <3>1
  <2>3. ASSUME u > t
        PROVE  u >= t + L
    <3> HIDE DEF L
    <3>1. ~(j <= 0)
      <4> SUFFICES ASSUME j <= 0
                   PROVE  FALSE
        OBVIOUS
      <4>1. j * L <= 0 * L /\ 0 * L = 0
        BY <1>2, Larger
      <4> QED
        BY <2>2, <2>3, <4>1
    <3>2. 1 * L <= j * L /\ 1 * L = L
      BY <1>2, <3>1, Larger
    <3> QED
      BY <1>2, <2>2, <3>2
  <2>4. CASE rhythm[i].frequency = "everyDay"
    <3>1. L = HoursPerDay
      BY <2>4 DEF Schedule!parseExecutionFrequency
    <3> QED
      BY <2>2, <2>3, <2>4, <3>1, SameHour
  <2>5. CASE rhythm[i].frequency = "everyWeek"
    <3>1. L = HoursPerDay * DaysPerWeek
      BY <2>5 DEF Schedule!parseExecutionFrequency
    <3> QED
      BY <2>2, <2>3, <2>5, <3>1, SameHour
  <2> QED
    BY <2>3, <2>4, <2>5
<1> QED
  BY <1>6, <1>7, <1>8

\* A job runs first at the first moment its rhythm names, unless it missed it that
\* day, and then after every interval, until the timers are cleared.
THEOREM RunsOnTime ==
  ASSUME Schedule!ConstantsAssumption
  PROVE  Schedule!Spec => []RunsAreOnTime
<1>1. Schedule!Init => SchedulerInv
  BY SchedulerInit
<1>2. SchedulerInv /\ [Schedule!Next]_(Schedule!vars) => SchedulerInv'
  BY SchedulerStep
<1>3. SchedulerInv => Schedule!RunsAreOnTime
  BY TypeHolds, RhythmHolds DEF Schedule!RunsAreOnTime
<1> QED
  BY <1>1, <1>2, <1>3, PTL DEF Schedule!Spec, RunsAreOnTime

\* Timers that were cleared never run a job again.
THEOREM TimersStop ==
  ASSUME Schedule!ConstantsAssumption
  PROVE  Schedule!Spec => Schedule!ClearStopsTimers
<1>1. Schedule!Init => SchedulerInv
  BY SchedulerInit
<1>2. SchedulerInv /\ [Schedule!Next]_(Schedule!vars) => SchedulerInv'
  BY SchedulerStep
<1> DEFINE A == \A i \in cleared : i \in cleared' /\ started'[i] = started[i]
<1>3. SchedulerInv /\ [Schedule!Next]_(Schedule!vars) => [A]_(Schedule!vars)
  <2> SUFFICES ASSUME SchedulerInv, Schedule!Next, NEW i \in cleared
               PROVE  i \in cleared' /\ started'[i] = started[i]
    OBVIOUS
  <2>1. /\ i \in Registrations /\ rhythm[i] # Null /\ timeout[i] = Null /\ interval[i] = Null
        /\ hour \in Int /\ Null \notin Int
    BY DEF SchedulerInv, SchedulerTypes, Job, Schedule!Times, Schedule!ConstantsAssumption
  <2>2. ASSUME NEW j \in Registrations,
               \/ \E rh \in Rhythms : Schedule!register(j, rh)
               \/ Schedule!FirstExecution(j)
               \/ Schedule!NextExecution(j)
        PROVE  i \in cleared' /\ started'[i] = started[i]
    BY <2>1, <2>2
    DEF Schedule!register, Schedule!FirstExecution, Schedule!NextExecution,
        Schedule!runner, SchedulerInv, SchedulerTypes
  <2>3. CASE Schedule!clearJobs
    BY <2>1, <2>3 DEF Schedule!clearJobs
  <2>4. CASE Schedule!Tick \/ \E r \in Runs : Schedule!Succeed(r) \/ Schedule!Fail(r)
    BY <2>4 DEF Schedule!Tick, Schedule!Succeed, Schedule!Fail
  <2> QED
    BY <2>2, <2>3, <2>4 DEF Schedule!Next
<1> QED
  BY <1>1, <1>2, <1>3, PTL DEF Schedule!Spec, Schedule!ClearStopsTimers

-----------------------------------------------------------------------------
(* retry()                                                                 *)

\* What is left of the retries makes up for the calls that failed.
Counted(c) ==
  options[c] > 0 =>
    /\ phase[c] = "call" => retries[c] >= 1 /\ tried[c] = options[c] - retries[c]
    /\ phase[c] = "fn" => retries[c] >= 1 /\ tried[c] = options[c] - retries[c] + 1
    /\ phase[c] = "wait" => retries[c] >= 2 /\ tried[c] = options[c] - retries[c] + 1
    /\ phase[c] = "threw" => tried[c] = options[c]

\* Who asked for none counts down no more.
Endless(c) == options[c] = 0 => retries[c] = 0 /\ phase[c] # "threw"

\* The timer and the time since the failure make up the delay.
Waited(c) ==
  /\ phase[c] = "wait" => pause[c] + failed[c] = Delay
  /\ phase[c] # "wait" => pause[c] = 0
  /\ phase[c] = "call" => failed[c] = Delay

RetryTypes ==
  /\ options \in [Callers -> RetryOptions]
  /\ retries \in [Callers -> Nat]
  /\ phase \in [Callers -> {"call", "fn", "wait", "returned", "threw"}]
  /\ pause \in [Callers -> 0 .. Delay]
  /\ tried \in [Callers -> Nat]
  /\ failed \in [Callers -> 0 .. Delay]

\* The inductive invariant.
RetryInv == RetryTypes /\ \A c \in Callers : Counted(c) /\ Endless(c) /\ Waited(c)

\* A step of one caller leaves the others as they are.
LEMMA CallerSteps ==
  ASSUME Tries!ConstantsAssumption, RetryInv, NEW c \in Callers, UNCHANGED options, RetryTypes',
         \A d \in Callers \ {c} : /\ retries'[d] = retries[d] /\ phase'[d] = phase[d]
                                  /\ pause'[d] = pause[d] /\ tried'[d] = tried[d]
                                  /\ failed'[d] = failed[d],
         Counted(c)', Endless(c)', Waited(c)'
  PROVE  RetryInv'
<1>1. ASSUME NEW d \in Callers \ {c}
      PROVE  Counted(d)' /\ Endless(d)' /\ Waited(d)'
  BY <1>1 DEF RetryInv, Counted, Endless, Waited
<1> QED
  BY <1>1 DEF RetryInv

\* retry() throws only after as many calls of fn as were asked for, and calls it
\* again only when the delay since its failure has gone by.
THEOREM AttemptsAsAsked ==
  ASSUME Tries!ConstantsAssumption
  PROVE  Tries!Spec => []AttemptsAreAsAsked
<1> USE DEF Tries!ConstantsAssumption
<1>1. Tries!Init => RetryInv
  <2> SUFFICES ASSUME Tries!Init
               PROVE  RetryInv
    OBVIOUS
  <2>0. /\ options \in [Callers -> RetryOptions] /\ options \in [Callers -> Nat]
        /\ retries = options /\ RetryOptions \subseteq Nat /\ Delay \in Nat
        /\ phase = [c \in Callers |-> "call"] /\ pause = [c \in Callers |-> 0]
        /\ tried = [c \in Callers |-> 0] /\ failed = [c \in Callers |-> Delay]
    BY DEF Tries!Init
  <2>1. RetryTypes
    BY <2>0 DEF RetryTypes
  <2>2. ASSUME NEW c \in Callers
        PROVE  Counted(c) /\ Endless(c) /\ Waited(c)
    BY <2>0 DEF Counted, Endless, Waited
  <2> QED
    BY <2>1, <2>2 DEF RetryInv
<1>2. RetryInv /\ [Tries!Next]_(Tries!vars) => RetryInv'
  <2> SUFFICES ASSUME RetryInv, [Tries!Next]_(Tries!vars)
               PROVE  RetryInv'
    OBVIOUS
  <2>0. \A c \in Callers :
          /\ options[c] \in Nat /\ options[c] <= MaxTried /\ retries[c] \in Nat
          /\ tried[c] \in Nat
          /\ pause[c] \in 0 .. Delay /\ failed[c] \in 0 .. Delay
          /\ Counted(c) /\ Endless(c) /\ Waited(c)
    BY DEF RetryInv, RetryTypes
  <2>1. CASE UNCHANGED Tries!vars
    BY <2>1 DEF Tries!vars, RetryInv, RetryTypes, Counted, Endless, Waited
  <2>2. CASE Tries!Tick
    <3>1. RetryTypes'
      BY <2>0, <2>2 DEF Tries!Tick, RetryInv, RetryTypes, Tries!Less
    <3>2. ASSUME NEW c \in Callers
          PROVE  Counted(c)' /\ Endless(c)' /\ Waited(c)'
      <4>1. /\ pause'[c] = Tries!Less(pause[c])
            /\ failed'[c] = IF failed[c] < Delay THEN failed[c] + 1 ELSE failed[c]
            /\ UNCHANGED <<options, retries, phase, tried>>
        BY <2>2 DEF Tries!Tick
      <4>2. Counted(c)' /\ Endless(c)'
        BY <2>0, <4>1 DEF Counted, Endless
      <4>3. Waited(c)'
        BY <2>0, <4>1 DEF Waited, Tries!Less
      <4> QED
        BY <4>2, <4>3
    <3> QED
      BY <3>1, <3>2 DEF RetryInv
  <2>3. ASSUME NEW c \in Callers, Tries!retry(c)
        PROVE  RetryInv'
    <3>1. /\ phase[c] = "call" /\ phase' = [phase EXCEPT ![c] = "fn"]
          /\ tried' = [tried EXCEPT ![c] = IF tried[c] < MaxTried THEN tried[c] + 1 ELSE tried[c]]
          /\ UNCHANGED <<options, retries, pause, failed>>
      BY <2>3 DEF Tries!retry
    <3>2. RetryTypes'
      BY <2>0, <3>1 DEF RetryInv, RetryTypes
    <3>3. /\ phase'[c] = "fn" /\ options[c] > 0 => tried'[c] = tried[c] + 1
      BY <2>0, <3>1 DEF RetryInv, RetryTypes, Counted
    <3> QED
      BY <2>0, <3>1, <3>2, <3>3, CallerSteps
      DEF RetryInv, RetryTypes, Counted, Endless, Waited
  <2>4. ASSUME NEW c \in Callers, Tries!Succeeds(c)
        PROVE  RetryInv'
    <3>1. RetryTypes'
      BY <2>4 DEF Tries!Succeeds, RetryInv, RetryTypes
    <3> QED
      BY <2>0, <2>4, <3>1, CallerSteps
      DEF Tries!Succeeds, RetryInv, RetryTypes, Counted, Endless, Waited
  <2>5. ASSUME NEW c \in Callers, Tries!Fails(c)
        PROVE  RetryInv'
    <3>1. RetryTypes'
      BY <2>5 DEF Tries!Fails, RetryInv, RetryTypes
    <3> QED
      BY <2>0, <2>5, <3>1, CallerSteps
      DEF Tries!Fails, Tries!IsLast, RetryInv, RetryTypes, Counted, Endless, Waited
  <2>6. ASSUME NEW c \in Callers, Tries!FailsAndWaits(c)
        PROVE  RetryInv'
    <3>1. RetryTypes'
      BY <2>6 DEF Tries!FailsAndWaits, RetryInv, RetryTypes
    <3> QED
      BY <2>0, <2>6, <3>1, CallerSteps
      DEF Tries!FailsAndWaits, Tries!IsLast, RetryInv, RetryTypes, Counted, Endless,
          Waited
  <2>7. ASSUME NEW c \in Callers, Tries!Again(c)
        PROVE  RetryInv'
    <3>1. RetryTypes'
      BY <2>0, <2>7 DEF Tries!Again, RetryInv, RetryTypes, Tries!Less
    <3> QED
      BY <2>0, <2>7, <3>1, CallerSteps
      DEF Tries!Again, Tries!Less, RetryInv, RetryTypes, Counted, Endless, Waited
  <2> QED
    BY <2>1, <2>2, <2>3, <2>4, <2>5, <2>6, <2>7 DEF Tries!Next
<1>3. RetryInv => Tries!AttemptsAreAsAsked
  <2> SUFFICES ASSUME RetryInv, NEW c \in Callers
               PROVE  /\ phase[c] = "threw" => tried[c] = options[c]
                      /\ phase[c] = "call" => failed[c] = Delay
    BY DEF Tries!AttemptsAreAsAsked, Tries!FailsAfterAllRetries, Tries!CallsKeepTheDelay
  <2>1. options[c] \in Nat /\ Counted(c) /\ Endless(c) /\ Waited(c)
    BY DEF RetryInv, RetryTypes
  <2> QED
    BY <2>1 DEF Counted, Endless, Waited
<1> QED
  BY <1>1, <1>2, <1>3, PTL DEF Tries!Spec, AttemptsAreAsAsked

-----------------------------------------------------------------------------
(* The calculator of durations                                             *)

TimeInv == calculator \in [Time!Units -> Nat]

\* Milliseconds that are whole seconds.
LEMMA WholeSeconds ==
  ASSUME NEW s \in Nat
  PROVE  (s * 1000) % 1000 = 0 /\ (s * 1000) \div 1000 = s
OBVIOUS

\* Whatever was added up, in any units and any order, inMinutes() and inSeconds() give
\* the same duration.
THEOREM DurationsAgree ==
  ASSUME Time!ConstantsAssumption
  PROVE  Time!Spec => []MinutesAndSecondsAgree
<1>1. Time!Init => TimeInv
  BY DEF Time!Init, TimeInv
<1>2. TimeInv /\ [Time!Next]_calculator => TimeInv'
  <2> SUFFICES ASSUME TimeInv, NEW unit \in Time!Units, NEW val \in 1 .. MaxVal,
                      Time!add(unit, val)
               PROVE  TimeInv'
    BY DEF Time!Next, TimeInv
  <2>1. val \in Nat
    BY DEF Time!ConstantsAssumption
  <2> QED
    BY <2>1 DEF Time!add, TimeInv
<1>3. TimeInv => Time!MinutesAndSecondsAgree
  <2> SUFFICES ASSUME TimeInv
               PROVE  Time!MinutesAndSecondsAgree
    OBVIOUS
  <2> DEFINE ms == Time!Of("milliseconds")
             s == Time!Of("seconds")
  <2>1. /\ ms \in Nat /\ s \in Nat /\ Time!Of("minutes") \in Nat /\ Time!Of("hours") \in Nat
        /\ Time!Of("days") \in Nat /\ Time!Of("weeks") \in Nat /\ Time!Of("months") \in Nat
        /\ Time!Of("years") \in Nat
    BY DEF TimeInv, Time!Of, Time!Units
  <2>2. Time!inMinutes[2] = ms + s * 1000 /\ Time!inSeconds[2] = ms
    BY DEF Time!inMinutes, Time!inSeconds
  <2>3. Time!inMinutes[1] * 60 + s = Time!inSeconds[1]
    BY <2>1 DEF Time!inMinutes, Time!inSeconds
  <2>4. Time!inMinutes[2] - Time!inSeconds[2] = s * 1000
    BY <2>1, <2>2
  <2> QED
    BY <2>1, <2>3, <2>4, WholeSeconds DEF Time!MinutesAndSecondsAgree, Time!Agree
<1> QED
  BY <1>1, <1>2, <1>3, PTL DEF Time!Spec, MinutesAndSecondsAgree

=============================================================================
