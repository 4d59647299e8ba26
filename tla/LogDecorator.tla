---------------------------- MODULE LogDecorator ----------------------------
(***************************************************************************)
(* The @Log decorator: a line before a method is called and a line after   *)
(* it, with the correlation id that is kept once per decorated method and  *)
(* not once per call.  Calls of a method interleave at every await: of the *)
(* first line, of the method, of the last line.  A line is in the log once *)
(* the logger is through with it; the logger may fail with any.            *)
(***************************************************************************)
EXTENDS FiniteSets

CONSTANTS
  Methods,   \* the decorated methods
  Calls,     \* calls of them
  MethodOf,  \* MethodOf[c]
  IdOf,      \* IdOf[c]: the correlation id in the arguments of c, or None
  RandomOf,  \* RandomOf[m]: what randomUUID() gave when m was decorated
  Saving,    \* the methods that are decorated without saveParams: false
  None

Ids == ({IdOf[c] : c \in Calls} \ {None}) \cup {RandomOf[m] : m \in Methods}

ConstantsAssumption ==
  /\ MethodOf \in [Calls -> Methods]
  /\ DOMAIN IdOf = Calls
  /\ RandomOf \in [Methods -> {RandomOf[m] : m \in Methods} \ {None}]
  /\ Saving \subseteq Methods

VARIABLES
  correlationId,  \* correlationId[m]: the one of the closure of m
  at,             \* at[c]: where a call is
  writing,        \* writing[c]: the line that the call awaits the logger for
  lines,          \* lines[c]: the lines of the call that were logged
  overlapped,     \* history: calls during which another call set the id of
                  \* their method
  effect,         \* history: how the method itself ended for c
  lost            \* history: the stages of c at which the logger failed

vars == <<correlationId, at, writing, lines, overlapped, effect, lost>>

Stages == {"new", "starting", "running", "success", "failure", "throw", "returned", "threw"}
Lines == [says : {"Starting", "Success", "Failed"}, id : Ids]

TypeOK ==
  /\ correlationId \in [Methods -> Ids]
  /\ at \in [Calls -> Stages]
  /\ writing \in [Calls -> SUBSET Lines]
  /\ lines \in [Calls -> SUBSET Lines]
  /\ overlapped \subseteq Calls
  /\ effect \in [Calls -> {"none", "ok", "failed", "threw"}]
  /\ lost \in [Calls -> SUBSET Stages]

Init ==
  /\ correlationId = RandomOf
  /\ at = [c \in Calls |-> "new"]
  /\ writing = [c \in Calls |-> {}]
  /\ lines = [c \in Calls |-> {}]
  /\ overlapped = {}
  /\ effect = [c \in Calls |-> "none"]
  /\ lost = [c \in Calls |-> {}]

UnderWay(c) == at[c] \notin {"new", "returned", "threw"}

GoTo(c, stage) == at' = [at EXCEPT ![c] = stage]

\* The logger is called with a line, and answers.
Line(c, says, id) == writing' = [writing EXCEPT ![c] = {[says |-> says, id |-> id]}]
Written(c) ==
  /\ lines' = [lines EXCEPT ![c] = @ \cup writing[c]]
  /\ writing' = [writing EXCEPT ![c] = {}]

-----------------------------------------------------------------------------

SetsId(c) == MethodOf[c] \in Saving /\ IdOf[c] # None

\* Mutant: the id is taken from the arguments after the first line.
Begin_Late(c) ==
  /\ at[c] = "new"
  /\ correlationId' = IF SetsId(c) THEN [correlationId EXCEPT ![MethodOf[c]] = IdOf[c]]
                      ELSE correlationId
  /\ Line(c, "Starting", correlationId[MethodOf[c]])
  /\ GoTo(c, "starting")
  /\ UNCHANGED <<lines, overlapped, effect, lost>>

\* The id of the arguments becomes the id of the method, for the calls under
\* way too; then the logger is called.
Begin(c) ==
  /\ at[c] = "new"
  /\ correlationId' = IF SetsId(c) THEN [correlationId EXCEPT ![MethodOf[c]] = IdOf[c]]
                      ELSE correlationId
  /\ overlapped' = IF SetsId(c)
                   THEN overlapped \cup {d \in Calls : UnderWay(d) /\ MethodOf[d] = MethodOf[c]}
                   ELSE overlapped
  /\ Line(c, "Starting", correlationId[MethodOf[c]]')
  /\ GoTo(c, "starting")
  /\ UNCHANGED <<lines, effect, lost>>

\* The logger is through with the line: the method is called.
Started(c) ==
  /\ at[c] = "starting"
  /\ Written(c)
  /\ GoTo(c, "running")
  /\ UNCHANGED <<correlationId, overlapped, effect, lost>>

EndLine(c, says, stage) ==
  /\ Line(c, says, correlationId[MethodOf[c]])
  /\ GoTo(c, stage)

\* The method returned, or returned a Result.
Succeeded(c) ==
  /\ at[c] = "running"
  /\ effect' = [effect EXCEPT ![c] = "ok"]
  /\ EndLine(c, "Success", "success")
  /\ UNCHANGED <<correlationId, lines, overlapped, lost>>

\* It returned a Result that is a failure: logged as one, and returned.
FailedResult(c) ==
  /\ at[c] = "running"
  /\ effect' = [effect EXCEPT ![c] = "failed"]
  /\ EndLine(c, "Failed", "failure")
  /\ UNCHANGED <<correlationId, lines, overlapped, lost>>

\* It threw.
Threw(c) ==
  /\ at[c] = "running"
  /\ effect' = [effect EXCEPT ![c] = "threw"]
  /\ EndLine(c, "Failed", "throw")
  /\ UNCHANGED <<correlationId, lines, overlapped, lost>>

\* Mutant: what was caught is not thrown again.
Logged_Swallows(c) ==
  /\ at[c] \in {"success", "failure", "throw"}
  /\ Written(c)
  /\ GoTo(c, "returned")
  /\ UNCHANGED <<correlationId, overlapped, effect, lost>>

\* The logger is through with the last line.
Logged(c) ==
  /\ at[c] \in {"success", "failure", "throw"}
  /\ Written(c)
  /\ GoTo(c, IF at[c] = "throw" THEN "threw" ELSE "returned")
  /\ UNCHANGED <<correlationId, overlapped, effect, lost>>

LosesLine(c) == lost' = [lost EXCEPT ![c] = @ \cup {at[c]}]

\* The logger fails with any line but that of the catch block: the line is not
\* written, and the catch block logs a failure, whatever the method did, or
\* although it was not called.
LoggerFails(c) ==
  /\ at[c] \in {"starting", "success", "failure"}
  /\ LosesLine(c)
  /\ EndLine(c, "Failed", "throw")
  /\ UNCHANGED <<correlationId, lines, overlapped, effect>>

\* It fails with that one: it is not written either, and the exception of the
\* logger is thrown.
LoggerFailsAgain(c) ==
  /\ at[c] = "throw"
  /\ LosesLine(c)
  /\ writing' = [writing EXCEPT ![c] = {}]
  /\ GoTo(c, "threw")
  /\ UNCHANGED <<correlationId, lines, overlapped, effect>>

Next ==
  \E c \in Calls :
    \/ Begin(c) \/ Started(c) \/ Succeeded(c) \/ FailedResult(c) \/ Threw(c)
    \/ Logged(c) \/ LoggerFails(c) \/ LoggerFailsAgain(c)

Spec == Init /\ [][Next]_vars

-----------------------------------------------------------------------------
(* Properties                                                              *)

\* Both lines of a call carry the id it was made with, unless another call of
\* the method with an id began while it was under way.
LinesCarryTheIdOfTheCall ==
  \A c \in Calls \ overlapped :
    SetsId(c) => \A l \in lines[c] : l.id = IdOf[c]

\* What the log says of a call that has ended agrees with what the caller got.
\* A value: the method returned it, and both lines are there.  An exception: no
\* line tells of success; the line of the failure is missing only if the logger
\* failed with the one of the catch block; and if the method did not throw, so
\* that its effects are there but for the caller, then the logger did.
Says(c) == {l.says : l \in lines[c]}

AnswersAreLogged ==
  \A c \in Calls :
    /\ at[c] = "returned" =>
         /\ effect[c] \in {"ok", "failed"}
         /\ Says(c) = {"Starting", IF effect[c] = "ok" THEN "Success" ELSE "Failed"}
    /\ at[c] = "threw" =>
         /\ "Success" \notin Says(c)
         /\ "Failed" \in Says(c) \/ "throw" \in lost[c]
         /\ effect[c] = "threw" \/ lost[c] \cap {"starting", "success", "failure"} # {}

\* The two, of variables that keep their types: the lines of a decorated call carry
\* its id, and the log agrees with the answers but where the logger failed.
CallsAreLogged == TypeOK /\ LinesCarryTheIdOfTheCall /\ AnswersAreLogged

=============================================================================
