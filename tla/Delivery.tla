------------------------------ MODULE Delivery ------------------------------
(***************************************************************************)
(* What an events broker promises of an event and a handler subscribed to  *)
(* it, without saying how: the handler is called once when the event is    *)
(* published and again as long as it throws, and the broker gives up only  *)
(* when it has been retried as often as its config asks for.               *)
(***************************************************************************)
EXTENDS Integers

CONSTANTS
  Events,        \* the events that are published, each once
  Handlers,      \* the handlers that may be subscribed
  Retries        \* Retries[h]: how often h wants to be retried

Pairs == Events \X Handlers

VARIABLES
  status,        \* status[<<e, h>>]: what the broker owes h of e
  attempts       \* attempts[<<e, h>>]: how often h was called with e

vars == <<status, attempts>>

Init ==
  /\ status = [p \in Pairs |-> "none"]
  /\ attempts = [p \in Pairs |-> 0]

\* The event is owed to whoever is subscribed, and all of them are called.
Publish(e) ==
  \E subscribed \in SUBSET Handlers :
    LET calling == {e} \X subscribed
    IN /\ \A h \in Handlers : status[<<e, h>>] = "none"
       /\ status' = [p \in Pairs |-> IF p \in calling THEN "owed" ELSE status[p]]
       /\ attempts' = [p \in Pairs |-> IF p \in calling THEN 1 ELSE attempts[p]]

\* A retry that was under way when another succeeded is not called back.
Retry(p) ==
  /\ status[p] \in {"owed", "handled"}
  /\ attempts' = [attempts EXCEPT ![p] = @ + 1]
  /\ UNCHANGED status

Handle(p) ==
  /\ status[p] = "owed"
  /\ status' = [status EXCEPT ![p] = "handled"]
  /\ UNCHANGED attempts

GiveUp(p) ==
  /\ status[p] = "owed"
  /\ attempts[p] > Retries[p[2]]
  /\ status' = [status EXCEPT ![p] = "exhausted"]
  /\ UNCHANGED attempts

Next ==
  \/ \E e \in Events : Publish(e)
  \/ \E p \in Pairs : Retry(p) \/ Handle(p) \/ GiveUp(p)

Spec == Init /\ [][Next]_vars

=============================================================================
