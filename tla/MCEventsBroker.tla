-------------------------- MODULE MCEventsBroker ---------------------------
(***************************************************************************)
(* EventsBroker with a universal handler u, two handlers h1 and h2 of the  *)
(* name n1 the events have, and one handler h3 of another name.            *)
(*                                                                         *)
(* All four are registered, cleared and registered again in behaviours     *)
(* with one run of the job at a time; two runs overlap on the failed       *)
(* events of u and h1.                                                     *)
(***************************************************************************)
EXTENDS EventsBroker

CONSTANTS n1, n2, u, h1, h2, h3, r1, r2

VARIABLE shape

AllNamedN1 == [e \in Events |-> n1]
SubjectOfHandlers == [h \in Handlers \ Universal |-> IF h = h3 THEN n2 ELSE n1]
UpToTwoRetries == [h \in Handlers |-> IF h \in {u, h1} THEN 2 ELSE 0]

ShapeInit == Init /\ shape \in {"publications", "retries"}

ShapeNext ==
  /\ Next
  /\ shape' = shape
  /\ shape = "publications" => run'[r2] = run[r2]
  /\ shape = "retries" => Registered' \subseteq {u, h1}

ShapeSpec == ShapeInit /\ [][ShapeNext]_<<vars, shape>> /\ Fairness

=============================================================================
