-------------------------- MODULE MCWebhookOutbox --------------------------
(***************************************************************************)
(* WebhookOutbox with a short schedule.  The code's is 1, 6, 24, 72, 144   *)
(* and 288 times five minutes, and MAX_RETRIES is one more than its length.*)
(*                                                                         *)
(* Attempts overlap on one event with its sender and two runs of the job;  *)
(* batches need two events and two senders.  A behaviour has one shape or  *)
(* the other, which keeps the number of states within reach.               *)
(***************************************************************************)
EXTENDS WebhookOutbox

CONSTANTS s1, s2, r1, r2

VARIABLE shape

ThreeDelays == <<1, 2, 3>>

ShapeInit == Init /\ shape \in {"overlap", "batch"}

ShapeNext ==
  /\ Next
  /\ shape' = shape
  /\ shape = "overlap" => created' <= 1 /\ work'[s2] = Nothing
  /\ shape = "batch" => work'[r2] = Nothing

ShapeSpec == ShapeInit /\ [][ShapeNext]_<<vars, shape>> /\ Fairness

=============================================================================
