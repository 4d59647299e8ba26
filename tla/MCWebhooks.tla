----------------------------- MODULE MCWebhooks ----------------------------
(***************************************************************************)
(* WebhookDispatch, and in it WebhookRegistry, with two urls, two names    *)
(* and contents that differ in both.  A behaviour has one of three         *)
(* purposes: two commands at once; an application event among commands     *)
(* that come one at a time; or a test of one webhook among them.           *)
(***************************************************************************)
EXTENDS WebhookDispatch, TLC

CONSTANTS a, b, url1, url2

VARIABLE purpose

ASSUME DispatchAssumption

\* Both events at one url, one of them at the other.
TwoContents == {[events |-> {a, b}, deliveryUrl |-> url1], [events |-> {a}, deliveryUrl |-> url2]}

OnlyA == [p \in Publications |-> a]

Creators == {createdBy[id] : id \in Ids} \ {Null}
UnderWayAtOnce == {c \in Commands : command[c] # Null}

PurposeInit == DispatchInit /\ purpose \in {"commands", "events", "tests"}

PurposeNext ==
  /\ DispatchNext
  /\ purpose' = purpose
  /\ purpose # "events" => UNCHANGED handling
  /\ purpose # "tests" => UNCHANGED testing
  /\ purpose # "commands" => Cardinality(UnderWayAtOnce') <= 1
  /\ purpose = "events" => Cardinality(Creators') <= 1
  /\ purpose = "tests" => Cardinality({id \in Ids : createdBy'[id] # Null}) <= 1

PurposeSpec == PurposeInit /\ [][PurposeNext]_<<vars, dispatchVars, purpose>>

\* Nothing tells the names of webhooks, users or commands apart.
Symmetry == Permutations(Ids) \cup Permutations(Users) \cup Permutations(Commands)

=============================================================================
