---------------------------- MODULE Authorization ----------------------------
(***************************************************************************)
(* The @Authorize decorator.  A call carries arguments, one of them with a *)
(* session; the permissions of its API key, or else of its client, or else *)
(* of its user have to cover the permission the method asks for.           *)
(* A permission is the sequence of the parts that slashes separate.        *)
(***************************************************************************)
EXTENDS Naturals, Sequences

CONSTANTS
  Topics,    \* the first parts, such as webhooks
  Actions,   \* the third parts, such as create
  None       \* no such credential

ConstantsAssumption == "*" \notin Topics \cup Actions

Operations == {"read", "write"}

\* What a method may ask for, and what may be granted.
PermissionsNoWildCard == Topics \X Operations \X Actions
Permissions ==
  {<<"*">>} \cup {<<t, "*">> : t \in Topics \cup {"*"}}
            \cup ((Topics \cup {"*"}) \X Operations \X (Actions \cup {"*"}))

\* A credential has no permission or one; more only add to what one covers.
Held == {{}} \cup {{p} : p \in Permissions}

\* The arguments up to the first with a session that has a user; the sessions
\* before it have a correlation id only.
Sessions == [user : Held, client : Held \cup {None}, apiKey : Held \cup {None}]
NoSession == [user |-> None, client |-> None, apiKey |-> None]

VARIABLES
  permission,  \* what the decorated method asks for
  session,     \* the session of the arguments
  outcome      \* what the call came to

vars == <<permission, session, outcome>>

Init ==
  /\ permission \in PermissionsNoWildCard
  /\ session \in Sessions \cup {NoSession}
  /\ outcome = "none"

-----------------------------------------------------------------------------

Part(p, i) == IF i <= Len(p) THEN p[i] ELSE "undefined"

\* Mutant: any action of the topic is taken for the one that is asked for.
Matches_AnyAction(target, p) ==
  \/ p = <<"*">> \/ p = target
  \/ Part(p, 1) = "*" /\ Part(p, 2) = target[2] /\ Part(p, 3) = "*"
  \/ Part(p, 1) = target[1] /\ Part(p, 2) \in {"*", target[2]}

\* The tests of the code in their order; each is reached when none before it
\* has decided.
Matches(target, p) ==
  \/ p = <<"*">>
  \/ p = target
  \/ Part(p, 1) = "*" /\ Part(p, 2) = target[2] /\ Part(p, 3) = "*"
  \/ /\ Part(p, 1) = target[1]
     /\ \/ Part(p, 2) = "*"
        \/ Part(p, 2) = target[2] /\ Part(p, 3) \in {"*", target[3]}

IsPermissionsMatches(target, permissions) == \E p \in permissions : Matches(target, p)

\* Mutant: a client is asked before an API key.
Credential_ClientFirst(s) ==
  IF s.client # None THEN s.client ELSE IF s.apiKey # None THEN s.apiKey ELSE s.user

\* Whose permissions count.
Credential(s) ==
  IF s.apiKey # None THEN s.apiKey ELSE IF s.client # None THEN s.client ELSE s.user

Authorize ==
  /\ outcome = "none"
  /\ outcome' = IF session = NoSession THEN "WRONG_USAGE_OF_AUTHORIZE_DECORATOR"
                ELSE IF IsPermissionsMatches(permission, Credential(session))
                THEN "called" ELSE "AuthorizationException"
  /\ UNCHANGED <<permission, session>>

Next == Authorize

Spec == Init /\ [][Next]_vars

-----------------------------------------------------------------------------
(* Properties                                                              *)

\* What is-permissions-matches.test.ts says a permission covers.
Covers(p) ==
  CASE p = <<"*">> -> PermissionsNoWildCard
    [] Len(p) = 2 -> {t \in PermissionsNoWildCard : t[1] = p[1]}
    [] Len(p) = 3 /\ p[3] = "*" ->
         {t \in PermissionsNoWildCard : t[2] = p[2] /\ p[1] \in {"*", t[1]}}
    [] OTHER -> {p}

Covered(ps) == permission \in UNION {Covers(p) : p \in ps}

\* The method is called only if the permission it asks for is covered by the
\* API key when there is one, else by the client when there is one, else by the
\* user: a narrower credential is not widened by what its user may do.
OnlyCoveredCallsPass ==
  outcome = "called" =>
    \/ session.apiKey # None /\ Covered(session.apiKey)
    \/ session.apiKey = None /\ session.client # None /\ Covered(session.client)
    \/ session.apiKey = None /\ session.client = None /\ Covered(session.user)

\* Nothing is refused that the credential covers.
CoveredCallsAreNotRefused ==
  outcome = "AuthorizationException" =>
    \/ session.apiKey # None /\ ~Covered(session.apiKey)
    \/ session.apiKey = None /\ session.client # None /\ ~Covered(session.client)
    \/ session.apiKey = None /\ session.client = None /\ ~Covered(session.user)

\* So exactly the calls that are covered pass.
ExactlyCoveredCallsPass == OnlyCoveredCallsPass /\ CoveredCallsAreNotRefused

=============================================================================
