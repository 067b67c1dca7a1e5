------------------------------ MODULE Gateway ------------------------------
(***************************************************************************)
(* One process of the gateway: the chain of middlewares of app.ts before   *)
(* the resilient proxy.  A request is checked, stripped of identity        *)
(* headers and authenticated before it is handed to ResilientProxy; every  *)
(* check may answer it instead.  The chain pauses where it awaits the body *)
(* and the verification of a token, so that the checks of several requests *)
(* interleave with each other and with attempts under way.                 *)
(*                                                                         *)
(* cors, express-rate-limit and jsonwebtoken are external; what a request  *)
(* brings (origin, method, path, body, token) is chosen where it is read.  *)
(* What the limiter counts, and where, is its own affair.                  *)
(***************************************************************************)
EXTENDS ResilientProxy

CONSTANT
  Claims        \* what a verified token may claim: sets of the headers set from it

ASSUME EdgeAssumption == Claims \subseteq SUBSET {"x-user-id", "x-user-roles"}

VARIABLES
  edge,         \* where the chain of a request is, or the status it was answered with
  headers,      \* who set its identity headers
  token         \* the identity headers its verified token stands for

edgeVars == <<edge, headers, token>>
allVars == <<breaker, pc, attempt, call, answer, ended, edge, headers, token>>

-----------------------------------------------------------------------------
(* x-forwarded-user stands for the three names that are stripped and never set. *)
Identity == {"x-user-id", "x-user-roles", "x-authenticated-user", "x-forwarded-user"}

Statuses == {"200", "204", "401", "403", "404", "405", "413", "415", "429", "500"}

EdgeTypeOK ==
  /\ edge \in [Requests -> {"none", "body", "auth", "proxied"} \cup Statuses]
  /\ headers \in [Requests -> [Identity -> {"absent", "client", "token"}]]
  /\ token \in [Requests -> SUBSET Identity]

From(who) == [h \in Identity |-> who]

EdgeInit ==
  /\ edge = [r \in Requests |-> "none"]
  /\ headers = [r \in Requests |-> From("absent")]
  /\ token = [r \in Requests |-> {}]

GatewayInit == Init /\ EdgeInit

-----------------------------------------------------------------------------
(* The chain                                                               *)

Reply(r, status) == edge' = [edge EXCEPT ![r] = status]

(* What each check may answer; its requests without a body are the idempotent ones. *)
LimiterAnswers == {"429"}
CorsAnswers(r) == {"403"} \cup (IF r \in Idempotent THEN {"204"} ELSE {})
MethodAnswers == {"405"}
BodyAnswers == {"413", "500"}
TypeAnswers(r) == IF r \in Idempotent THEN {} ELSE {"415"}
HealthAnswers(r) == IF r \in Idempotent THEN {"200", "500"} ELSE {}

(* The limiter may refuse any request: that depends on what else its address sent. *)
Receive(r) ==
  /\ edge[r] = "none"
  /\ \/ /\ \E status \in LimiterAnswers \cup CorsAnswers(r) \cup MethodAnswers : Reply(r, status)
        /\ UNCHANGED headers
     \/ /\ Reply(r, "body")
        /\ \E who \in {"absent", "client"} : headers' = [headers EXCEPT ![r] = From(who)]
  /\ UNCHANGED <<vars, token>>

(* Mutant: the headers are emptied, and stay there without a value. *)
SanitizeEmpties(r) == headers' = [headers EXCEPT ![r] = From("empty")]

(* Mutant: only the headers that the gateway sets itself are stripped. *)
SanitizeOwn(r) ==
  headers' = [headers EXCEPT ![r] =
                [h \in Identity |-> IF h = "x-forwarded-user" THEN @[h] ELSE "absent"]]

Sanitize(r) == headers' = [headers EXCEPT ![r] = From("absent")]

(* The body has arrived: its errors, its type, the identity headers, the open routes. *)
ReadBody(r) ==
  /\ edge[r] = "body"
  /\ \/ \E status \in BodyAnswers \cup TypeAnswers(r) : Reply(r, status) /\ UNCHANGED headers
     \/ /\ Sanitize(r)
        /\ \/ Reply(r, "auth")
           \/ \E status \in HealthAnswers(r) : Reply(r, status)
  /\ UNCHANGED <<vars, token>>

Refuse(r) ==
  /\ \E status \in {"401", "500"} : Reply(r, status)
  /\ UNCHANGED <<vars, headers, token>>

(* Mutant: a route is given the proxy middleware without its breaker. *)
HandOnUnguarded(r) ==
  /\ pc' = [pc EXCEPT ![r] = "fired"]
  /\ call' = [call EXCEPT ![r][0] = "pending"]
  /\ UNCHANGED <<breaker, attempt, answer, ended>>

(* The three routes, each with a resilient proxy of its own; the model follows one. *)
HandOn(r) == Arrive(r)

(* The headers of a verified token, then the proxy's routes or the 404 handler. *)
Authenticate(r) ==
  /\ edge[r] = "auth"
  /\ \/ Refuse(r)
     \/ /\ \E c \in Claims : token' = [token EXCEPT ![r] = {"x-authenticated-user"} \cup c]
        /\ headers' = [headers EXCEPT ![r] = [h \in Identity |-> IF h \in token'[r] THEN "token" ELSE @[h]]]
        /\ \/ Reply(r, "404") /\ UNCHANGED vars
           \/ Reply(r, "proxied") /\ HandOn(r)

Forget(r) ==
  /\ edge' = [edge EXCEPT ![r] = "none"]
  /\ headers' = [headers EXCEPT ![r] = From("absent")]
  /\ token' = [token EXCEPT ![r] = {}]

(* Bound: the slot of a request that the edge answered serves the next one. *)
Leave(r) == edge[r] \in Statuses /\ Forget(r) /\ UNCHANGED vars

(* The attempts of a request that was handed on. *)
ProxyRetry(r) == Retry(r) /\ UNCHANGED edgeVars
ProxyTimeout(r) == Timeout(r) /\ UNCHANGED edgeVars
ProxyDownstream(r) == Downstream(r) /\ UNCHANGED edgeVars
ProxyReset == BreakerReset /\ UNCHANGED edgeVars
ProxyRecycle(r) == Recycle(r) /\ Forget(r)

-----------------------------------------------------------------------------
GatewayNext ==
  \/ \E r \in Requests :
       \/ Receive(r) \/ ReadBody(r) \/ Authenticate(r) \/ Leave(r)
       \/ ProxyRetry(r) \/ ProxyTimeout(r) \/ ProxyDownstream(r) \/ ProxyRecycle(r)
  \/ ProxyReset

GatewaySpec == GatewayInit /\ [][GatewayNext]_allVars

(* Timers fire.  Nothing is assumed of clients or of the downstream service. *)
FairGatewaySpec ==
  GatewaySpec /\ \A r \in Requests : WF_allVars(ProxyRetry(r)) /\ WF_allVars(ProxyTimeout(r))

-----------------------------------------------------------------------------
(* Properties                                                              *)

Called(r) == \E k \in Attempts : call[r][k] # "none"

(***************************************************************************)
(* A downstream service is called only for a request whose token verified  *)
(* and that the edge did not answer, and it is told who the caller is by   *)
(* that token alone, in every attempt: no identity header of the client is *)
(* left, also where the token has nothing to put in its place.             *)
(***************************************************************************)
TrustedIdentity ==
  \A r \in Requests : Called(r) =>
    /\ edge[r] = "proxied"
    /\ token[r] # {}
    /\ \A h \in Identity : headers[r][h] = IF h \in token[r] THEN "token" ELSE "absent"

(***************************************************************************)
(* The edge neither disturbs nor bypasses the proxy: each step of the      *)
(* gateway is a step of ResilientProxy or leaves it alone, so that what is *)
(* proved of the proxy holds behind the edge.                              *)
(***************************************************************************)
ImplementsProxy == Spec
=============================================================================
