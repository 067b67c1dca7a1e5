--------------------------- MODULE Gateway_proofs ---------------------------
(***************************************************************************)
(* Proofs about Gateway, for any requests and claims: the gateway          *)
(* implements ResilientProxy, so that the theorems of that module hold     *)
(* behind the edge, and only verified identities get past it.              *)
(***************************************************************************)
EXTENDS Gateway, ResilientProxy_proofs

(***************************************************************************)
(* What is known of a request at each stage of the chain.  TrustedIdentity *)
(* is not inductive: that a request is clean when it reaches the check of  *)
(* its token, and that the proxy has not begun before, must be carried.    *)
(***************************************************************************)
EdgeOK(r) ==
  /\ edge[r] # "proxied" => pc[r] = "idle"
  /\ edge[r] = "auth" => headers[r] = From("absent")
  /\ edge[r] = "proxied" =>
       /\ token[r] # {}
       /\ \A h \in Identity : headers[r][h] = IF h \in token[r] THEN "token" ELSE "absent"

EdgeInv == EdgeTypeOK /\ \A r \in Requests : EdgeOK(r)

(***************************************************************************)
(* Each step of the gateway is one of the proxy's or leaves it alone.      *)
(***************************************************************************)
LEMMA StepsOfProxy == [GatewayNext]_allVars => [Next]_vars
<1> SUFFICES ASSUME [GatewayNext]_allVars PROVE [Next]_vars
  OBVIOUS
<1>1. CASE UNCHANGED allVars
  BY <1>1 DEF allVars, vars
<1>2. ASSUME NEW r \in Requests, Receive(r) \/ ReadBody(r) \/ Leave(r) PROVE UNCHANGED vars
  BY <1>2 DEF Receive, ReadBody, Leave
<1>3. ASSUME NEW r \in Requests, Authenticate(r) PROVE [Next]_vars
  BY <1>3 DEF Authenticate, Refuse, HandOn, Next
<1>4. ASSUME NEW r \in Requests,
             ProxyRetry(r) \/ ProxyTimeout(r) \/ ProxyDownstream(r) \/ ProxyRecycle(r)
      PROVE  Next
  BY <1>4 DEF ProxyRetry, ProxyTimeout, ProxyDownstream, ProxyRecycle, Next
<1>5. CASE ProxyReset
  BY <1>5 DEF ProxyReset, Next
<1> QED
  BY <1>1, <1>2, <1>3, <1>4, <1>5 DEF GatewayNext

(***************************************************************************)
(* The gateway implements the resilient proxy.                             *)
(***************************************************************************)
THEOREM ProxyRefinement == GatewaySpec => ImplementsProxy
<1>1. GatewayInit => Init
  BY DEF GatewayInit
<1> QED
  BY <1>1, StepsOfProxy, PTL DEF GatewaySpec, ImplementsProxy, Spec

-----------------------------------------------------------------------------
LEMMA EdgeFrame ==
  ASSUME EdgeInv, NEW r \in Requests, EdgeTypeOK', EdgeOK(r)',
         \A q \in Requests \ {r} : /\ pc'[q] = pc[q] /\ edge'[q] = edge[q]
                                   /\ headers'[q] = headers[q] /\ token'[q] = token[q]
  PROVE  EdgeInv'
BY DEF EdgeInv, EdgeOK

LEMMA ReceiveKeeps == ASSUME IInv, EdgeInv, NEW r \in Requests, Receive(r) PROVE EdgeInv'
<1> USE DEF EdgeInv
<1>1. edge[r] = "none" /\ UNCHANGED vars /\ UNCHANGED token
  BY DEF Receive
<1>2. PICK s \in {"403", "405", "204", "429", "body"} : edge' = [edge EXCEPT ![r] = s]
  BY DEF Receive, LimiterAnswers, CorsAnswers, MethodAnswers, Reply
<1>3. \/ headers' = headers
      \/ \E who \in {"absent", "client"} : headers' = [headers EXCEPT ![r] = From(who)]
  BY DEF Receive
<1>4. EdgeTypeOK'
  <2>1. \A who \in {"absent", "client"} : From(who) \in [Identity -> {"absent", "client", "token"}]
    BY DEF From
  <2> QED
    BY <1>1, <1>2, <1>3, <2>1 DEF EdgeTypeOK, Statuses
<1>5. EdgeOK(r)'
  <2>1. pc[r] = "idle"
    BY <1>1 DEF EdgeOK
  <2>2. edge'[r] = s
    BY <1>2 DEF EdgeTypeOK
  <2> QED
    BY <1>1, <2>1, <2>2 DEF EdgeOK, vars
<1>6. \A q \in Requests \ {r} : /\ pc'[q] = pc[q] /\ edge'[q] = edge[q]
                                /\ headers'[q] = headers[q] /\ token'[q] = token[q]
  BY <1>1, <1>2, <1>3 DEF EdgeTypeOK, vars
<1> QED
  BY <1>4, <1>5, <1>6, EdgeFrame

LEMMA ReadBodyKeeps == ASSUME IInv, EdgeInv, NEW r \in Requests, ReadBody(r) PROVE EdgeInv'
<1> USE DEF EdgeInv
<1>1. edge[r] = "body" /\ UNCHANGED vars /\ UNCHANGED token
  BY DEF ReadBody
<1>2. PICK s \in {"413", "500", "415", "200", "auth"} :
        /\ edge' = [edge EXCEPT ![r] = s]
        /\ \/ headers' = headers /\ s # "auth"
           \/ headers' = [headers EXCEPT ![r] = From("absent")]
  BY DEF ReadBody, Reply, Sanitize, BodyAnswers, TypeAnswers, HealthAnswers
<1>3. EdgeTypeOK'
  <2>1. From("absent") \in [Identity -> {"absent", "client", "token"}]
    BY DEF From
  <2> QED
    BY <1>1, <1>2, <2>1 DEF EdgeTypeOK, Statuses
<1>4. EdgeOK(r)'
  <2>1. pc[r] = "idle" /\ edge'[r] = s
    BY <1>1, <1>2 DEF EdgeOK, EdgeTypeOK
  <2>2. s = "auth" => headers'[r] = From("absent")
    BY <1>2 DEF EdgeTypeOK
  <2> QED
    BY <1>1, <2>1, <2>2 DEF EdgeOK, From, vars
<1>5. \A q \in Requests \ {r} : /\ pc'[q] = pc[q] /\ edge'[q] = edge[q]
                                /\ headers'[q] = headers[q] /\ token'[q] = token[q]
  BY <1>1, <1>2 DEF EdgeTypeOK, vars
<1> QED
  BY <1>1, <1>3, <1>4, <1>5, EdgeFrame

LEMMA ArriveFrame ==
  ASSUME TypeOK, NEW r \in Requests, Arrive(r)
  PROVE  \A q \in Requests \ {r} : pc'[q] = pc[q]
BY DEF Arrive, Fire, Caught, TypeOK

LEMMA AuthenticateKeeps == ASSUME IInv, EdgeInv, NEW r \in Requests, Authenticate(r) PROVE EdgeInv'
<1> USE DEF EdgeInv
<1>1. edge[r] = "auth"
  BY DEF Authenticate
<1>2. pc[r] = "idle" /\ headers[r] = From("absent")
  BY <1>1 DEF EdgeOK
<1>3. CASE Refuse(r)
  <2>1. PICK s \in {"401", "500"} : edge' = [edge EXCEPT ![r] = s]
    BY <1>3 DEF Refuse, Reply
  <2>2. UNCHANGED <<pc, headers, token>>
    BY <1>3 DEF Refuse, vars
  <2>3. EdgeTypeOK'
    BY <1>1, <2>1, <2>2 DEF EdgeTypeOK, Statuses
  <2>4. EdgeOK(r)'
    BY <1>2, <2>1, <2>2 DEF EdgeOK, EdgeTypeOK
  <2> QED
    BY <2>1, <2>2, <2>3, <2>4, EdgeFrame DEF EdgeTypeOK
<1>4. CASE ~Refuse(r)
  <2>1. PICK c \in Claims : token' = [token EXCEPT ![r] = {"x-authenticated-user"} \cup c]
    BY <1>4 DEF Authenticate
  <2>2. headers' = [headers EXCEPT ![r] =
                      [h \in Identity |-> IF h \in token'[r] THEN "token" ELSE headers[r][h]]]
    BY <1>4 DEF Authenticate
  <2>3. PICK s \in {"404", "proxied"} :
          edge' = [edge EXCEPT ![r] = s] /\ (s = "404" => UNCHANGED vars)
    BY <1>4 DEF Authenticate, Reply
  <2>4. \A q \in Requests \ {r} : pc'[q] = pc[q]
    BY <1>4, ArriveFrame DEF Authenticate, HandOn, IInv, vars
  <2>5. {"x-authenticated-user"} \cup c \subseteq Identity
    BY EdgeAssumption DEF Identity
  <2>6. token'[r] = {"x-authenticated-user"} \cup c
    BY <2>1 DEF EdgeTypeOK
  <2>7. [h \in Identity |-> IF h \in token'[r] THEN "token" ELSE headers[r][h]]
          \in [Identity -> {"absent", "client", "token"}]
    BY <1>2 DEF From
  <2>8. EdgeTypeOK'
    BY <1>1, <2>1, <2>2, <2>3, <2>5, <2>7 DEF EdgeTypeOK, Statuses
  <2>9. EdgeOK(r)'
    <3>1. edge'[r] = s
      BY <2>3 DEF EdgeTypeOK
    <3>2. \A h \in Identity : headers'[r][h] = IF h \in token'[r] THEN "token" ELSE "absent"
      BY <1>2, <2>2 DEF EdgeTypeOK, From
    <3>3. s = "404" => pc'[r] = "idle"
      BY <1>2, <2>3 DEF vars
    <3> QED
      BY <2>6, <3>1, <3>2, <3>3 DEF EdgeOK
  <2> QED
    BY <2>1, <2>2, <2>3, <2>4, <2>8, <2>9, EdgeFrame DEF EdgeTypeOK
<1> QED
  BY <1>3, <1>4

LEMMA ForgetKeeps ==
  ASSUME IInv, EdgeInv, NEW r \in Requests, Forget(r), pc'[r] = "idle",
         \A q \in Requests \ {r} : pc'[q] = pc[q]
  PROVE  EdgeInv'
<1> USE DEF EdgeInv
<1>1. From("absent") \in [Identity -> {"absent", "client", "token"}]
  BY DEF From
<1>2. EdgeTypeOK'
  BY <1>1 DEF Forget, EdgeTypeOK
<1>3. edge'[r] = "none"
  BY DEF Forget, EdgeTypeOK
<1> QED
  BY <1>2, <1>3, EdgeFrame DEF Forget, EdgeTypeOK, EdgeOK

(* The proxy's own steps concern requests that were handed on. *)
LEMMA ProxyKeeps ==
  ASSUME IInv, EdgeInv, UNCHANGED edgeVars,
         \A q \in Requests : pc[q] = "idle" => pc'[q] = "idle"
  PROVE  EdgeInv'
BY DEF EdgeInv, EdgeOK, EdgeTypeOK, edgeVars

LEMMA IdleStaysIdle ==
  ASSUME IInv, NEW r \in Requests, Retry(r) \/ Timeout(r) \/ Downstream(r)
  PROVE  \A q \in Requests : pc[q] = "idle" => pc'[q] = "idle"
<1> USE DEF IInv, TypeOK
<1> SUFFICES ASSUME NEW q \in Requests, pc[q] = "idle" PROVE pc'[q] = "idle"
  OBVIOUS
<1>1. CASE Retry(r)
  BY <1>1 DEF Retry, Fire, Caught
<1>2. CASE Timeout(r)
  BY <1>2 DEF Timeout, Caught
<1>3. CASE Downstream(r)
  BY <1>3 DEF Downstream, Answers, Ends, Fails, Caught
<1> QED
  BY <1>1, <1>2, <1>3

LEMMA EdgeStep == ASSUME IInv, EdgeInv, [GatewayNext]_allVars PROVE EdgeInv'
<1>1. CASE UNCHANGED allVars
  BY <1>1 DEF allVars, EdgeInv, EdgeOK, EdgeTypeOK
<1>2. ASSUME NEW r \in Requests, Receive(r) \/ ReadBody(r) \/ Authenticate(r) PROVE EdgeInv'
  BY <1>2, ReceiveKeeps, ReadBodyKeeps, AuthenticateKeeps
<1>3. ASSUME NEW r \in Requests, Leave(r) PROVE EdgeInv'
  <2>1. pc[r] = "idle" /\ UNCHANGED pc
    BY <1>3 DEF Leave, EdgeInv, EdgeOK, Statuses, vars
  <2> QED
    BY <1>3, <2>1, ForgetKeeps DEF Leave
<1>4. ASSUME NEW r \in Requests, ProxyRetry(r) \/ ProxyTimeout(r) \/ ProxyDownstream(r) PROVE EdgeInv'
  BY <1>4, IdleStaysIdle, ProxyKeeps DEF ProxyRetry, ProxyTimeout, ProxyDownstream
<1>5. ASSUME NEW r \in Requests, ProxyRecycle(r) PROVE EdgeInv'
  <2>1. pc' = [pc EXCEPT ![r] = "idle"]
    BY <1>5 DEF ProxyRecycle, Recycle
  <2> QED
    BY <1>5, <2>1, ForgetKeeps DEF ProxyRecycle, IInv, TypeOK
<1>6. CASE ProxyReset
  BY <1>6, ProxyKeeps DEF ProxyReset, BreakerReset
<1> QED
  BY <1>1, <1>2, <1>3, <1>4, <1>5, <1>6 DEF GatewayNext

-----------------------------------------------------------------------------
(***************************************************************************)
(* The inductive invariant of the edge, beside the proxy's.                *)
(***************************************************************************)
THEOREM EdgeInvariance == GatewaySpec => [](IInv /\ EdgeInv)
<1>1. GatewaySpec => []IInv
  BY ProxyRefinement, Invariance DEF ImplementsProxy
<1>2. GatewayInit => EdgeInv
  BY DEF GatewayInit, EdgeInit, Init, EdgeInv, EdgeOK, EdgeTypeOK, From
<1>3. IInv /\ EdgeInv /\ [GatewayNext]_allVars => EdgeInv'
  BY EdgeStep
<1> QED
  BY <1>1, <1>2, <1>3, PTL DEF GatewaySpec

(***************************************************************************)
(* The type invariant of the edge, for any requests and claims.            *)
(***************************************************************************)
THEOREM EdgeTypeCorrect == GatewaySpec => []EdgeTypeOK
<1>1. EdgeInv => EdgeTypeOK
  BY DEF EdgeInv
<1> QED
  BY <1>1, EdgeInvariance, PTL

(***************************************************************************)
(* A downstream service is called only for a verified token and told only  *)
(* what that token says, in every attempt and late answer.                 *)
(***************************************************************************)
THEOREM TrustedIdentityHolds == GatewaySpec => []TrustedIdentity
<1>1. IInv /\ EdgeInv => TrustedIdentity
  <2> SUFFICES ASSUME IInv, EdgeInv, NEW r \in Requests, Called(r)
               PROVE  edge[r] = "proxied" /\ EdgeOK(r)
    BY DEF TrustedIdentity, EdgeOK
  <2>1. pc[r] # "idle"
    BY DEF Called, IInv, CallsOK, NoCalls
  <2> QED
    BY <2>1 DEF EdgeInv, EdgeOK
<1> QED
  BY <1>1, EdgeInvariance, PTL

(***************************************************************************)
(* Behind the edge, too, a request that is not idempotent reaches the      *)
(* downstream service at most once and is over when it was refused, a      *)
(* handler that is done has answered, no answer that has begun is          *)
(* replaced, and no handler retries without end.                           *)
(***************************************************************************)
THEOREM ProxyBehindEdge ==
  GatewaySpec => /\ [](NonIdempotentOnce /\ RefusedIsOver /\ DoneMeansAnswered)
                 /\ AnswerIsFinal /\ AttemptsDescend
<1>1. ImplementsProxy => [](NonIdempotentOnce /\ RefusedIsOver /\ DoneMeansAnswered)
  BY NonIdempotentOnceHolds, RefusedIsOverHolds, DoneMeansAnsweredHolds, PTL DEF ImplementsProxy
<1>2. ImplementsProxy => AnswerIsFinal /\ AttemptsDescend
  BY AnswerIsFinalHolds, AttemptsDescendHolds DEF ImplementsProxy
<1> QED
  BY <1>1, <1>2, ProxyRefinement
=============================================================================
