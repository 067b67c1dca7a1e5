----------------------- MODULE ResilientProxy_proofs -----------------------
(***************************************************************************)
(* Proofs about ResilientProxy, for any number of requests, any number of  *)
(* retries and any capacity of the bulkhead.                               *)
(***************************************************************************)
EXTENDS ResilientProxy, FiniteSetTheorems, TLAPS

(***************************************************************************)
(* What is true of one request at every step.  The last two conjuncts are  *)
(* NonIdempotentOnce and RefusedIsOver, in the form that is inductive: a   *)
(* request that is not idempotent never leaves attempt 0.                  *)
(***************************************************************************)
CallsOK(r) ==
  /\ pc[r] = "idle" => call[r] = NoCalls /\ answer[r] = "none"
  /\ pc[r] = "pause" => attempt[r] < MaxRetries(r)
  /\ pc[r] = "done" => HeadersSent(r)
  /\ \A k \in Attempts : call[r][k] = "piping" => HeadersSent(r)

OnceOK(r) ==
  r \notin Idempotent =>
    /\ attempt[r] = 0
    /\ \A k \in Attempts \ {0} : call[r][k] = "none"
    /\ answer[r] \in {"429", "502", "503"} => call[r][0] \in {"none", "failed"}

(* The inductive invariant. *)
IInv == TypeOK /\ \A r \in Requests : CallsOK(r) /\ OnceOK(r)

(* A step of request r leaves what is known of the others alone. *)
Others(r) ==
  \A q \in Requests \ {r} :
    /\ pc'[q] = pc[q]
    /\ attempt'[q] = attempt[q]
    /\ call'[q] = call[q]
    /\ answer'[q] = answer[q]

-----------------------------------------------------------------------------
LEMMA RetryBound == \A r \in Requests : MaxRetries(r) \in Nat /\ MaxRetries(r) <= RetryCount
BY ConfigAssumption DEF MaxRetries

LEMMA FrameKeeps ==
  ASSUME IInv, TypeOK', NEW r \in Requests, Others(r), CallsOK(r)', OnceOK(r)'
  PROVE  IInv'
<1> SUFFICES ASSUME NEW q \in Requests \ {r} PROVE CallsOK(q)' /\ OnceOK(q)'
  BY DEF IInv
<1>1. pc'[q] = pc[q] /\ attempt'[q] = attempt[q] /\ call'[q] = call[q] /\ answer'[q] = answer[q]
  BY DEF Others
<1>2. CallsOK(q) /\ OnceOK(q)
  BY DEF IInv
<1> QED
  BY <1>1, <1>2 DEF CallsOK, OnceOK, HeadersSent, MaxRetries

(***************************************************************************)
(* What the catch of executeWithRetry does with an error: it goes to the   *)
(* pause while retries are left and nothing was sent, or ends with an      *)
(* answer, which is the one that had begun or else the error's status.     *)
(***************************************************************************)
LEMMA CatchEffect ==
  ASSUME TypeOK, NEW r \in Requests, NEW err \in Errors, Caught(r, err)
  PROVE  /\ pc' \in [Requests -> {"idle", "fired", "pause", "done"}]
         /\ answer' \in [Requests -> {"none", "downstream"} \cup Degraded]
         /\ ended' \in [Requests -> BOOLEAN]
         /\ \A q \in Requests \ {r} :
              pc'[q] = pc[q] /\ answer'[q] = answer[q] /\ ended'[q] = ended[q]
         /\ ended[r] => ended'[r]
         /\ HeadersSent(r) => answer'[r] = answer[r]
         /\ \/ /\ pc'[r] = "pause" /\ attempt[r] < MaxRetries(r) /\ answer'[r] = answer[r]
               /\ err \notin {"open", "system-overload"}
            \/ /\ pc'[r] = "done" /\ answer'[r] # "none"
               /\ answer'[r] = answer[r] \/ answer'[r] = StatusOf(err)
<1>1. StatusOf(err) \in Degraded
  BY DEF StatusOf, Errors, Degraded
<1>2. CASE RetriesLeft(r, err)
  BY <1>2 DEF Caught, TypeOK, RetriesLeft, HeadersSent
<1>3. CASE ~RetriesLeft(r, err)
  <2>1. Degrade(r, err) /\ pc' = [pc EXCEPT ![r] = "done"]
    BY <1>3 DEF Caught
  <2>2. CASE HeadersSent(r)
    BY <2>1, <2>2 DEF Degrade, TypeOK, HeadersSent
  <2>3. CASE ~HeadersSent(r)
    <3>1. answer' = [answer EXCEPT ![r] = StatusOf(err)] /\ ended' = [ended EXCEPT ![r] = TRUE]
      BY <2>1, <2>3 DEF Degrade
    <3>2. answer'[r] = StatusOf(err) /\ answer'[r] # "none"
      BY <1>1, <3>1 DEF TypeOK, Degraded
    <3> QED
      BY <1>1, <2>1, <2>3, <3>1, <3>2 DEF TypeOK
  <2> QED
    BY <2>2, <2>3
<1> QED
  BY <1>2, <1>3

(* The breaker stays in one of its states. *)
LEMMA BreakerTyped ==
  ASSUME TypeOK, BreakerFailure \/ BreakerSuccess
  PROVE  breaker' \in {"closed", "open", "halfOpen", "probing"}
BY DEF TypeOK, BreakerFailure, BreakerSuccess

-----------------------------------------------------------------------------
(***************************************************************************)
(* An attempt is fired: the first one, or the one after a pause, of a      *)
(* request that may be retried.                                            *)
(***************************************************************************)
LEMMA FireKeeps ==
  ASSUME IInv, NEW r \in Requests, NEW k \in Attempts, Fire(r, k),
         (pc[r] = "idle" /\ k = 0) \/ r \in Idempotent
  PROVE  IInv'
<1> USE DEF IInv
<1>0. attempt' = [attempt EXCEPT ![r] = k]
  BY DEF Fire
<1>a. r \notin Idempotent =>
         k = 0 /\ answer[r] = "none" /\ \A j \in Attempts : call[r][j] = "none"
  BY DEF CallsOK, NoCalls
<1>1. CASE Refuses
  <2>1. Caught(r, "open") /\ UNCHANGED <<breaker, call>>
    BY <1>1 DEF Fire
  <2>2. "open" \in Errors
    BY DEF Errors
  <2>3. pc'[r] = "done" /\ answer'[r] # "none"
    BY <2>1, <2>2, CatchEffect
  <2>4. TypeOK' /\ Others(r)
    BY <1>0, <2>1, <2>2, CatchEffect DEF TypeOK, Others
  <2>5. CallsOK(r)'
    BY <2>1, <2>3 DEF CallsOK, HeadersSent
  <2>6. OnceOK(r)'
    BY <1>0, <1>a, <2>1 DEF OnceOK, TypeOK
  <2> QED
    BY <2>4, <2>5, <2>6, FrameKeeps
<1>2. CASE ~Refuses /\ BulkheadFull
  <2>1. Caught(r, "system-overload") /\ UNCHANGED call /\ BreakerFailure
    BY <1>2 DEF Fire
  <2>2. "system-overload" \in Errors
    BY DEF Errors
  <2>3. pc'[r] = "done" /\ answer'[r] # "none"
    BY <2>1, <2>2, CatchEffect
  <2>4. TypeOK' /\ Others(r)
    BY <1>0, <2>1, <2>2, CatchEffect, BreakerTyped DEF TypeOK, Others
  <2>5. CallsOK(r)'
    BY <2>1, <2>3 DEF CallsOK, HeadersSent
  <2>6. OnceOK(r)'
    BY <1>0, <1>a, <2>1 DEF OnceOK, TypeOK
  <2> QED
    BY <2>4, <2>5, <2>6, FrameKeeps
<1>3. CASE ~Refuses /\ ~BulkheadFull
  <2>1. /\ breaker' \in {breaker, "probing"}
        /\ pc' = [pc EXCEPT ![r] = "fired"]
        /\ call' = [call EXCEPT ![r][k] = "pending"]
        /\ UNCHANGED <<answer, ended>>
    BY <1>3 DEF Fire
  <2>2. TypeOK' /\ Others(r)
    BY <1>0, <2>1 DEF TypeOK, Others
  <2>3. CallsOK(r)'
    BY <2>1 DEF TypeOK, CallsOK, HeadersSent
  <2>4. OnceOK(r)'
    BY <1>0, <1>a, <2>1 DEF TypeOK, OnceOK
  <2> QED
    BY <2>2, <2>3, <2>4, FrameKeeps
<1> QED
  BY <1>1, <1>2, <1>3

LEMMA ArriveKeeps == ASSUME IInv, NEW r \in Requests, Arrive(r) PROVE IInv'
<1>1. 0 \in Attempts
  BY ConfigAssumption DEF Attempts
<1> QED
  BY <1>1, FireKeeps DEF Arrive

(* Only an idempotent request pauses, and only while an attempt is left. *)
LEMMA RetryKeeps == ASSUME IInv, NEW r \in Requests, Retry(r) PROVE IInv'
<1>1. attempt[r] \in Nat /\ attempt[r] < MaxRetries(r)
  BY DEF Retry, IInv, CallsOK, TypeOK, Attempts
<1>2. attempt[r] + 1 \in Attempts
  BY <1>1, RetryBound, ConfigAssumption DEF Attempts
<1>3. r \in Idempotent
  BY <1>1 DEF MaxRetries
<1> QED
  BY <1>2, <1>3, FireKeeps DEF Retry

LEMMA TimeoutKeeps == ASSUME IInv, NEW r \in Requests, Timeout(r) PROVE IInv'
<1> USE DEF IInv
<1>1. Caught(r, "timeout") /\ "timeout" \in Errors /\ UNCHANGED <<attempt, call>>
  BY DEF Timeout, Errors
<1>2. StatusOf("timeout") = "504"
  BY DEF StatusOf
<1>3. TypeOK' /\ Others(r)
  BY <1>1, CatchEffect, BreakerTyped DEF Timeout, TypeOK, Others
<1>4. CallsOK(r)'
  <2>1. \/ pc'[r] = "pause" /\ attempt[r] < MaxRetries(r) /\ answer'[r] = answer[r]
        \/ pc'[r] = "done" /\ answer'[r] # "none"
    BY <1>1, CatchEffect
  <2> QED
    BY <1>1, <2>1 DEF CallsOK, HeadersSent, MaxRetries
<1>5. OnceOK(r)'
  <2>1. answer'[r] = answer[r] \/ answer'[r] = "504"
    BY <1>1, <1>2, CatchEffect
  <2> QED
    BY <1>1, <2>1 DEF OnceOK
<1> QED
  BY <1>3, <1>4, <1>5, FrameKeeps

LEMMA AnswersKeeps ==
  ASSUME IInv, NEW r \in Requests, NEW k \in Attempts, Answers(r, k) PROVE IInv'
<1> USE DEF IInv
<1>1. call[r][k] = "pending" /\ UNCHANGED <<breaker, pc, attempt, ended>>
  BY DEF Answers
<1>2. CASE HeadersSent(r)
  <2>1. call' = [call EXCEPT ![r][k] = "dropped"] /\ answer' = answer
    BY <1>2 DEF Answers
  <2>2. TypeOK' /\ Others(r)
    BY <1>1, <2>1 DEF TypeOK, Others
  <2>3. CallsOK(r)'
    BY <1>1, <1>2, <2>1 DEF TypeOK, CallsOK, HeadersSent, MaxRetries
  <2>4. OnceOK(r)'
    BY <1>1, <2>1 DEF TypeOK, OnceOK, Attempts
  <2> QED
    BY <2>2, <2>3, <2>4, FrameKeeps
<1>3. CASE ~HeadersSent(r)
  <2>1. call' = [call EXCEPT ![r][k] = "piping"] /\ answer' = [answer EXCEPT ![r] = "downstream"]
    BY <1>3 DEF Answers
  <2>2. TypeOK' /\ Others(r)
    BY <1>1, <2>1 DEF TypeOK, Others
  <2>3. CallsOK(r)'
    BY <1>1, <2>1 DEF TypeOK, CallsOK, HeadersSent, MaxRetries, NoCalls
  <2>4. OnceOK(r)'
    BY <1>1, <2>1 DEF TypeOK, OnceOK, Attempts
  <2> QED
    BY <2>2, <2>3, <2>4, FrameKeeps
<1> QED
  BY <1>2, <1>3

LEMMA EndsKeeps ==
  ASSUME IInv, NEW r \in Requests, NEW k \in Attempts, Ends(r, k) PROVE IInv'
<1> USE DEF IInv
<1>1. /\ call[r][k] = "piping"
      /\ call' = [call EXCEPT ![r][k] = "ended"]
      /\ ended' = [ended EXCEPT ![r] = TRUE]
      /\ UNCHANGED <<attempt, answer>>
      /\ pc' = [pc EXCEPT ![r] = "done"] \/ pc' = pc
  BY DEF Ends
<1>2. HeadersSent(r)
  BY <1>1 DEF CallsOK
<1>3. breaker' \in {"closed", "open", "halfOpen", "probing"}
  BY BreakerTyped DEF Ends, TypeOK
<1>4. TypeOK' /\ Others(r)
  BY <1>1, <1>3 DEF TypeOK, Others
<1>5. CallsOK(r)'
  BY <1>1, <1>2 DEF TypeOK, CallsOK, HeadersSent, MaxRetries
<1>6. OnceOK(r)'
  BY <1>1 DEF TypeOK, OnceOK, Attempts
<1> QED
  BY <1>4, <1>5, <1>6, FrameKeeps

LEMMA FailsKeeps ==
  ASSUME IInv, NEW r \in Requests, NEW k \in Attempts, Fails(r, k) PROVE IInv'
<1> USE DEF IInv
<1>1. /\ call[r][k] \in {"pending", "piping"}
      /\ call' = [call EXCEPT ![r][k] = "failed"]
      /\ UNCHANGED attempt
  BY DEF Fails
<1>2. CASE pc[r] = "fired"
  <2>1. PICK err \in {"ECONNREFUSED", "timeout", "other"} : Caught(r, err)
    BY <1>2 DEF Fails
  <2>2. err \in Errors
    BY DEF Errors
  <2>3. TypeOK' /\ Others(r)
    BY <1>1, <1>2, <2>1, <2>2, CatchEffect, BreakerTyped DEF Fails, TypeOK, Others
  <2>4. CallsOK(r)'
    <3>1. \/ pc'[r] = "pause" /\ attempt[r] < MaxRetries(r) /\ answer'[r] = answer[r]
          \/ pc'[r] = "done" /\ answer'[r] # "none"
      BY <2>1, <2>2, CatchEffect
    <3> QED
      BY <1>1, <3>1 DEF TypeOK, CallsOK, HeadersSent, MaxRetries
  <2>5. OnceOK(r)'
    BY <1>1 DEF TypeOK, OnceOK, Attempts
  <2> QED
    BY <2>3, <2>4, <2>5, FrameKeeps
<1>3. CASE pc[r] # "fired"
  <2>1. UNCHANGED <<breaker, pc, answer, ended>>
    BY <1>3 DEF Fails
  <2>2. TypeOK' /\ Others(r)
    BY <1>1, <2>1 DEF TypeOK, Others
  <2>3. CallsOK(r)'
    BY <1>1, <2>1 DEF TypeOK, CallsOK, HeadersSent, MaxRetries, NoCalls
  <2>4. OnceOK(r)'
    BY <1>1, <2>1 DEF TypeOK, OnceOK, Attempts
  <2> QED
    BY <2>2, <2>3, <2>4, FrameKeeps
<1> QED
  BY <1>2, <1>3

LEMMA RecycleKeeps == ASSUME IInv, NEW r \in Requests, Recycle(r) PROVE IInv'
<1> USE DEF IInv
<1>1. 0 \in Attempts
  BY ConfigAssumption DEF Attempts
<1>2. TypeOK' /\ Others(r)
  BY <1>1 DEF Recycle, TypeOK, Others, NoCalls
<1>3. CallsOK(r)'
  BY DEF Recycle, TypeOK, CallsOK, HeadersSent, NoCalls
<1>4. OnceOK(r)'
  BY <1>1 DEF Recycle, TypeOK, OnceOK, NoCalls
<1> QED
  BY <1>2, <1>3, <1>4, FrameKeeps

LEMMA ResetKeeps == ASSUME IInv, BreakerReset PROVE IInv'
BY DEF IInv, BreakerReset, TypeOK, CallsOK, OnceOK, HeadersSent, MaxRetries

-----------------------------------------------------------------------------
(***************************************************************************)
(* The inductive invariant holds in every reachable state.                 *)
(***************************************************************************)
THEOREM Invariance == Spec => []IInv
<1>1. Init => IInv
  <2>1. 0 \in Attempts
    BY ConfigAssumption DEF Attempts
  <2> QED
    BY <2>1 DEF Init, IInv, TypeOK, CallsOK, OnceOK, NoCalls, HeadersSent, Degraded
<1>2. IInv /\ [Next]_vars => IInv'
  <2> SUFFICES ASSUME IInv, [Next]_vars PROVE IInv'
    OBVIOUS
  <2>1. ASSUME NEW r \in Requests, Arrive(r) PROVE IInv'
    BY <2>1, ArriveKeeps
  <2>2. ASSUME NEW r \in Requests, Retry(r) PROVE IInv'
    BY <2>2, RetryKeeps
  <2>3. ASSUME NEW r \in Requests, Timeout(r) PROVE IInv'
    BY <2>3, TimeoutKeeps
  <2>4. ASSUME NEW r \in Requests, Downstream(r) PROVE IInv'
    BY <2>4, AnswersKeeps, EndsKeeps, FailsKeeps DEF Downstream
  <2>5. ASSUME NEW r \in Requests, Recycle(r) PROVE IInv'
    BY <2>5, RecycleKeeps
  <2>6. CASE BreakerReset
    BY <2>6, ResetKeeps
  <2>7. CASE UNCHANGED vars
    BY <2>7 DEF vars, IInv, TypeOK, CallsOK, OnceOK, HeadersSent, MaxRetries
  <2> QED
    BY <2>1, <2>2, <2>3, <2>4, <2>5, <2>6, <2>7 DEF Next
<1> QED
  BY <1>1, <1>2, PTL DEF Spec

(***************************************************************************)
(* The variables of the proxy have their types.                            *)
(***************************************************************************)
THEOREM TypeCorrect == Spec => []TypeOK
<1>1. IInv => TypeOK
  BY DEF IInv
<1> QED
  BY <1>1, Invariance, PTL

(***************************************************************************)
(* A request that is not idempotent reaches the downstream service at most *)
(* once, for any number of retries.                                        *)
(***************************************************************************)
THEOREM NonIdempotentOnceHolds == Spec => []NonIdempotentOnce
<1>1. IInv => NonIdempotentOnce
  <2> SUFFICES ASSUME IInv, NEW r \in Requests \ Idempotent
               PROVE  Cardinality({k \in Attempts : call[r][k] # "none"}) <= 1
    BY DEF NonIdempotentOnce
  <2> DEFINE made == {k \in Attempts : call[r][k] # "none"}
  <2>1. made \subseteq {0}
    BY DEF IInv, OnceOK
  <2>2. made = {} \/ made = {0}
    BY <2>1
  <2>3. Cardinality({}) = 0 /\ Cardinality({0}) = 1
    BY FS_EmptySet, FS_Singleton
  <2> QED
    BY <2>2, <2>3
<1> QED
  BY <1>1, Invariance, PTL

(***************************************************************************)
(* A request that is not idempotent and was answered 429, 502 or 503 by    *)
(* the gateway has no call that could still be carried out.                *)
(***************************************************************************)
THEOREM RefusedIsOverHolds == Spec => []RefusedIsOver
<1>1. IInv => RefusedIsOver
  BY DEF IInv, OnceOK, RefusedIsOver
<1> QED
  BY <1>1, Invariance, PTL

(***************************************************************************)
(* When a handler is done, its client's answer has begun.                  *)
(***************************************************************************)
THEOREM DoneMeansAnsweredHolds == Spec => []DoneMeansAnswered
<1>1. IInv => DoneMeansAnswered
  BY DEF IInv, CallsOK, DoneMeansAnswered
<1> QED
  BY <1>1, Invariance, PTL

(***************************************************************************)
(* An answer that has begun is never replaced, and never un-ended.         *)
(***************************************************************************)
THEOREM AnswerIsFinalHolds == Spec => AnswerIsFinal
<1> DEFINE Final(r) ==
      HeadersSent(r) /\ pc'[r] # "idle" => answer'[r] = answer[r] /\ (ended[r] => ended'[r])
<1>1. ASSUME TypeOK, [Next]_vars, NEW r \in Requests PROVE Final(r)
  <2>1. ASSUME NEW q \in Requests, NEW err \in Errors, Caught(q, err) PROVE Final(r)
    <3>1. CASE q = r
      BY <1>1, <2>1, <3>1, CatchEffect
    <3>2. CASE q # r
      BY <1>1, <2>1, <3>2, CatchEffect
    <3> QED
      BY <3>1, <3>2
  <2>2. ASSUME UNCHANGED <<answer, ended>> PROVE Final(r)
    BY <2>2
  <2>3. ASSUME NEW q \in Requests, NEW k, Fire(q, k) PROVE Final(r)
    BY <2>1, <2>2, <2>3 DEF Fire, Errors
  <2>4. ASSUME NEW q \in Requests, Arrive(q) \/ Retry(q) PROVE Final(r)
    BY <2>3, <2>4 DEF Arrive, Retry
  <2>5. ASSUME NEW q \in Requests, Timeout(q) PROVE Final(r)
    BY <2>1, <2>5 DEF Timeout, Errors
  <2>6. ASSUME NEW q \in Requests, NEW k \in Attempts, Answers(q, k) PROVE Final(r)
    BY <1>1, <2>6 DEF Answers, HeadersSent, TypeOK
  <2>7. ASSUME NEW q \in Requests, NEW k \in Attempts, Ends(q, k) PROVE Final(r)
    BY <1>1, <2>7 DEF Ends, TypeOK
  <2>8. ASSUME NEW q \in Requests, NEW k \in Attempts, Fails(q, k) PROVE Final(r)
    BY <2>1, <2>2, <2>8 DEF Fails, Errors
  <2>9. ASSUME NEW q \in Requests, Recycle(q) PROVE Final(r)
    BY <1>1, <2>9 DEF Recycle, TypeOK
  <2>10. CASE BreakerReset \/ UNCHANGED vars
    BY <2>2, <2>10 DEF BreakerReset, vars
  <2> QED
    BY <1>1, <2>4, <2>5, <2>6, <2>7, <2>8, <2>9, <2>10 DEF Next, Downstream
<1>2. TypeOK /\ [Next]_vars => [\A r \in Requests : Final(r)]_vars
  BY <1>1
<1> QED
  BY <1>2, TypeCorrect, PTL DEF Spec, AnswerIsFinal

(***************************************************************************)
(* What a handler can still do: nothing once it is done, and never less    *)
(* than one step before that.                                              *)
(***************************************************************************)
LEMMA StepsCounted ==
  ASSUME IInv, NEW r \in Requests
  PROVE  /\ StepsLeft(r) \in Nat
         /\ StepsLeft(r) = 0 <=> pc[r] \in {"idle", "done"}
<1>1. attempt[r] \in Nat /\ RetryCount \in Nat /\ attempt[r] <= RetryCount
  BY ConfigAssumption DEF IInv, TypeOK, Attempts
<1>2. CASE pc[r] = "fired"
  BY <1>1, <1>2 DEF StepsLeft
<1>3. CASE pc[r] = "pause"
  <2>1. attempt[r] < RetryCount
    BY <1>1, <1>3, RetryBound DEF IInv, CallsOK
  <2> QED
    BY <1>1, <1>3, <2>1 DEF StepsLeft
<1>4. CASE pc[r] \in {"idle", "done"}
  BY <1>4 DEF StepsLeft
<1> QED
  BY <1>2, <1>3, <1>4 DEF IInv, TypeOK

(* The catch takes an attempt that is waited for to its pause, or to the end. *)
LEMMA CatchDescends ==
  ASSUME IInv, NEW r \in Requests, NEW err \in Errors, Caught(r, err), pc[r] = "fired",
         attempt' = attempt
  PROVE  StepsLeft(r)' < StepsLeft(r)
<1>1. pc'[r] = "pause" \/ pc'[r] = "done"
  BY CatchEffect DEF IInv
<1>2. attempt[r] \in Nat /\ RetryCount \in Nat /\ attempt[r] <= RetryCount
  BY ConfigAssumption DEF IInv, TypeOK, Attempts
<1>3. StepsLeft(r) = 2 * (RetryCount - attempt[r]) + 1
  BY DEF StepsLeft
<1>4. CASE pc'[r] = "pause"
  <2>1. StepsLeft(r)' = 2 * (RetryCount - attempt[r])
    BY <1>4 DEF StepsLeft
  <2> QED
    BY <1>2, <1>3, <2>1
<1>5. CASE pc'[r] = "done"
  <2>1. StepsLeft(r)' = 0
    BY <1>5 DEF StepsLeft
  <2> QED
    BY <1>2, <1>3, <2>1
<1> QED
  BY <1>1, <1>4, <1>5

(* A pause ends with the next attempt, or with a refusal by the breaker. *)
LEMMA RetryDescends ==
  ASSUME IInv, NEW r \in Requests, Retry(r)
  PROVE  StepsLeft(r)' < StepsLeft(r)
<1>1. /\ attempt[r] \in Nat /\ RetryCount \in Nat /\ attempt[r] < RetryCount
      /\ pc[r] = "pause" /\ Fire(r, attempt[r] + 1)
  <2>1. attempt[r] \in Nat /\ RetryCount \in Nat /\ pc[r] = "pause" /\ Fire(r, attempt[r] + 1)
    BY ConfigAssumption DEF IInv, TypeOK, Attempts, Retry
  <2> QED
    BY <2>1, RetryBound DEF IInv, CallsOK
<1>2. attempt'[r] = attempt[r] + 1
  BY <1>1 DEF Fire, IInv, TypeOK
<1>3. StepsLeft(r) = 2 * (RetryCount - attempt[r])
  BY <1>1 DEF StepsLeft
<1>4. pc'[r] = "done" \/ pc'[r] = "fired"
  <2>1. \A err \in {"open", "system-overload"} : Caught(r, err) => pc'[r] = "done"
    BY CatchEffect DEF IInv, Errors
  <2> QED
    BY <1>1, <2>1 DEF Fire, IInv, TypeOK
<1>5. CASE pc'[r] = "done"
  <2>1. StepsLeft(r)' = 0
    BY <1>5 DEF StepsLeft
  <2> QED
    BY <1>1, <1>3, <2>1
<1>6. CASE pc'[r] = "fired"
  <2>1. StepsLeft(r)' = 2 * (RetryCount - (attempt[r] + 1)) + 1
    BY <1>2, <1>6 DEF StepsLeft
  <2> QED
    BY <1>1, <1>3, <2>1
<1> QED
  BY <1>4, <1>5, <1>6

(* The breaker's timeout never leaves the attempt it gives up waited for. *)
LEMMA TimeoutDescends ==
  ASSUME IInv, NEW r \in Requests, Timeout(r)
  PROVE  StepsLeft(r)' < StepsLeft(r)
<1>1. "timeout" \in Errors
  BY DEF Errors
<1> QED
  BY <1>1, CatchDescends DEF Timeout

(***************************************************************************)
(* No handler retries without end: each step leaves a request where its    *)
(* handler is or brings it closer to done, and both timers do the latter.  *)
(***************************************************************************)
THEOREM AttemptsDescendHolds == Spec => AttemptsDescend
<1> DEFINE Stays(r) == pc'[r] = pc[r] /\ attempt'[r] = attempt[r]
           Closer(r) == StepsLeft(r)' < StepsLeft(r)
           Descends(r) == /\ pc[r] \in {"fired", "pause"} => Stays(r) \/ Closer(r)
                          /\ Retry(r) \/ Timeout(r) => Closer(r)
<1>1. ASSUME IInv, [Next]_vars, NEW r \in Requests, pc[r] \in {"fired", "pause"}
      PROVE  Stays(r) \/ Closer(r)
  <2>1. ASSUME NEW q \in Requests \ {r}, NEW err \in Errors, Caught(q, err), attempt'[r] = attempt[r]
        PROVE  Stays(r)
    BY <1>1, <2>1, CatchEffect DEF IInv
  <2>2. ASSUME NEW q \in Requests \ {r}, NEW k, Fire(q, k) PROVE Stays(r)
    <3>1. attempt'[r] = attempt[r]
      BY <1>1, <2>2 DEF Fire, IInv, TypeOK
    <3>2. CASE \E err \in {"open", "system-overload"} : Caught(q, err)
      BY <2>1, <3>1, <3>2 DEF Errors
    <3>3. CASE pc' = [pc EXCEPT ![q] = "fired"]
      BY <1>1, <3>1, <3>3 DEF IInv, TypeOK
    <3> QED
      BY <2>2, <3>2, <3>3 DEF Fire
  <2>3. ASSUME NEW q \in Requests, Arrive(q) PROVE Stays(r)
    BY <1>1, <2>2, <2>3 DEF Arrive
  <2>4. ASSUME NEW q \in Requests, Retry(q) PROVE Stays(r) \/ Closer(r)
    BY <1>1, <2>2, <2>4, RetryDescends DEF Retry
  <2>5. ASSUME NEW q \in Requests, Timeout(q) PROVE Stays(r) \/ Closer(r)
    <3>1. CASE q = r
      BY <1>1, <2>5, <3>1, TimeoutDescends
    <3>2. CASE q # r
      <4>1. Caught(q, "timeout") /\ attempt'[r] = attempt[r] /\ "timeout" \in Errors
        BY <2>5 DEF Timeout, Errors
      <4> QED
        BY <2>1, <3>2, <4>1
    <3> QED
      BY <3>1, <3>2
  <2>6. ASSUME NEW q \in Requests, NEW k \in Attempts, Answers(q, k) PROVE Stays(r)
    BY <2>6 DEF Answers
  <2>7. ASSUME NEW q \in Requests, NEW k \in Attempts, Ends(q, k) PROVE Stays(r) \/ Closer(r)
    <3>1. CASE pc[q] # "fired" \/ q # r
      BY <1>1, <2>7, <3>1 DEF Ends, IInv, TypeOK
    <3>2. CASE pc[q] = "fired" /\ q = r
      <4>1. pc'[r] = "done"
        BY <1>1, <2>7, <3>2 DEF Ends, IInv, TypeOK
      <4>2. StepsLeft(r)' = 0
        BY <4>1 DEF StepsLeft
      <4>3. StepsLeft(r) \in Nat /\ StepsLeft(r) # 0
        BY <1>1, StepsCounted
      <4> QED
        BY <4>2, <4>3
    <3> QED
      BY <3>1, <3>2
  <2>8. ASSUME NEW q \in Requests, NEW k \in Attempts, Fails(q, k) PROVE Stays(r) \/ Closer(r)
    <3>1. attempt' = attempt
      BY <2>8 DEF Fails
    <3>2. CASE UNCHANGED pc
      BY <3>1, <3>2
    <3>3. ASSUME NEW err \in Errors, Caught(q, err), pc[q] = "fired" PROVE Stays(r) \/ Closer(r)
      <4>1. CASE q = r
        BY <1>1, <3>1, <3>3, <4>1, CatchDescends
      <4>2. CASE q # r
        BY <2>1, <3>1, <3>3, <4>2
      <4> QED
        BY <4>1, <4>2
    <3> QED
      BY <2>8, <3>2, <3>3 DEF Fails, Errors
  <2>9. ASSUME NEW q \in Requests, Recycle(q) PROVE Stays(r)
    BY <1>1, <2>9 DEF Recycle, IInv, TypeOK
  <2>10. CASE BreakerReset \/ UNCHANGED vars
    BY <2>10 DEF BreakerReset, vars
  <2> QED
    BY <1>1, <2>3, <2>4, <2>5, <2>6, <2>7, <2>8, <2>9, <2>10 DEF Next, Downstream
<1>2. IInv /\ [Next]_vars => [\A r \in Requests : Descends(r)]_vars
  BY <1>1, RetryDescends, TimeoutDescends
<1> QED
  BY <1>2, Invariance, PTL DEF Spec, AttemptsDescend
=============================================================================
