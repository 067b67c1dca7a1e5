--------------------------- MODULE ResilientProxy ---------------------------
(***************************************************************************)
(* The gateway's proxy to one downstream service (createResilientProxy in  *)
(* middlewares/resilience.ts, createServiceProxy in routes/proxy.ts): each *)
(* attempt runs inside a circuit breaker with a timeout and a bulkhead,    *)
(* idempotent requests are retried after a pause, and what still fails is  *)
(* answered by the gateway.                                                *)
(*                                                                         *)
(* The breaker gives an attempt up at its timeout but does not stop it:    *)
(* the downstream call goes on and may answer or fail later, while a retry *)
(* of the same request is under way.  All attempts of a request share one  *)
(* response object and one res.locals.  The breaker (opossum) and the      *)
(* proxy library are external and modelled by what resilience.ts and       *)
(* proxy.ts expect of them; the breaker's statistics are a choice.         *)
(***************************************************************************)
EXTENDS Naturals, FiniteSets

CONSTANTS
  Requests,     \* bound: requests in the gateway at the same time
  Idempotent,   \* those whose method is GET, HEAD or OPTIONS
  RetryCount,   \* config.RETRY_COUNT
  Capacity      \* config.CB_MAX_CONCURRENT_REQUESTS

ASSUME ConfigAssumption ==
  /\ Idempotent \subseteq Requests
  /\ RetryCount \in Nat
  /\ Capacity \in Nat

VARIABLES
  breaker,      \* state of the circuit breaker
  pc,           \* where a request's executeWithRetry is
  attempt,      \* its loop variable
  call,         \* its downstream calls, one per attempt
  answer,       \* its response: whose headers were sent
  ended         \* its response was ended: the 'finish' event has been emitted

vars == <<breaker, pc, attempt, call, answer, ended>>

-----------------------------------------------------------------------------
Attempts == 0..RetryCount
Degraded == {"429", "502", "503", "504"}
Errors   == {"open", "system-overload", "ECONNREFUSED", "timeout", "other"}

TypeOK ==
  /\ breaker \in {"closed", "open", "halfOpen", "probing"}
  /\ pc \in [Requests -> {"idle", "fired", "pause", "done"}]
  /\ attempt \in [Requests -> Attempts]
  /\ call \in [Requests -> [Attempts -> {"none", "pending", "piping", "ended", "dropped", "failed"}]]
  /\ answer \in [Requests -> {"none", "downstream"} \cup Degraded]
  /\ ended \in [Requests -> BOOLEAN]

NoCalls == [k \in Attempts |-> "none"]

Init ==
  /\ breaker = "closed"
  /\ pc = [r \in Requests |-> "idle"]
  /\ attempt = [r \in Requests |-> 0]
  /\ call = [r \in Requests |-> NoCalls]
  /\ answer = [r \in Requests |-> "none"]
  /\ ended = [r \in Requests |-> FALSE]

HeadersSent(r) == answer[r] # "none"
MaxRetries(r) == IF r \in Idempotent THEN RetryCount ELSE 0

-----------------------------------------------------------------------------
(* The breaker                                                             *)

Refuses  == breaker \in {"open", "probing"}
BulkheadFull == Cardinality({r \in Requests : pc[r] = "fired"}) >= Capacity

(* A failure opens a half-open breaker, and a closed one when enough of them failed. *)
BreakerFailure ==
  \/ breaker = "closed" /\ breaker' \in {"closed", "open"}
  \/ breaker # "closed" /\ breaker' = "open"

BreakerSuccess == breaker' = IF breaker = "open" THEN "open" ELSE "closed"

(* config.CB_RESET_TIMEOUT_MS after it opened. *)
BreakerReset ==
  /\ breaker = "open"
  /\ breaker' = "halfOpen"
  /\ UNCHANGED <<pc, attempt, call, answer, ended>>

-----------------------------------------------------------------------------
(* What becomes of an error: executeWithRetry's catch and the wrapper's    *)

StatusOf(err) ==
  CASE err \in {"open", "ECONNREFUSED"} -> "503"
    [] err = "timeout" -> "504"
    [] err = "system-overload" -> "429"
    [] err = "other" -> "502"

(* Mutants: headers already sent are not looked at; an unknown error is not answered. *)
DegradeAlways(r, err) ==
  /\ answer' = [answer EXCEPT ![r] = StatusOf(err)]
  /\ ended' = [ended EXCEPT ![r] = TRUE]

DegradeKnown(r, err) ==
  \/ /\ ~HeadersSent(r) /\ err # "other"
     /\ answer' = [answer EXCEPT ![r] = StatusOf(err)]
     /\ ended' = [ended EXCEPT ![r] = TRUE]
  \/ HeadersSent(r) /\ UNCHANGED <<answer, ended>>
  \/ err = "other" /\ UNCHANGED <<answer, ended>>

(* Graceful degradation, unless an attempt has begun to answer. *)
Degrade(r, err) ==
  \/ /\ ~HeadersSent(r)
     /\ answer' = [answer EXCEPT ![r] = StatusOf(err)]
     /\ ended' = [ended EXCEPT ![r] = TRUE]
  \/ HeadersSent(r) /\ UNCHANGED <<answer, ended>>

(* Mutants: every method is retried; one retry too many. *)
RetriesAll(r, err) ==
  /\ err \notin {"open", "system-overload"}
  /\ attempt[r] < RetryCount
  /\ ~HeadersSent(r)

RetriesOneMore(r, err) ==
  /\ err \notin {"open", "system-overload"}
  /\ attempt[r] <= MaxRetries(r)
  /\ ~HeadersSent(r)

(* Neither a refusal by the breaker, nor the last attempt, nor a begun answer is retried. *)
RetriesLeft(r, err) ==
  /\ err \notin {"open", "system-overload"}
  /\ attempt[r] < MaxRetries(r)
  /\ ~HeadersSent(r)

Caught(r, err) ==
  \/ /\ RetriesLeft(r, err)
     /\ pc' = [pc EXCEPT ![r] = "pause"]
     /\ UNCHANGED <<answer, ended>>
  \/ /\ ~RetriesLeft(r, err)
     /\ Degrade(r, err)
     /\ pc' = [pc EXCEPT ![r] = "done"]

-----------------------------------------------------------------------------
(* One attempt                                                             *)

(* Mutant: the request is proxied before the bulkhead is asked. *)
FireEarly(r, k) ==
  /\ attempt' = [attempt EXCEPT ![r] = k]
  /\ \/ /\ Refuses
        /\ Caught(r, "open")
        /\ UNCHANGED <<breaker, call>>
     \/ /\ ~Refuses
        /\ call' = [call EXCEPT ![r][k] = "pending"]
        /\ \/ BulkheadFull /\ BreakerFailure /\ Caught(r, "system-overload")
           \/ /\ ~BulkheadFull
              /\ breaker' = IF breaker = "halfOpen" THEN "probing" ELSE breaker
              /\ pc' = [pc EXCEPT ![r] = "fired"]
              /\ UNCHANGED <<answer, ended>>

(***************************************************************************)
(* breaker.fire for attempt k: refused by an open breaker or a full        *)
(* bulkhead, else executeProxy makes its own reject and resolve those of   *)
(* res.locals, listens for 'finish' and proxies the request.               *)
(***************************************************************************)
Fire(r, k) ==
  /\ attempt' = [attempt EXCEPT ![r] = k]
  /\ \/ /\ Refuses
        /\ Caught(r, "open")
        /\ UNCHANGED <<breaker, call>>
     \/ /\ ~Refuses /\ BulkheadFull
        /\ BreakerFailure
        /\ Caught(r, "system-overload")
        /\ UNCHANGED call
     \/ /\ ~Refuses /\ ~BulkheadFull
        /\ breaker' = IF breaker = "halfOpen" THEN "probing" ELSE breaker
        /\ pc' = [pc EXCEPT ![r] = "fired"]
        /\ call' = [call EXCEPT ![r][k] = "pending"]
        /\ UNCHANGED <<answer, ended>>

Arrive(r) ==
  /\ pc[r] = "idle"
  /\ Fire(r, 0)

(* Mutant: the loop's variable is not counted up. *)
RetryUncounted(r) ==
  /\ pc[r] = "pause"
  /\ Fire(r, attempt[r])

(* The pause is over.  Whether headers were sent was looked at before it. *)
Retry(r) ==
  /\ pc[r] = "pause"
  /\ Fire(r, attempt[r] + 1)

(* Mutant: an answer that has begun is waited for. *)
TimeoutBeforeAnswer(r) ==
  /\ pc[r] = "fired" /\ ~HeadersSent(r)
  /\ BreakerFailure
  /\ Caught(r, "timeout")
  /\ UNCHANGED <<attempt, call>>

(* The breaker's timeout for the attempt that is waited for; its call goes on. *)
Timeout(r) ==
  /\ pc[r] = "fired"
  /\ BreakerFailure
  /\ Caught(r, "timeout")
  /\ UNCHANGED <<attempt, call>>

-----------------------------------------------------------------------------
(* The downstream service, which answers any call at any time, or never    *)

(* The headers of an answer: they go to the client unless others were sent. *)
Answers(r, k) ==
  /\ call[r][k] = "pending"
  /\ \/ /\ ~HeadersSent(r)
        /\ answer' = [answer EXCEPT ![r] = "downstream"]
        /\ call' = [call EXCEPT ![r][k] = "piping"]
     \/ /\ HeadersSent(r)
        /\ call' = [call EXCEPT ![r][k] = "dropped"]
        /\ UNCHANGED answer
  /\ UNCHANGED <<breaker, pc, attempt, ended>>

(* 'finish' resolves the attempt that is waited for, whichever attempt was answered. *)
Ends(r, k) ==
  /\ call[r][k] = "piping"
  /\ call' = [call EXCEPT ![r][k] = "ended"]
  /\ ended' = [ended EXCEPT ![r] = TRUE]
  /\ \/ pc[r] = "fired" /\ BreakerSuccess /\ pc' = [pc EXCEPT ![r] = "done"]
     \/ pc[r] # "fired" /\ UNCHANGED <<breaker, pc>>
  /\ UNCHANGED <<attempt, answer>>

(* The error handler rejects the attempt that is waited for, whichever call failed. *)
Fails(r, k) ==
  /\ call[r][k] \in {"pending", "piping"}
  /\ call' = [call EXCEPT ![r][k] = "failed"]
  /\ \/ /\ pc[r] = "fired"
        /\ BreakerFailure
        /\ \E err \in {"ECONNREFUSED", "timeout", "other"} : Caught(r, err)
     \/ pc[r] # "fired" /\ UNCHANGED <<breaker, pc, answer, ended>>
  /\ UNCHANGED attempt

(* Bound: a slot serves its next request once nothing of the last one is under way. *)
Recycle(r) ==
  /\ pc[r] = "done"
  /\ \A k \in Attempts : call[r][k] \notin {"pending", "piping"}
  /\ pc' = [pc EXCEPT ![r] = "idle"]
  /\ attempt' = [attempt EXCEPT ![r] = 0]
  /\ call' = [call EXCEPT ![r] = NoCalls]
  /\ answer' = [answer EXCEPT ![r] = "none"]
  /\ ended' = [ended EXCEPT ![r] = FALSE]
  /\ UNCHANGED breaker

-----------------------------------------------------------------------------
Downstream(r) == \E k \in Attempts : Answers(r, k) \/ Ends(r, k) \/ Fails(r, k)

Next ==
  \/ \E r \in Requests : Arrive(r) \/ Retry(r) \/ Timeout(r) \/ Downstream(r) \/ Recycle(r)
  \/ BreakerReset

Spec == Init /\ [][Next]_vars

(* Timers fire.  Nothing is assumed of the downstream service. *)
FairSpec == Spec /\ \A r \in Requests : WF_vars(Retry(r)) /\ WF_vars(Timeout(r))

-----------------------------------------------------------------------------
(* Properties                                                              *)

(***************************************************************************)
(* A request that is not idempotent reaches the downstream service at most *)
(* once, however its attempt ends and however late it is answered.         *)
(***************************************************************************)
NonIdempotentOnce ==
  \A r \in Requests \ Idempotent : Cardinality({k \in Attempts : call[r][k] # "none"}) <= 1

(***************************************************************************)
(* A request that is not idempotent and is answered 429, 502 or 503 by the *)
(* gateway is over: it was refused before it was proxied, or its call      *)
(* failed, and nothing of it can still be answered.  Only 504 leaves open  *)
(* what became of it.                                                      *)
(***************************************************************************)
RefusedIsOver ==
  \A r \in Requests \ Idempotent :
    answer[r] \in {"429", "502", "503"} => \A k \in Attempts : call[r][k] \in {"none", "failed"}

(***************************************************************************)
(* When the handler of a request returns, the client's answer has begun:   *)
(* no path through retries, late answers and errors of other attempts ends *)
(* in silence.                                                             *)
(***************************************************************************)
DoneMeansAnswered == \A r \in Requests : pc[r] = "done" => HeadersSent(r)

(***************************************************************************)
(* An answer that has begun is never replaced, although a late downstream  *)
(* answer, the next attempt's and the gateway's own error compete for it.  *)
(***************************************************************************)
AnswerIsFinal ==
  [][\A r \in Requests :
       HeadersSent(r) /\ pc'[r] # "idle" => answer'[r] = answer[r] /\ (ended[r] => ended'[r])]_vars

(* The steps a handler can still take before it is done: two for each attempt left. *)
StepsLeft(r) ==
  CASE pc[r] = "fired" -> 2 * (RetryCount - attempt[r]) + 1
    [] pc[r] = "pause" -> 2 * (RetryCount - attempt[r])
    [] pc[r] \in {"idle", "done"} -> 0

(***************************************************************************)
(* No handler retries without end: whatever the breaker, the downstream    *)
(* service and late answers of earlier attempts do, a step either leaves a *)
(* request where its handler is or brings it closer to done, and the two   *)
(* timers always do the latter.                                            *)
(***************************************************************************)
AttemptsDescend ==
  [][\A r \in Requests :
       /\ pc[r] \in {"fired", "pause"} =>
            (pc'[r] = pc[r] /\ attempt'[r] = attempt[r]) \/ StepsLeft(r)' < StepsLeft(r)
       /\ Retry(r) \/ Timeout(r) => StepsLeft(r)' < StepsLeft(r)]_vars

(***************************************************************************)
(* Every request is done with in the end, and gives its place in the       *)
(* bulkhead back, even if the downstream service never answers, or answers *)
(* one attempt before the next one is fired.                               *)
(***************************************************************************)
HandlerEnds == \A r \in Requests : pc[r] = "fired" ~> pc[r] = "done"

-----------------------------------------------------------------------------
(* What the repository says and the code does not do                       *)

(***************************************************************************)
(* "If headers are already sent, we cannot safely retry": no call is made  *)
(* for a request whose answer has begun.  The code looks before its pause  *)
(* and not after it.                                                       *)
(***************************************************************************)
NoRetryAfterHeaders ==
  [][\A r \in Requests, k \in Attempts :
       call[r][k] = "none" /\ call'[r][k] = "pending" => ~HeadersSent(r)]_vars
=============================================================================
