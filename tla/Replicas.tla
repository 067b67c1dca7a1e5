------------------------------ MODULE Replicas ------------------------------
(***************************************************************************)
(* The processes of the identity service: they load the token keys when    *)
(* they start (KeyManager.ts), serve requests over kept-alive connections, *)
(* drain when they are told to stop (server.ts) and may die at any time,   *)
(* while the configuration they start from is changed under them.          *)
(*                                                                         *)
(* A request is answered by the edge (app.ts) or goes to a service, to a   *)
(* guard (requireAuth.ts) or to the rate limiter in Redis.  What services  *)
(* do to accounts and sessions is in AuthSessions and Accounts; here they  *)
(* verify and sign.  A token is known by the key it was signed with.  The  *)
(* operator who edits JWT_KEYS and JWT_ACTIVE_KEY_ID, and the consumers of *)
(* the JWKS document, are external.  No route uses the guards or the rate  *)
(* limiter yet: they are modelled as the handlers of routes that would.    *)
(***************************************************************************)
EXTENDS Permissions

CONSTANTS
  Processes,    \* replicas of the service
  NoProcess,    \* none of them
  Conns,        \* bound: connections open at the same time
  Kids,         \* key ids
  FirstKid,     \* the key the service was deployed with
  Payloads,     \* what tokens carry: roles and permissions
  Guards        \* the guards of routes

ASSUME DeploymentAssumption == FirstKid \in Kids /\ NoProcess \notin Processes

VARIABLES
  config,       \* JWT_ACTIVE_KEY_ID, the kids of JWT_KEYS, and those with a private key
  status,       \* where a process is in its life
  ring,         \* the keys a process holds: its KeyManager
  conn,         \* a connection: its process, where its request is, and the body it was given
  signed,       \* the kids of tokens that have not expired
  cached,       \* the kids of the JWKS document a consumer has cached, if any
  hasty,        \* history: keys made active before all knew them, or taken out in use
  audit,        \* connections whose last request has an AuthorizationDenied row
  forbidden,    \* connections whose last request was answered 403
  window,       \* the limiter's key in Redis: whether it is there and has a TTL
  abandoned     \* history: an EXPIRE for the key as it is now was not carried out

vars == <<config, status, ring, conn, signed, cached, hasty, audit, forbidden, window, abandoned>>
keyVars == <<config, ring, signed, cached, hasty>>
limitVars == <<window, abandoned>>

-----------------------------------------------------------------------------
Runs(p) == status[p] \in {"up", "draining", "closing"}
(* Its server has connections, which keep it from closing. *)
Listens(p) == status[p] \in {"up", "draining"}
At(c, p) == conn[c].pc # "none" /\ conn[c].at = p
Busy(c) == conn[c].pc \notin {"none", "idle"}

Ring == [active : Kids, known : SUBSET Kids]

(* What the service is told beside the fields of the route's schema, and by whom. *)
Told == {"ipAddress", "userAgent", "accessToken"}
Body == [Told -> {"absent", "client", "server", "header"}]

TypeOK ==
  /\ config \in [active : Kids, known : SUBSET Kids, private : SUBSET Kids]
  /\ status \in [Processes -> {"stopped", "failed", "up", "draining", "closing"}]
  /\ ring \in [Processes -> Ring]
  /\ conn \in [Conns -> [pc : {"none", "idle", "read", "service", "deny", "denied", "expire"},
                          at : Processes \cup {NoProcess}, body : Body]]
  /\ signed \subseteq Kids
  /\ cached \subseteq Kids
  /\ hasty \subseteq Kids
  /\ audit \subseteq Conns
  /\ forbidden \subseteq Conns
  /\ window \in {"absent", "expiring", "eternal"}
  /\ abandoned \in BOOLEAN
  /\ \A c \in Conns : IF conn[c].pc = "none" THEN conn[c].at = NoProcess
                      ELSE conn[c].at \in Processes /\ Listens(conn[c].at)

NoKeys == [active |-> FirstKid, known |-> {}]
NoBody == [t \in Told |-> "absent"]
Gone == [pc |-> "none", at |-> NoProcess, body |-> NoBody]

Init ==
  /\ config = [active |-> FirstKid, known |-> {FirstKid}, private |-> {FirstKid}]
  /\ status = [p \in Processes |-> "stopped"]
  /\ ring = [p \in Processes |-> NoKeys]
  /\ conn = [c \in Conns |-> Gone]
  /\ signed = {}
  /\ cached = {}
  /\ hasty = {}
  /\ audit = {}
  /\ forbidden = {}
  /\ window = "absent"
  /\ abandoned = FALSE

-----------------------------------------------------------------------------
(* Keys: KeyManager, JwtTokenService, JwksBuilder                          *)

(* The process exits at its start unless its active key is there and can sign. *)
ConfigLoads == config.active \in config.known /\ config.active \in config.private

Loaded == [active |-> config.active, known |-> config.known]

(* Mutant: a token is verified with the active key only. *)
VerifiesActive(p, k) == k = ring[p].active

(* A token is verified with the key it names. *)
Verifies(p, k) == k \in ring[p].known

Sign(p) == signed' = signed \cup {ring[p].active}

(* Built once, at the start, of every public key. *)
Jwks(p) == ring[p].known

(* The route answers from memory for as long as there are connections. *)
FetchJwks(p) ==
  /\ Listens(p)
  /\ cached' = Jwks(p)
  /\ UNCHANGED <<config, status, ring, conn, signed, hasty, audit, forbidden, limitVars>>

(* max-age: the consumer drops the document. *)
JwksStale ==
  /\ cached' = {}
  /\ UNCHANGED <<config, status, ring, conn, signed, hasty, audit, forbidden, limitVars>>

TokensExpire(k) ==
  /\ signed' = signed \ {k}
  /\ UNCHANGED <<config, status, ring, conn, cached, hasty, audit, forbidden, limitVars>>

(***************************************************************************)
(* The operator's roll-outs, in any order: nothing in the code keeps a key *)
(* from being made active, or taken out, too early, nor a key from being   *)
(* published without its private part.  hasty remembers the keys for which *)
(* the order was wrong the last time they were touched.                    *)
(***************************************************************************)
InUse(k) ==
  \/ k \in signed \/ k = config.active
  \/ \E p \in Processes : Runs(p) /\ ring[p].active = k

KnownEverywhere(k) ==
  /\ k \in config.known
  /\ \A p \in Processes : Runs(p) => k \in ring[p].known
  /\ cached # {} => k \in cached

Publish(k) ==
  /\ k \notin config.private
  /\ \E private \in {config.private, config.private \cup {k}} :
       config' = [config EXCEPT !.known = @ \cup {k}, !.private = private]
  /\ UNCHANGED hasty

Activate(k) ==
  /\ config' = [config EXCEPT !.active = k]
  /\ hasty' = IF KnownEverywhere(k) THEN hasty \ {k} ELSE hasty \cup {k}

Retire(k) ==
  /\ config' = [config EXCEPT !.known = @ \ {k}, !.private = @ \ {k}]
  /\ hasty' = IF InUse(k) THEN hasty \cup {k} ELSE hasty \ {k}

RollOut ==
  /\ \E k \in Kids : Publish(k) \/ Activate(k) \/ Retire(k)
  /\ UNCHANGED <<status, ring, conn, signed, cached, audit, forbidden, limitVars>>

-----------------------------------------------------------------------------
(* The life of a process                                                   *)

Start(p) ==
  /\ ~Runs(p) /\ ConfigLoads
  /\ status' = [status EXCEPT ![p] = "up"]
  /\ ring' = [ring EXCEPT ![p] = Loaded]
  /\ UNCHANGED <<config, conn, signed, cached, hasty, audit, forbidden, limitVars>>

(* Mutant: an ended process leaves its connections to the others. *)
EndsAlone(p, how) ==
  /\ status' = [status EXCEPT ![p] = how]
  /\ ring' = [ring EXCEPT ![p] = NoKeys]
  /\ UNCHANGED <<config, conn, signed, cached, hasty, audit, forbidden, limitVars>>

(* The process ends: its connections are cut, and an EXPIRE it owed is never sent. *)
Ends(p, how) ==
  /\ status' = [status EXCEPT ![p] = how]
  /\ ring' = [ring EXCEPT ![p] = NoKeys]
  /\ conn' = [c \in Conns |-> IF At(c, p) THEN Gone ELSE conn[c]]
  /\ audit' = audit \ {c \in Conns : At(c, p)}
  /\ forbidden' = forbidden \ {c \in Conns : At(c, p)}
  /\ abandoned' = (abandoned \/ (window = "eternal" /\ \E c \in Conns : At(c, p) /\ conn[c].pc = "expire"))
  /\ UNCHANGED <<config, signed, cached, hasty, window>>

Crash(p) == Runs(p) /\ Ends(p, "failed")

(* SIGTERM: no new connections, those that wait for a request are closed, the timer starts. *)
Signal(p) ==
  /\ status[p] = "up"
  /\ status' = [status EXCEPT ![p] = "draining"]
  /\ conn' = [c \in Conns |-> IF At(c, p) /\ ~Busy(c) THEN Gone ELSE conn[c]]
  /\ audit' = audit \ {c \in Conns : At(c, p) /\ ~Busy(c)}
  /\ forbidden' = forbidden \ {c \in Conns : At(c, p) /\ ~Busy(c)}
  /\ UNCHANGED <<keyVars, limitVars>>

(* Mutant: the database is disconnected without waiting for the server. *)
ClosedEarly(p) ==
  /\ status[p] = "draining"
  /\ status' = [status EXCEPT ![p] = "closing"]
  /\ UNCHANGED <<keyVars, conn, audit, forbidden, limitVars>>

(* The callback of server.close: every connection has ended; Prisma is disconnected. *)
Closed(p) ==
  /\ status[p] = "draining"
  /\ \A c \in Conns : ~At(c, p)
  /\ status' = [status EXCEPT ![p] = "closing"]
  /\ UNCHANGED <<keyVars, conn, audit, forbidden, limitVars>>

(* otelSdk.shutdown settles: exit 0, or exit 1 when it failed. *)
Exit(p) == status[p] = "closing" /\ \E how \in {"stopped", "failed"} : Ends(p, how)

(* The ten-second timer: exit 1. *)
ForceExit(p) == status[p] \in {"draining", "closing"} /\ Ends(p, "failed")

-----------------------------------------------------------------------------
(* Requests                                                                *)

Goto(c, step) == conn' = [conn EXCEPT ![c].pc = step]

(* The connection is kept for another request or closed. *)
Answer(c) ==
  \/ conn' = [conn EXCEPT ![c] = [pc |-> "idle", at |-> conn[c].at, body |-> NoBody]]
  \/ conn' = [conn EXCEPT ![c] = Gone]

Accept(c, p) ==
  /\ \/ conn[c].pc = "none" /\ status[p] = "up"
     \/ conn[c].pc = "idle" /\ conn[c].at = p
  /\ conn' = [conn EXCEPT ![c] = [pc |-> "read", at |-> p, body |-> NoBody]]
  /\ audit' = audit \ {c}
  /\ forbidden' = forbidden \ {c}
  /\ UNCHANGED <<keyVars, status, limitVars>>

(* The client or the keep-alive timeout. *)
Close(c) ==
  /\ conn[c].pc = "idle"
  /\ conn' = [conn EXCEPT ![c] = Gone]
  /\ audit' = audit \ {c}
  /\ forbidden' = forbidden \ {c}
  /\ UNCHANGED <<keyVars, status, limitVars>>

(* The chain of app.ts answers 400, 403, 405, 413 or 415, or a probe does. *)
EdgeAnswer(c) ==
  /\ conn[c].pc = "read"
  /\ Answer(c)
  /\ UNCHANGED <<keyVars, status, audit, forbidden, limitVars>>

(* Mutant: the schemas let unknown keys through. *)
UnknownKeysLoose == Told

(* What the schemas let through beside their fields: they are strict. *)
UnknownKeys == {}

Validates(extra) == extra \subseteq UnknownKeys

(* The address and the agent of the request itself; a logout is also given its bearer token. *)
ClientMeta(body) == [body EXCEPT !["ipAddress"] = "server", !["userAgent"] = "server"]
AuthToken(body) == [body EXCEPT !["accessToken"] = "header"]

(* A service begins, or the request is refused by its schema, for its header or its token. *)
Service(c) ==
  /\ conn[c].pc = "read"
  /\ \/ Answer(c)
     \/ \E extra \in SUBSET Told, route \in {"login", "refresh", "logout", "other"} :
          LET sent == [t \in Told |-> IF t \in extra THEN "client" ELSE "absent"]
              body == IF route = "logout" THEN AuthToken(ClientMeta(sent)) ELSE ClientMeta(sent)
          IN  /\ Validates(extra)
              /\ route = "refresh" => \E k \in signed : Verifies(conn[c].at, k)
              /\ conn' = [conn EXCEPT ![c].pc = "service", ![c].body = body]
  /\ UNCHANGED <<keyVars, status, audit, forbidden, limitVars>>

(* Its awaits are over: a login and a refresh sign tokens, a logout none; any may fail. *)
ServiceEnds(c) ==
  /\ conn[c].pc = "service"
  /\ Answer(c)
  /\ \/ conn[c].body["accessToken"] = "absent" /\ Sign(conn[c].at)
     \/ UNCHANGED signed
  /\ UNCHANGED <<config, ring, cached, hasty, status, audit, forbidden, limitVars>>

(* 401 without a token that verifies, the route's handler, or the denial of the guard. *)
Guard(c) ==
  /\ conn[c].pc = "read"
  /\ \/ Answer(c)
     \/ \E k \in signed, payload \in Payloads, guard \in Guards :
          /\ Verifies(conn[c].at, k)
          /\ \/ Permits(guard, payload) /\ Answer(c)
             \/ ~Permits(guard, payload) /\ Goto(c, "deny")
  /\ UNCHANGED <<keyVars, status, audit, forbidden, limitVars>>

(* Mutant: the dispatch of the denial is not awaited. *)
DispatchAndGoOn(c) ==
  /\ conn[c].pc = "deny"
  /\ Goto(c, "denied")
  /\ audit' = audit \cup {c} \/ UNCHANGED audit
  /\ UNCHANGED <<keyVars, status, forbidden, limitVars>>

(* Every event that is dispatched gets a row. *)
WriteRow(c) == audit' = audit \cup {c}

(* The dispatcher awaits the audit row; when that fails the catch answers 401. *)
Dispatch(c) ==
  /\ conn[c].pc = "deny"
  /\ \/ Goto(c, "denied") /\ WriteRow(c)
     \/ Answer(c) /\ UNCHANGED audit
  /\ UNCHANGED <<keyVars, status, forbidden, limitVars>>

Forbid(c) ==
  /\ conn[c].pc = "denied"
  /\ Answer(c)
  /\ IF conn'[c].pc = "idle" THEN forbidden' = forbidden \cup {c} /\ UNCHANGED audit
     ELSE audit' = audit \ {c} /\ UNCHANGED forbidden
  /\ UNCHANGED <<keyVars, status, limitVars>>

-----------------------------------------------------------------------------
(* The rate limiter                                                        *)

(* Mutant: only the answer for a missing key is looked for, which INCR has just made. *)
IncrementNoRepair(c) ==
  /\ conn[c].pc = "read"
  /\ Answer(c)
  /\ window' = (IF window = "expiring" THEN window ELSE "eternal")
  /\ UNCHANGED <<keyVars, status, audit, forbidden, abandoned>>

(***************************************************************************)
(* MULTI INCR TTL: a new key, and one whose TTL was never set, have none.  *)
(* The transaction may be carried out and its answer lost.                 *)
(***************************************************************************)
Increment(c) ==
  /\ conn[c].pc = "read"
  /\ \/ window = "expiring" /\ Answer(c) /\ UNCHANGED limitVars
     \/ window # "expiring" /\ window' = "eternal" /\ Goto(c, "expire") /\ UNCHANGED abandoned
     \/ window # "expiring" /\ window' = "eternal" /\ Answer(c) /\ abandoned' = TRUE
  /\ UNCHANGED <<keyVars, status, audit, forbidden>>

(* EXPIRE as a second call, which may fail. *)
SetExpiry(c) ==
  /\ conn[c].pc = "expire"
  /\ Answer(c)
  /\ \/ window' = (IF window = "absent" THEN "absent" ELSE "expiring") /\ abandoned' = FALSE
     \/ UNCHANGED window /\ abandoned' = (abandoned \/ window = "eternal")
  /\ UNCHANGED <<keyVars, status, audit, forbidden>>

ResetAttempts(c) ==
  /\ conn[c].pc = "read"
  /\ Answer(c)
  /\ window' = "absent" /\ abandoned' = FALSE
  /\ UNCHANGED <<keyVars, status, audit, forbidden>>

WindowEnds ==
  /\ window = "expiring"
  /\ window' = "absent"
  /\ UNCHANGED <<keyVars, status, conn, audit, forbidden, abandoned>>

-----------------------------------------------------------------------------
Serve(c) == ServiceEnds(c) \/ Dispatch(c) \/ Forbid(c) \/ SetExpiry(c)

Route(c) == EdgeAnswer(c) \/ Service(c) \/ Guard(c) \/ Increment(c) \/ ResetAttempts(c)

Next ==
  \/ \E p \in Processes :
       \/ Start(p) \/ Crash(p) \/ Signal(p) \/ Closed(p) \/ Exit(p) \/ ForceExit(p)
       \/ FetchJwks(p)
       \/ \E c \in Conns : Accept(c, p)
  \/ \E c \in Conns : Close(c) \/ Route(c) \/ Serve(c)
  \/ \E k \in Kids : TokensExpire(k)
  \/ JwksStale \/ RollOut \/ WindowEnds

Spec == Init /\ [][Next]_vars

-----------------------------------------------------------------------------
(* Properties                                                              *)

(***************************************************************************)
(* The order of the roll-out is all that it takes.  A token that has not   *)
(* expired is refused by a process that runs, or its key missing from a    *)
(* document that a consumer of the JWKS still holds, only if that key was  *)
(* made active before all of them knew it or taken out in use.  No restart,*)
(* crash, failed start or stale document does it, in whatever order.       *)
(***************************************************************************)
TokensVerify ==
  \A k \in signed \ hasty :
    /\ \A p \in Processes : Runs(p) => Verifies(p, k)
    /\ cached # {} => k \in cached

(***************************************************************************)
(* A process that shuts down in order gives up the database, and exits     *)
(* with 0, only when no connection is left: it cuts off no request that it *)
(* accepted, although clients go on using the connections they have.       *)
(***************************************************************************)
CleanExit ==
  [][\A p \in Processes :
       status'[p] # status[p] /\ status'[p] \in {"closing", "stopped"} => \A c \in Conns : ~At(c, p)]_vars

(***************************************************************************)
(* Whoever is told 403 by a guard has a row in the audit log, whatever     *)
(* fails between the decision and the answer.                              *)
(***************************************************************************)
ForbiddenIsAudited == forbidden \subseteq audit

(***************************************************************************)
(* Where a request came from, and the access token that its service uses,  *)
(* are never what the client put in its JSON: the audit log names the      *)
(* request's own address, and a logout blacklists the bearer's own token.  *)
(***************************************************************************)
ServedBody ==
  \A c \in Conns : conn[c].pc = "service" =>
    /\ conn[c].body["ipAddress"] = "server" /\ conn[c].body["userAgent"] = "server"
    /\ conn[c].body["accessToken"] # "client"

(***************************************************************************)
(* The limiter's key is without a TTL only while a request is about to set *)
(* it, or because an EXPIRE failed or its process died before it: two      *)
(* requests that overlap, with each other, with a reset or with the end of *)
(* the window, leave no key behind that never expires.                     *)
(***************************************************************************)
EternalOnlyByFailure ==
  window = "eternal" => abandoned \/ \E c \in Conns : conn[c].pc = "expire"
=============================================================================
