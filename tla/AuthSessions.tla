---------------------------- MODULE AuthSessions ----------------------------
(***************************************************************************)
(* Login, token refresh and logout of the identity service (LoginService,  *)
(* RefreshTokenService, LogoutService) over the tables they share.         *)
(*                                                                         *)
(* Every handler is an async function.  A request is a slot of Requests    *)
(* with a program counter; one action runs from one await to the next, so  *)
(* that requests, on one Node process or on several replicas, interleave   *)
(* at every query.  One query is atomic; nothing in the service opens a    *)
(* transaction around two of them.                                         *)
(*                                                                         *)
(* A refresh token is the signed JWT of one session and its hash is stored *)
(* in that session's row alone, so a token is written as its session's id; *)
(* so is the access token issued with it.  NoSession stands for a JWT that *)
(* verifies and is no session's refresh token (an access token), and for   *)
(* an access token that cannot be decoded.                                 *)
(***************************************************************************)
EXTENDS UserAccount, FiniteSets

CONSTANTS
  Users,        \* accounts of the users table
  Strangers,    \* e-mail addresses without an account
  SessionIds,   \* bound: the UUIDs a run may draw for sessions
  Requests,     \* bound: how many requests are served at the same time
  CanFail,      \* the request slots whose next await may fail
  MaxAge,       \* bound: how far tokens age, 2 when all of them may expire
  NoUser, NoSession

ASSUME DistinctAssumption ==
  /\ NoUser \notin Users \cup Strangers
  /\ NoSession \notin SessionIds
  /\ Users \cap Strangers = {}
  /\ CanFail \subseteq Requests
  /\ MaxAge \in 0..2

VARIABLES
  user,         \* users table: the lockout columns of each row
  session,      \* device_sessions table; `parent` is history the code does not store
  age,          \* 0: both tokens valid, 1: access token expired, 2: refresh token expired
  blacklist,    \* Redis bl:<jti>, named by the access token's session
  audit,        \* audit_events, with the session an event is about (a row stores only the user)
  held,         \* sessions whose tokens reached a client
  loggedOut,    \* sessions of the logouts answered with 200, and whether by access token
  req           \* the requests being served

vars == <<user, session, age, blacklist, audit, held, loggedOut, req>>

-----------------------------------------------------------------------------
(* Types                                                                   *)

LoginSteps   == {"login.find", "login.verify", "login.fail", "login.record",
                 "login.save", "login.dispatch"}
RefreshSteps == {"refresh.find", "refresh.user", "refresh.revoke", "refresh.save"}
LogoutSteps  == {"logout.blacklist", "logout.find", "logout.revoke", "logout.dispatch"}
Steps == LoginSteps \cup RefreshSteps \cup LogoutSteps \cup {"idle", "respond"}

SessionRow == [status : {"absent", "live", "revoked"},
               owner  : Users \cup {NoUser},
               parent : SessionIds \cup {NoSession}]

NoRow == [status |-> "absent", owner |-> NoUser, parent |-> NoSession]

(***************************************************************************)
(* A request's local variables: whom it logs in, the tokens it presented,  *)
(* its copy of the user row and the session it created.                    *)
(***************************************************************************)
Request == [pc   : Steps,
            who  : Users \cup Strangers \cup {NoUser},
            acc  : SessionIds \cup {NoSession},
            tok  : SessionIds \cup {NoSession},
            snap : UserRow,
            new  : SessionIds \cup {NoSession}]

Idle == [pc |-> "idle", who |-> NoUser, acc |-> NoSession, tok |-> NoSession,
         snap |-> NewUser, new |-> NoSession]

TypeOK ==
  /\ user \in [Users -> UserRow]
  /\ session \in [SessionIds -> SessionRow]
  /\ age \in [SessionIds -> 0..2]
  /\ blacklist \subseteq SessionIds
  /\ audit \subseteq {"UserLoggedIn", "TokenRevoked"} \X SessionIds
  /\ held \subseteq SessionIds
  /\ loggedOut \subseteq BOOLEAN \X (SessionIds \cup {NoSession})
  /\ req \in [Requests -> Request]

-----------------------------------------------------------------------------
(* State functions                                                         *)

Exists(s)   == session[s].status # "absent"
Revoked(s)  == session[s].status = "revoked"
IsLive(s)   == session[s].status = "live"
Live(u)     == {s \in SessionIds : IsLive(s) /\ session[s].owner = u}
Children(p) == {s \in SessionIds : Exists(s) /\ session[s].parent = p}

(* The session a logout is about: lines 38-47 of LogoutService. *)
LogoutTarget(a, t) == IF a # NoSession THEN a ELSE t

(* Bound: a request that may create a session starts only when an id is left for it. *)
MayMint == LoginSteps \cup RefreshSteps
RoomForSession ==
  Cardinality({s \in SessionIds : ~Exists(s)}) >
    Cardinality({r \in Requests : req[r].pc \in MayMint /\ req[r].new = NoSession})

Init ==
  /\ user = [u \in Users |-> NewUser]
  /\ session = [s \in SessionIds |-> NoRow]
  /\ age = [s \in SessionIds |-> 0]
  /\ blacklist = {}
  /\ audit = {}
  /\ held = {}
  /\ loggedOut = {}
  /\ req = [r \in Requests |-> Idle]

At(r, step)   == req[r].pc = step
Become(r, q)  == req' = [req EXCEPT ![r] = q]
Goto(r, step) == Become(r, [req[r] EXCEPT !.pc = step])
Finish(r)     == Become(r, Idle)

-----------------------------------------------------------------------------
(* PrismaUserRepository.update and PrismaDeviceSessionRepository.save      *)

(* update writes the whole row from the request's copy. *)
UpdateUser(r) == user' = [user EXCEPT ![req[r].who] = req[r].snap]

(* save of an entity the request has just revoked: the upsert's update arm. *)
SaveRevoked(s) == session' = [session EXCEPT ![s].status = "revoked"]

(* save of a new entity: the upsert's create arm. *)
SaveNew(s, u, p) ==
  session' = [session EXCEPT ![s] = [status |-> "live", owner |-> u, parent |-> p]]

-----------------------------------------------------------------------------
(* LoginService.execute                                                    *)

LoginBegin(r, e) ==
  /\ At(r, "idle")
  /\ e \in Users => RoomForSession
  /\ Become(r, [req[r] EXCEPT !.pc = "login.find", !.who = e])
  /\ UNCHANGED <<user, session, age, blacklist, audit, held, loggedOut>>

(* findByEmail: the copy of the row, or the dummy verification and 'Invalid credentials'. *)
LoginFind(r) ==
  /\ At(r, "login.find")
  /\ \/ /\ req[r].who \in Users
        /\ Become(r, [req[r] EXCEPT !.pc = "login.verify", !.snap = user[req[r].who]])
     \/ /\ req[r].who \notin Users
        /\ Finish(r)
  /\ UNCHANGED <<user, session, age, blacklist, audit, held, loggedOut>>

(* The copy is locked: the password is hashed all the same and refused. *)
LoginRefuseLocked(r) ==
  /\ At(r, "login.verify")
  /\ req[r].snap.locked
  /\ Finish(r)
  /\ UNCHANGED <<user, session, age, blacklist, audit, held, loggedOut>>

LoginWrongPassword(r) ==
  /\ At(r, "login.verify")
  /\ ~req[r].snap.locked
  /\ Become(r, [req[r] EXCEPT !.pc = "login.fail", !.snap = IncrementFailedAttempts(req[r].snap)])
  /\ UNCHANGED <<user, session, age, blacklist, audit, held, loggedOut>>

LoginRightPassword(r) ==
  /\ At(r, "login.verify")
  /\ ~req[r].snap.locked
  /\ Become(r, [req[r] EXCEPT !.pc = "login.record", !.snap = RecordLogin(req[r].snap)])
  /\ UNCHANGED <<user, session, age, blacklist, audit, held, loggedOut>>

(* The failure is stored; the UserLocked event it may hold is dropped with the copy. *)
LoginStoreFailure(r) ==
  /\ At(r, "login.fail")
  /\ UpdateUser(r)
  /\ Finish(r)
  /\ UNCHANGED <<session, age, blacklist, audit, held, loggedOut>>

(* The success is stored; the roles read next change nothing here. *)
LoginStoreSuccess(r) ==
  /\ At(r, "login.record")
  /\ UpdateUser(r)
  /\ Goto(r, "login.save")
  /\ UNCHANGED <<session, age, blacklist, audit, held, loggedOut>>

LoginSave(r) ==
  /\ At(r, "login.save")
  /\ \E s \in SessionIds :
       /\ ~Exists(s)
       /\ SaveNew(s, req[r].who, NoSession)
       /\ Become(r, [req[r] EXCEPT !.pc = "login.dispatch", !.new = s])
  /\ UNCHANGED <<user, age, blacklist, audit, held, loggedOut>>

(* Mutant: the events are never dispatched. *)
LoginDispatchLost(r) ==
  /\ At(r, "login.dispatch")
  /\ Goto(r, "respond")
  /\ UNCHANGED <<user, session, age, blacklist, audit, held, loggedOut>>

LoginDispatch(r) ==
  /\ At(r, "login.dispatch")
  /\ audit' = audit \cup {<<"UserLoggedIn", req[r].new>>}
  /\ Goto(r, "respond")
  /\ UNCHANGED <<user, session, age, blacklist, held, loggedOut>>

-----------------------------------------------------------------------------
(* RefreshTokenService.execute                                             *)

RefreshBegin(r, t) ==
  /\ At(r, "idle")
  /\ t # NoSession => RoomForSession /\ t \in held /\ age[t] < 2
  /\ Become(r, [req[r] EXCEPT !.pc = "refresh.find", !.tok = t])
  /\ UNCHANGED <<user, session, age, blacklist, audit, held, loggedOut>>

(* Mutant: the revoked flag of the row is not looked at. *)
RefreshFindAny(r) ==
  /\ At(r, "refresh.find")
  /\ req[r].tok # NoSession
  /\ age[req[r].tok] < 2
  /\ Become(r, [req[r] EXCEPT !.pc = "refresh.user", !.who = session[req[r].tok].owner])
  /\ UNCHANGED <<user, session, age, blacklist, audit, held, loggedOut>>

(***************************************************************************)
(* findByRefreshToken.  The row is found by the hash of the presented      *)
(* token, so its own hash and its id always match: the replay branch of    *)
(* lines 41-50 and the mismatch of lines 56-58 cannot be taken and are no  *)
(* actions here.                                                           *)
(***************************************************************************)
RefreshFind(r) ==
  /\ At(r, "refresh.find")
  /\ req[r].tok # NoSession
  /\ IsLive(req[r].tok)
  /\ age[req[r].tok] < 2
  /\ Become(r, [req[r] EXCEPT !.pc = "refresh.user", !.who = session[req[r].tok].owner])
  /\ UNCHANGED <<user, session, age, blacklist, audit, held, loggedOut>>

(* 'Session not found' and 'Session expired'. *)
RefreshReject(r) ==
  /\ At(r, "refresh.find")
  /\ req[r].tok # NoSession => ~Exists(req[r].tok) \/ (IsLive(req[r].tok) /\ age[req[r].tok] = 2)
  /\ Finish(r)
  /\ UNCHANGED <<user, session, age, blacklist, audit, held, loggedOut>>

(* 'Session is revoked': all that a replayed token meets. *)
RefreshRejectRevoked(r) ==
  /\ At(r, "refresh.find")
  /\ req[r].tok # NoSession /\ Revoked(req[r].tok)
  /\ Finish(r)
  /\ UNCHANGED <<user, session, age, blacklist, audit, held, loggedOut>>

(* Mutant: a locked user may refresh. *)
RefreshAnyUser(r) ==
  /\ At(r, "refresh.user")
  /\ Goto(r, "refresh.revoke")
  /\ UNCHANGED <<user, session, age, blacklist, audit, held, loggedOut>>

RefreshCheckUser(r) ==
  /\ At(r, "refresh.user")
  /\ IF user[req[r].who].locked THEN Finish(r) ELSE Goto(r, "refresh.revoke")
  /\ UNCHANGED <<user, session, age, blacklist, audit, held, loggedOut>>

(* Mutants: the old row is left alone, or written back as it was read. *)
RefreshKeepsOld(r) ==
  /\ At(r, "refresh.revoke")
  /\ Goto(r, "refresh.save")
  /\ UNCHANGED <<user, session, age, blacklist, audit, held, loggedOut>>

RefreshWritesStale(r) ==
  /\ At(r, "refresh.revoke")
  /\ session' = [session EXCEPT ![req[r].tok].status = "live"]
  /\ Goto(r, "refresh.save")
  /\ UNCHANGED <<user, age, blacklist, audit, held, loggedOut>>

(* The copy read at refresh.find was not revoked, so revoke() succeeds on it. *)
RefreshRevoke(r) ==
  /\ At(r, "refresh.revoke")
  /\ SaveRevoked(req[r].tok)
  /\ Goto(r, "refresh.save")
  /\ UNCHANGED <<user, age, blacklist, audit, held, loggedOut>>

(* The successor is saved; it holds no event, so nothing is dispatched. *)
RefreshSave(r) ==
  /\ At(r, "refresh.save")
  /\ \E s \in SessionIds :
       /\ ~Exists(s)
       /\ SaveNew(s, req[r].who, req[r].tok)
       /\ Become(r, [req[r] EXCEPT !.pc = "respond", !.new = s])
  /\ UNCHANGED <<user, age, blacklist, audit, held, loggedOut>>

(* Mutant: the answer carries the refresh token that was presented. *)
RespondOldToken(r) ==
  /\ At(r, "respond")
  /\ held' = held \cup {IF req[r].tok = NoSession THEN req[r].new ELSE req[r].tok}
  /\ Finish(r)
  /\ UNCHANGED <<user, session, age, blacklist, audit, loggedOut>>

(* The tokens of a login or a refresh reach the client. *)
Respond(r) ==
  /\ At(r, "respond")
  /\ held' = held \cup {req[r].new}
  /\ Finish(r)
  /\ UNCHANGED <<user, session, age, blacklist, audit, loggedOut>>

-----------------------------------------------------------------------------
(* LogoutService.execute                                                   *)

(***************************************************************************)
(* The access token is decoded, not verified, so a client may log out with *)
(* any pair of tokens it holds, expired or not; a live access token is     *)
(* blacklisted for what remains of its life.                               *)
(***************************************************************************)
LogoutBegin(r, a, t) ==
  /\ At(r, "idle")
  /\ LogoutTarget(a, t) # NoSession
  /\ {a, t} \subseteq held \cup {NoSession}
  /\ Become(r, [req[r] EXCEPT !.acc = a, !.tok = t,
                              !.pc = IF a # NoSession /\ age[a] = 0
                                     THEN "logout.blacklist" ELSE "logout.find"])
  /\ UNCHANGED <<user, session, age, blacklist, audit, held, loggedOut>>

LogoutBlacklist(r) ==
  /\ At(r, "logout.blacklist")
  /\ blacklist' = blacklist \cup {req[r].acc}
  /\ Goto(r, "logout.find")
  /\ UNCHANGED <<user, session, age, audit, held, loggedOut>>

Answer200(r) ==
  /\ loggedOut' = loggedOut \cup
       {<<req[r].acc # NoSession, LogoutTarget(req[r].acc, req[r].tok)>>}
  /\ Finish(r)

(* Mutant: TokenRevoked is dispatched in place of the save. *)
LogoutSkipsSave(r) ==
  /\ At(r, "logout.find")
  /\ LET s == LogoutTarget(req[r].acc, req[r].tok) IN
       \/ ~IsLive(s) /\ Answer200(r)
       \/ IsLive(s) /\ s = req[r].tok /\ Goto(r, "logout.dispatch") /\ UNCHANGED loggedOut
       \/ IsLive(s) /\ s # req[r].tok /\ Finish(r) /\ UNCHANGED loggedOut
  /\ UNCHANGED <<user, session, age, blacklist, audit, held>>

(***************************************************************************)
(* findById: success when there is no session or it is revoked already;    *)
(* 'Invalid refresh token for session' when the refresh token is another   *)
(* session's.                                                              *)
(***************************************************************************)
LogoutFind(r) ==
  /\ At(r, "logout.find")
  /\ LET s == LogoutTarget(req[r].acc, req[r].tok) IN
       \/ ~IsLive(s) /\ Answer200(r)
       \/ IsLive(s) /\ s = req[r].tok /\ Goto(r, "logout.revoke") /\ UNCHANGED loggedOut
       \/ IsLive(s) /\ s # req[r].tok /\ Finish(r) /\ UNCHANGED loggedOut
  /\ UNCHANGED <<user, session, age, blacklist, audit, held>>

LogoutRevoke(r) ==
  /\ At(r, "logout.revoke")
  /\ SaveRevoked(req[r].tok)
  /\ Goto(r, "logout.dispatch")
  /\ UNCHANGED <<user, age, blacklist, audit, held, loggedOut>>

LogoutDispatch(r) ==
  /\ At(r, "logout.dispatch")
  /\ audit' = audit \cup {<<"TokenRevoked", req[r].tok>>}
  /\ Answer200(r)
  /\ UNCHANGED <<user, session, age, blacklist, held>>

-----------------------------------------------------------------------------
(* Failure and time                                                        *)

(***************************************************************************)
(* The awaited call of a request throws, its process dies or its answer is *)
(* lost: whatever the request had saved stays saved.                       *)
(***************************************************************************)
Fail(r) ==
  /\ r \in CanFail
  /\ ~At(r, "idle")
  /\ Finish(r)
  /\ UNCHANGED <<user, session, age, blacklist, audit, held, loggedOut>>

(* Mutant: ages past the last one. *)
ExpireTwice(s) ==
  /\ s \in held /\ age[s] < 3
  /\ age' = [age EXCEPT ![s] = age[s] + 1]
  /\ UNCHANGED <<user, session, blacklist, audit, held, loggedOut, req>>

(***************************************************************************)
(* The access token of s expires, then its refresh token, with its row.    *)
(* Tokens that no client holds are not presented, and their age not kept.  *)
(***************************************************************************)
Expire(s) ==
  /\ s \in held /\ age[s] < MaxAge
  /\ age' = [age EXCEPT ![s] = age[s] + 1]
  /\ UNCHANGED <<user, session, blacklist, audit, held, loggedOut, req>>

(* Redis drops a blacklist entry, never before the token it names is expired. *)
BlacklistTtl(s) ==
  /\ s \in blacklist /\ age[s] > 0
  /\ blacklist' = blacklist \ {s}
  /\ UNCHANGED <<user, session, age, audit, held, loggedOut, req>>

-----------------------------------------------------------------------------
Arrive(r) ==
  \/ \E e \in Users \cup Strangers : LoginBegin(r, e)
  \/ \E t \in SessionIds \cup {NoSession} : RefreshBegin(r, t)
  \/ \E a, t \in SessionIds \cup {NoSession} : LogoutBegin(r, a, t)

LoginStep(r) ==
  \/ LoginFind(r) \/ LoginRefuseLocked(r) \/ LoginWrongPassword(r) \/ LoginRightPassword(r)
  \/ LoginStoreFailure(r) \/ LoginStoreSuccess(r) \/ LoginSave(r) \/ LoginDispatch(r)

RefreshStep(r) ==
  \/ RefreshFind(r) \/ RefreshReject(r) \/ RefreshRejectRevoked(r) \/ RefreshCheckUser(r)
  \/ RefreshRevoke(r) \/ RefreshSave(r)

LogoutStep(r) ==
  \/ LogoutBlacklist(r) \/ LogoutFind(r) \/ LogoutRevoke(r) \/ LogoutDispatch(r)

Proceed(r) == LoginStep(r) \/ RefreshStep(r) \/ LogoutStep(r) \/ Respond(r)

Next ==
  \/ \E r \in Requests : Arrive(r) \/ Proceed(r) \/ Fail(r)
  \/ \E s \in SessionIds : Expire(s) \/ BlacklistTtl(s)

Spec == Init /\ [][Next]_vars

(***************************************************************************)
(* Node runs every continuation whose promise settled, and the database,   *)
(* Redis and Argon2 settle theirs: a started request goes on.              *)
(***************************************************************************)
FairSpec == Spec /\ \A r \in Requests : WF_vars(Proceed(r))

-----------------------------------------------------------------------------
(* Safety                                                                  *)

(***************************************************************************)
(* The lock and the counter of a row never disagree, although every login  *)
(* writes both from a copy that may be stale: a lost update loses failures *)
(* but cannot leave an account locked below the threshold, which nothing   *)
(* would ever unlock, nor unlocked at it.                                  *)
(***************************************************************************)
LockAgreement == \A u \in Users : LockAgrees(user[u])

(***************************************************************************)
(* A session made by a refresh continues a session of the same user that   *)
(* is revoked already: at no await of a refresh, nor when it dies between  *)
(* its two saves, are the old and the new token usable together.           *)
(***************************************************************************)
ChainRevoked ==
  \A s \in SessionIds :
    Exists(s) /\ session[s].parent # NoSession =>
      /\ Revoked(session[s].parent)
      /\ session[s].owner = session[session[s].parent].owner

(***************************************************************************)
(* A client holds tokens only of a stored session, and those of a login    *)
(* only after the login is in the audit log.                               *)
(***************************************************************************)
HeldBacked ==
  \A s \in held :
    /\ Exists(s)
    /\ session[s].parent = NoSession => <<"UserLoggedIn", s>> \in audit

(***************************************************************************)
(* The audit log tells nothing that is not so: a session it reports as     *)
(* revoked is revoked, and a login it reports opened a session.            *)
(***************************************************************************)
AuditTruthful ==
  \A s \in SessionIds :
    /\ <<"TokenRevoked", s>> \in audit => Revoked(s)
    /\ <<"UserLoggedIn", s>> \in audit => Exists(s) /\ session[s].parent = NoSession

(***************************************************************************)
(* A logout that was answered with 200 holds from then on, whatever was in *)
(* flight: its session stays revoked, and its access token blacklisted     *)
(* until it has expired.                                                   *)
(***************************************************************************)
LogoutHolds ==
  \A p \in loggedOut :
    /\ Revoked(p[2])
    /\ p[1] /\ age[p[2]] = 0 => p[2] \in blacklist

(***************************************************************************)
(* An account is frozen when it is locked and no request is past the check *)
(* of the lock.  From then on it stays locked and gets no new session, by  *)
(* login or by refresh: only requests already past their check can undo or *)
(* outrun a lock.                                                          *)
(***************************************************************************)
PastLoginCheck(r) ==
  \/ At(r, "login.verify") /\ ~req[r].snap.locked
  \/ req[r].pc \in {"login.fail", "login.record", "login.save"}
PastRefreshCheck(r) == req[r].pc \in {"refresh.revoke", "refresh.save"}

Frozen(u) ==
  /\ user[u].locked
  /\ \A r \in Requests : PastLoginCheck(r) \/ PastRefreshCheck(r) => req[r].who # u

LockFreezes ==
  [][\A u \in Users : Frozen(u) => Frozen(u)' /\ Live(u)' \subseteq Live(u)]_vars

(***************************************************************************)
(* A refresh token is spent when its session is revoked and no refresh has *)
(* read the session before.  A spent token stays spent and yields no       *)
(* further session: rotation is single-use but for refreshes that overlap. *)
(***************************************************************************)
ReadAsLive(r, p) ==
  /\ req[r].pc \in {"refresh.user", "refresh.revoke", "refresh.save"}
  /\ req[r].tok = p

Spent(p) == Revoked(p) /\ \A r \in Requests : ~ReadAsLive(r, p)

SpentMintsNothing ==
  [][\A p \in SessionIds : Spent(p) => Spent(p)' /\ Children(p)' = Children(p)]_vars

(***************************************************************************)
(* The handlers implement the session table's contract.                    *)
(***************************************************************************)
Registry == INSTANCE SessionRegistry WITH
              Users <- Users, SessionIds <- SessionIds, NoUser <- NoUser,
              NoSession <- NoSession, session <- session

ImplementsRegistry == Registry!Spec

-----------------------------------------------------------------------------
(* Liveness                                                                *)

(***************************************************************************)
(* Unless its own request fails, a refresh that consumed a token hands its *)
(* successor to the client, whatever the other requests do or fail to do.  *)
(***************************************************************************)
SuccessorReachesClient ==
  \A r \in Requests \ CanFail, p \in SessionIds :
    (At(r, "refresh.save") /\ req[r].tok = p) ~> (\E s \in Children(p) : s \in held)

(***************************************************************************)
(* Unless its own request fails, a logout with the two tokens of a session *)
(* ends with that session revoked, also when other requests use it.        *)
(***************************************************************************)
LogoutRevokes ==
  \A r \in Requests \ CanFail, s \in SessionIds :
    (At(r, "logout.find") /\ req[r].acc = s /\ req[r].tok = s) ~> Revoked(s)

-----------------------------------------------------------------------------
(* What the repository says and the code does not do                       *)

(***************************************************************************)
(* A locked account stays locked: no service calls unlock().  A login that *)
(* read the row before it was locked writes its own copy over the lock.    *)
(***************************************************************************)
LockIsKept == [][\A u \in Users : user[u].locked => user'[u].locked]_vars

(***************************************************************************)
(* Refresh tokens are rotated on use: one token yields one successor.  Two *)
(* refreshes that read the session before either revokes it yield two.     *)
(***************************************************************************)
RotationIsSingleUse == \A p \in SessionIds : Cardinality(Children(p)) <= 1

(***************************************************************************)
(* The reuse of a rotated token revokes the session it was rotated into.   *)
(* The code answers 'Session is revoked' and leaves the successor alone.   *)
(***************************************************************************)
ReuseRevokesSuccessor ==
  [][\A r \in Requests :
       RefreshRejectRevoked(r) => \A s \in Children(req[r].tok) : session'[s].status # "live"]_vars
=============================================================================
