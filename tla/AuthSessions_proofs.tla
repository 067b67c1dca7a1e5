------------------------ MODULE AuthSessions_proofs ------------------------
(***************************************************************************)
(* Proofs about AuthSessions, for any number of users, session ids and     *)
(* overlapping requests and any threshold.                                 *)
(***************************************************************************)
EXTENDS AuthSessions, TLAPS

(***************************************************************************)
(* What the local variables of a request say about the tables, at every    *)
(* step where the request still relies on it.                              *)
(***************************************************************************)
LoginLocals(q) ==
  /\ q.pc \in {"login.verify", "login.fail", "login.record", "login.save"} => q.who \in Users
  /\ q.pc \in {"login.verify", "login.fail", "login.record"} => LockAgrees(q.snap)
  /\ q.pc = "login.dispatch" =>
       q.new \in SessionIds /\ Exists(q.new) /\ session[q.new].parent = NoSession

RefreshLocals(q) ==
  /\ q.pc \in {"refresh.user", "refresh.revoke", "refresh.save"} =>
       q.tok \in SessionIds /\ Exists(q.tok) /\ q.who = session[q.tok].owner
  /\ q.pc = "refresh.save" => Revoked(q.tok)

RespondLocals(q) ==
  q.pc = "respond" =>
    /\ q.new \in SessionIds /\ Exists(q.new)
    /\ session[q.new].parent = NoSession => <<"UserLoggedIn", q.new>> \in audit

Blacklisted(a) == age[a] > 0 \/ a \in blacklist

LogoutLocals(q) ==
  /\ q.pc \in LogoutSteps =>
       LogoutTarget(q.acc, q.tok) \in SessionIds /\ Exists(LogoutTarget(q.acc, q.tok))
  /\ q.pc = "logout.blacklist" => q.acc \in SessionIds
  /\ q.pc \in LogoutSteps \ {"logout.blacklist"} => (q.acc # NoSession => Blacklisted(q.acc))
  /\ q.pc \in {"logout.revoke", "logout.dispatch"} => LogoutTarget(q.acc, q.tok) = q.tok
  /\ q.pc = "logout.dispatch" => Revoked(q.tok)

LocalOK(q) == LoginLocals(q) /\ RefreshLocals(q) /\ RespondLocals(q) /\ LogoutLocals(q)

(***************************************************************************)
(* The tables: their types and the safety invariants over them.            *)
(***************************************************************************)
SharedType ==
  /\ user \in [Users -> UserRow]
  /\ session \in [SessionIds -> SessionRow]
  /\ age \in [SessionIds -> 0..2]
  /\ blacklist \subseteq SessionIds
  /\ audit \subseteq {"UserLoggedIn", "TokenRevoked"} \X SessionIds
  /\ held \subseteq SessionIds
  /\ loggedOut \subseteq BOOLEAN \X SessionIds

SharedOK ==
  SharedType /\ LockAgreement /\ ChainRevoked /\ HeldBacked /\ AuditTruthful /\ LogoutHolds

(* The inductive invariant. *)
IInv ==
  /\ SharedOK
  /\ req \in [Requests -> Request]
  /\ \A r \in Requests : LocalOK(req[r])

(***************************************************************************)
(* No step takes back what another request may have seen in the tables.    *)
(***************************************************************************)
Grows ==
  /\ \A s \in SessionIds :
       /\ Exists(s) => /\ Exists(s)'
                       /\ session'[s].owner = session[s].owner
                       /\ session'[s].parent = session[s].parent
       /\ Revoked(s) => Revoked(s)'
       /\ Blacklisted(s) => Blacklisted(s)'
  /\ audit \subseteq audit'

Shared == <<user, session, age, blacklist, audit, held, loggedOut>>

-----------------------------------------------------------------------------
(***************************************************************************)
(* The entity's methods return user rows, and keep lock and counter in     *)
(* agreement.                                                              *)
(***************************************************************************)
LEMMA RowOperators ==
  ASSUME NEW u \in UserRow, LockAgrees(u)
  PROVE  /\ IncrementFailedAttempts(u) \in UserRow
         /\ LockAgrees(IncrementFailedAttempts(u))
         /\ RecordLogin(u) \in UserRow
         /\ ~u.locked => LockAgrees(RecordLogin(u))
<1>1. CASE u.locked
  BY <1>1 DEF UserRow, IncrementFailedAttempts, RecordLogin
<1>2. CASE ~u.locked
  <2>0. PICK b \in BOOLEAN : b <=> u.attempts + 1 >= MaxAttempts
    OBVIOUS
  <2> DEFINE v == [attempts |-> u.attempts + 1, locked |-> b]
  <2>1. IncrementFailedAttempts(u) = v
    <3>1. b = (u.attempts + 1 >= MaxAttempts)
      BY <2>0
    <3> QED
      BY <1>2, <3>1, Zenon DEF IncrementFailedAttempts
  <2>2. v \in UserRow /\ LockAgrees(v)
    BY <2>0, MaxAttemptsAssumption DEF UserRow, LockAgrees
  <2>3. RecordLogin(u) \in UserRow /\ LockAgrees(RecordLogin(u))
    BY <1>2, MaxAttemptsAssumption DEF UserRow, LockAgrees, RecordLogin
  <2> QED
    BY <2>1, <2>2, <2>3
<1> QED
  BY <1>1, <1>2

LEMMA IdleOK == Idle \in Request /\ LocalOK(Idle) /\ LocalOK(Idle)'
<1>1. Idle \in Request
  BY DEF Idle, Request, Steps, NewUser, UserRow
<1>2. PICK q \in Request : q = Idle
  BY <1>1
<1>3. q.pc = "idle"
  BY <1>2 DEF Idle
<1>4. LocalOK(q) /\ LocalOK(q)'
  BY <1>3 DEF LocalOK, LoginLocals, RefreshLocals, RespondLocals, LogoutLocals, LogoutSteps
<1> QED
  BY <1>1, <1>2, <1>4

(***************************************************************************)
(* What a request relies on stays true while the tables only grow.         *)
(***************************************************************************)
LEMMA LocalStable ==
  ASSUME NEW q \in Request, LocalOK(q), Grows, DistinctAssumption
  PROVE  LocalOK(q)'
<1>1. LoginLocals(q)'
  BY DEF LocalOK, LoginLocals, Grows, LockAgrees
<1>2. RefreshLocals(q)'
  BY DEF LocalOK, RefreshLocals, Grows
<1>3. RespondLocals(q)'
  BY DEF LocalOK, RespondLocals, Grows
<1>4. LogoutLocals(q)'
  <2>1. q.acc \in SessionIds \cup {NoSession} /\ q.tok \in SessionIds \cup {NoSession}
    BY DEF Request
  <2>2. LogoutLocals(q)
    BY DEF LocalOK
  <2> DEFINE t == LogoutTarget(q.acc, q.tok)
  <2>3. t \in SessionIds => (Exists(t) => Exists(t)')
    BY DEF Grows
  <2>4. q.tok \in SessionIds => (Revoked(q.tok) => Revoked(q.tok)')
    BY DEF Grows
  <2>5. q.acc \in SessionIds => (Blacklisted(q.acc) => Blacklisted(q.acc)')
    BY DEF Grows
  <2> QED
    BY <2>1, <2>2, <2>3, <2>4, <2>5 DEF LogoutLocals, LogoutTarget, LogoutSteps
<1> QED
  BY <1>1, <1>2, <1>3, <1>4 DEF LocalOK

(***************************************************************************)
(* One request changes its record and perhaps a table, in a way the others *)
(* can live with: the invariant holds again.                               *)
(***************************************************************************)
LEMMA RequestStep ==
  ASSUME IInv, NEW r \in Requests, NEW q \in Request, Become(r, q),
         Grows, SharedOK', LocalOK(q)'
  PROVE  IInv'
<1>1. req' \in [Requests -> Request] /\ req'[r] = q
  BY DEF IInv, Become
<1>2. ASSUME NEW o \in Requests, o # r PROVE LocalOK(req[o])'
  <2>1. req'[o] = req[o] /\ req[o] \in Request
    BY <1>2 DEF IInv, Become
  <2> QED
    BY <2>1, LocalStable, DistinctAssumption DEF IInv
<1> QED
  BY <1>1, <1>2 DEF IInv

LEMMA QuietStep ==
  ASSUME IInv, NEW r \in Requests, NEW q \in Request, Become(r, q),
         UNCHANGED Shared, LocalOK(q)
  PROVE  IInv'
<1>1. Grows /\ SharedOK'
  BY DEF Shared, Grows, IInv, SharedOK, SharedType, LockAgreement, ChainRevoked, HeldBacked,
         AuditTruthful, LogoutHolds, Exists, Revoked, IsLive, Blacklisted
<1>2. LocalOK(q)'
  BY <1>1, LocalStable, DistinctAssumption
<1> QED
  BY <1>1, <1>2, RequestStep

-----------------------------------------------------------------------------
(***************************************************************************)
(* Saving an entity that was just revoked.                                 *)
(***************************************************************************)
LEMMA SaveRevokedKeeps ==
  ASSUME SharedOK, NEW s \in SessionIds, Exists(s), SaveRevoked(s),
         UNCHANGED <<user, age, blacklist, audit, held, loggedOut>>
  PROVE  Grows /\ SharedOK' /\ Revoked(s)'
<1> USE DEF SaveRevoked, Exists, Revoked, IsLive
<1>1. /\ session' \in [SessionIds -> SessionRow]
      /\ session'[s].status = "revoked"
      /\ session'[s].owner = session[s].owner
      /\ session'[s].parent = session[s].parent
      /\ \A o \in SessionIds \ {s} : session'[o] = session[o]
  BY DEF SharedOK, SharedType, SessionRow
<1>2. Grows
  BY <1>1 DEF Grows, Blacklisted
<1>3. SharedType' /\ LockAgreement'
  BY <1>1 DEF SharedOK, SharedType, LockAgreement
<1>4. ChainRevoked'
  BY <1>1 DEF SharedOK, SharedType, SessionRow, ChainRevoked
<1>5. HeldBacked'
  BY <1>1 DEF SharedOK, SharedType, HeldBacked
<1>6. AuditTruthful'
  BY <1>1 DEF SharedOK, AuditTruthful
<1>7. LogoutHolds'
  BY <1>1 DEF SharedOK, SharedType, LogoutHolds
<1> QED
  BY <1>1, <1>2, <1>3, <1>4, <1>5, <1>6, <1>7 DEF SharedOK

(***************************************************************************)
(* Saving a new session: a root, or the successor of a revoked one.        *)
(***************************************************************************)
LEMMA SaveNewKeeps ==
  ASSUME SharedOK, NEW s \in SessionIds, ~Exists(s),
         NEW u \in Users \cup {NoUser}, NEW p \in SessionIds \cup {NoSession},
         p # NoSession => Revoked(p) /\ session[p].owner = u,
         SaveNew(s, u, p),
         UNCHANGED <<user, age, blacklist, audit, held, loggedOut>>
  PROVE  Grows /\ SharedOK' /\ Exists(s)' /\ session'[s].parent = p
<1> USE DistinctAssumption DEF SaveNew, Exists, Revoked, IsLive
<1>1. /\ session' \in [SessionIds -> SessionRow]
      /\ session'[s] = [status |-> "live", owner |-> u, parent |-> p]
      /\ \A o \in SessionIds \ {s} : session'[o] = session[o]
  BY DEF SharedOK, SharedType, SessionRow
<1>2. Grows
  BY <1>1 DEF Grows, Blacklisted
<1>3. SharedType' /\ LockAgreement'
  BY <1>1 DEF SharedOK, SharedType, LockAgreement
<1>4. ChainRevoked'
  BY <1>1 DEF SharedOK, SharedType, SessionRow, ChainRevoked
<1>5. HeldBacked'
  BY <1>1 DEF SharedOK, SharedType, HeldBacked
<1>6. AuditTruthful'
  BY <1>1 DEF SharedOK, AuditTruthful
<1>7. LogoutHolds'
  BY <1>1 DEF SharedOK, SharedType, LogoutHolds
<1> QED
  BY <1>1, <1>2, <1>3, <1>4, <1>5, <1>6, <1>7 DEF SharedOK

-----------------------------------------------------------------------------
(***************************************************************************)
(* One lemma per handler: each of its steps keeps the invariant.           *)
(***************************************************************************)
LEMMA InitInv == Init => IInv
<1> SUFFICES ASSUME Init PROVE IInv
  OBVIOUS
<1> USE DEF Init
<1>1. SharedType
  BY DEF SharedType, SessionRow, NoRow, UserRow, NewUser
<1>2. LockAgreement
  BY MaxAttemptsAssumption DEF LockAgreement, LockAgrees, NewUser
<1>3. ChainRevoked
  BY DEF ChainRevoked, Exists, NoRow
<1>4. HeldBacked /\ AuditTruthful /\ LogoutHolds
  BY DEF HeldBacked, AuditTruthful, LogoutHolds
<1> QED
  BY <1>1, <1>2, <1>3, <1>4, IdleOK DEF IInv, SharedOK

LEMMA FinishQuiet ==
  ASSUME IInv, NEW r \in Requests, Finish(r), UNCHANGED Shared
  PROVE  IInv'
BY IdleOK, QuietStep DEF Finish

(* update(user): a row from the request's copy. *)
LEMMA UpdateKeeps ==
  ASSUME IInv, NEW r \in Requests, UpdateUser(r), req[r].pc \in {"login.fail", "login.record"},
         UNCHANGED <<session, age, blacklist, audit, held, loggedOut>>
  PROVE  Grows /\ SharedOK'
<1>1. req[r] \in Request /\ LockAgrees(req[r].snap) /\ req[r].who \in Users
  BY DEF IInv, LocalOK, LoginLocals
<1>2. req[r].snap \in UserRow
  BY <1>1 DEF Request
<1>3. user' \in [Users -> UserRow] /\ \A u \in Users : LockAgrees(user'[u])
  BY <1>1, <1>2 DEF UpdateUser, IInv, SharedOK, SharedType, LockAgreement
<1>4. SharedType' /\ LockAgreement'
  BY <1>3 DEF IInv, SharedOK, SharedType, LockAgreement, LockAgrees
<1>5. /\ ChainRevoked' /\ HeldBacked' /\ AuditTruthful' /\ LogoutHolds'
      /\ Grows
  BY DEF IInv, SharedOK, ChainRevoked, HeldBacked, AuditTruthful, LogoutHolds, Grows,
         Exists, Revoked, Blacklisted
<1> QED
  BY <1>4, <1>5 DEF SharedOK

LEMMA LoginKeeps ==
  ASSUME IInv, NEW r \in Requests, LoginStep(r)
  PROVE  IInv'
<1> USE DEF At
<1>0. req[r] \in Request /\ LocalOK(req[r]) /\ SharedOK
  BY DEF IInv
<1>1. CASE LoginFind(r)
  <2>1. CASE req[r].who \in Users
    <3>1. PICK q : q = [req[r] EXCEPT !.pc = "login.verify", !.snap = user[req[r].who]]
      OBVIOUS
    <3>2. q \in Request /\ q.pc = "login.verify" /\ q.who \in Users /\ q.snap = user[q.who]
      BY <1>0, <2>1, <3>1 DEF Request, Steps, LoginSteps, SharedOK, SharedType
    <3>3. LockAgrees(q.snap)
      BY <1>0, <3>2 DEF SharedOK, LockAgreement
    <3>4. LocalOK(q)
      BY <3>2, <3>3 DEF LocalOK, LoginLocals, RefreshLocals, RespondLocals, LogoutLocals,
                        LogoutSteps
    <3> QED
      BY <1>1, <2>1, <3>1, <3>2, <3>4, QuietStep DEF LoginFind, Shared
  <2>2. CASE req[r].who \notin Users
    BY <1>1, <2>2, FinishQuiet DEF LoginFind, Shared
  <2> QED
    BY <2>1, <2>2
<1>2. CASE LoginRefuseLocked(r)
  BY <1>2, FinishQuiet DEF LoginRefuseLocked, Shared
<1>3. CASE LoginWrongPassword(r) \/ LoginRightPassword(r)
  <2>0. /\ req[r].snap \in UserRow /\ LockAgrees(req[r].snap) /\ req[r].who \in Users
        /\ ~req[r].snap.locked
    BY <1>0, <1>3 DEF LoginWrongPassword, LoginRightPassword, Request, LocalOK, LoginLocals
  <2>1. PICK q : /\ q = [req[r] EXCEPT !.pc = "login.fail",
                                       !.snap = IncrementFailedAttempts(req[r].snap)]
                    \/ q = [req[r] EXCEPT !.pc = "login.record", !.snap = RecordLogin(req[r].snap)]
                 /\ Become(r, q)
    BY <1>3 DEF LoginWrongPassword, LoginRightPassword
  <2>2. /\ q \in Request /\ q.pc \in {"login.fail", "login.record"} /\ q.who \in Users
        /\ LockAgrees(q.snap)
    BY <1>0, <2>0, <2>1, RowOperators DEF Request, Steps, LoginSteps
  <2>3. LocalOK(q)
    BY <2>2 DEF LocalOK, LoginLocals, RefreshLocals, RespondLocals, LogoutLocals, LogoutSteps
  <2> QED
    BY <1>3, <2>1, <2>2, <2>3, QuietStep DEF LoginWrongPassword, LoginRightPassword, Shared
<1>4. CASE LoginStoreFailure(r)
  <2>1. Grows /\ SharedOK'
    BY <1>4, UpdateKeeps DEF LoginStoreFailure
  <2> QED
    BY <1>4, <2>1, IdleOK, RequestStep DEF LoginStoreFailure, Finish
<1>5. CASE LoginStoreSuccess(r)
  <2>1. Grows /\ SharedOK'
    BY <1>5, UpdateKeeps DEF LoginStoreSuccess
  <2>2. PICK q : q = [req[r] EXCEPT !.pc = "login.save"]
    OBVIOUS
  <2>3. q \in Request /\ q.pc = "login.save" /\ q.who \in Users
    BY <1>0, <1>5, <2>2 DEF LoginStoreSuccess, Request, Steps, LoginSteps, LocalOK, LoginLocals
  <2>4. LocalOK(q)'
    BY <2>3 DEF LocalOK, LoginLocals, RefreshLocals, RespondLocals, LogoutLocals, LogoutSteps
  <2> QED
    BY <1>5, <2>1, <2>2, <2>3, <2>4, RequestStep DEF LoginStoreSuccess, Goto
<1>6. CASE LoginSave(r)
  <2>1. PICK s \in SessionIds :
          /\ ~Exists(s)
          /\ SaveNew(s, req[r].who, NoSession)
          /\ Become(r, [req[r] EXCEPT !.pc = "login.dispatch", !.new = s])
    BY <1>6 DEF LoginSave
  <2>2. req[r].who \in Users
    BY <1>0, <1>6 DEF LoginSave, LocalOK, LoginLocals
  <2>3. Grows /\ SharedOK' /\ Exists(s)' /\ session'[s].parent = NoSession
    BY <1>0, <1>6, <2>1, <2>2, SaveNewKeeps, DistinctAssumption DEF LoginSave
  <2>4. PICK q : q = [req[r] EXCEPT !.pc = "login.dispatch", !.new = s]
    OBVIOUS
  <2>5. q \in Request /\ q.pc = "login.dispatch" /\ q.new = s
    BY <1>0, <2>4 DEF Request, Steps, LoginSteps
  <2>6. LocalOK(q)'
    BY <2>3, <2>5 DEF LocalOK, LoginLocals, RefreshLocals, RespondLocals, LogoutLocals,
                      LogoutSteps
  <2> QED
    BY <2>1, <2>3, <2>4, <2>5, <2>6, RequestStep
<1>7. CASE LoginDispatch(r)
  <2>1. /\ req[r].new \in SessionIds /\ Exists(req[r].new)
        /\ session[req[r].new].parent = NoSession
    BY <1>0, <1>7 DEF LoginDispatch, LocalOK, LoginLocals
  <2>2. Grows
    BY <1>7 DEF LoginDispatch, Grows, Exists, Revoked, Blacklisted
  <2>3. SharedType' /\ LockAgreement' /\ ChainRevoked' /\ HeldBacked' /\ LogoutHolds'
    BY <1>0, <1>7, <2>1 DEF LoginDispatch, SharedOK, SharedType, LockAgreement, ChainRevoked,
                            HeldBacked, LogoutHolds, Exists, Revoked
  <2>4. AuditTruthful'
    BY <1>0, <1>7, <2>1 DEF LoginDispatch, SharedOK, AuditTruthful, Exists, Revoked
  <2>5. PICK q : q = [req[r] EXCEPT !.pc = "respond"]
    OBVIOUS
  <2>6. q \in Request /\ q.pc = "respond" /\ q.new = req[r].new
    BY <1>0, <2>5 DEF Request, Steps
  <2>7. LocalOK(q)'
    BY <1>7, <2>1, <2>6 DEF LoginDispatch, LocalOK, LoginLocals, RefreshLocals, RespondLocals,
                            LogoutLocals, LogoutSteps, Exists
  <2> QED
    BY <1>7, <2>2, <2>3, <2>4, <2>5, <2>6, <2>7, RequestStep DEF LoginDispatch, Goto, SharedOK
<1> QED
  BY <1>1, <1>2, <1>3, <1>4, <1>5, <1>6, <1>7 DEF LoginStep

(* Beginnings: the tokens a client presents are those of stored sessions. *)
LEMMA ArriveKeeps ==
  ASSUME IInv, NEW r \in Requests, Arrive(r)
  PROVE  IInv'
<1>0. req[r] \in Request /\ SharedOK
  BY DEF IInv
<1>1. CASE \E e \in Users \cup Strangers : LoginBegin(r, e)
  <2>1. PICK e \in Users \cup Strangers : LoginBegin(r, e)
    BY <1>1
  <2>2. PICK q : q = [req[r] EXCEPT !.pc = "login.find", !.who = e]
    OBVIOUS
  <2>3. q \in Request /\ q.pc = "login.find"
    BY <1>0, <2>2 DEF Request, Steps, LoginSteps
  <2>4. LocalOK(q)
    BY <2>3 DEF LocalOK, LoginLocals, RefreshLocals, RespondLocals, LogoutLocals, LogoutSteps
  <2> QED
    BY <2>1, <2>2, <2>3, <2>4, QuietStep DEF LoginBegin, Shared
<1>2. CASE \E t \in SessionIds \cup {NoSession} : RefreshBegin(r, t)
  <2>1. PICK t \in SessionIds \cup {NoSession} : RefreshBegin(r, t)
    BY <1>2
  <2>2. PICK q : q = [req[r] EXCEPT !.pc = "refresh.find", !.tok = t]
    OBVIOUS
  <2>3. q \in Request /\ q.pc = "refresh.find"
    BY <1>0, <2>2 DEF Request, Steps, RefreshSteps
  <2>4. LocalOK(q)
    BY <2>3 DEF LocalOK, LoginLocals, RefreshLocals, RespondLocals, LogoutLocals, LogoutSteps
  <2> QED
    BY <2>1, <2>2, <2>3, <2>4, QuietStep DEF RefreshBegin, Shared
<1>3. CASE \E a, t \in SessionIds \cup {NoSession} : LogoutBegin(r, a, t)
  <2>1. PICK a, t \in SessionIds \cup {NoSession} : LogoutBegin(r, a, t)
    BY <1>3
  <2>2. PICK c \in {"logout.blacklist", "logout.find"} :
          c = IF a # NoSession /\ age[a] = 0 THEN "logout.blacklist" ELSE "logout.find"
    OBVIOUS
  <2>3. PICK q : q = [req[r] EXCEPT !.acc = a, !.tok = t, !.pc = c]
    OBVIOUS
  <2>4. q \in Request /\ q.pc = c /\ q.acc = a /\ q.tok = t
    BY <1>0, <2>2, <2>3 DEF Request, Steps, LogoutSteps
  <2>5. LogoutTarget(a, t) \in SessionIds /\ Exists(LogoutTarget(a, t))
    BY <1>0, <2>1 DEF LogoutBegin, LogoutTarget, SharedOK, HeldBacked
  <2>6. a # NoSession => age[a] \in 0..2 /\ (c = "logout.find" => age[a] > 0)
    BY <1>0, <2>2 DEF SharedOK, SharedType
  <2>7. LogoutLocals(q)
    BY <2>2, <2>4, <2>5, <2>6 DEF LogoutLocals, LogoutSteps, Blacklisted
  <2>8. LocalOK(q)
    BY <2>2, <2>4, <2>7 DEF LocalOK, LoginLocals, RefreshLocals, RespondLocals
  <2>9. Become(r, q)
    BY <2>1, <2>2, <2>3, Zenon DEF LogoutBegin
  <2> QED
    BY <2>1, <2>4, <2>8, <2>9, QuietStep DEF LogoutBegin, Shared
<1> QED
  BY <1>1, <1>2, <1>3 DEF Arrive

LEMMA RefreshKeeps ==
  ASSUME IInv, NEW r \in Requests, RefreshStep(r)
  PROVE  IInv'
<1> USE DEF At
<1>0. req[r] \in Request /\ LocalOK(req[r]) /\ SharedOK
  BY DEF IInv
<1>1. CASE RefreshFind(r)
  <2>1. req[r].tok \in SessionIds /\ Exists(req[r].tok)
    BY <1>0, <1>1 DEF RefreshFind, Request, IsLive, Exists
  <2>2. PICK q : q = [req[r] EXCEPT !.pc = "refresh.user", !.who = session[req[r].tok].owner]
    OBVIOUS
  <2>3. /\ q \in Request /\ q.pc = "refresh.user" /\ q.tok = req[r].tok
        /\ q.who = session[q.tok].owner
    BY <1>0, <2>1, <2>2 DEF Request, Steps, RefreshSteps, SharedOK, SharedType, SessionRow
  <2>4. LocalOK(q)
    BY <2>1, <2>3 DEF LocalOK, LoginLocals, RefreshLocals, RespondLocals, LogoutLocals,
                      LogoutSteps
  <2> QED
    BY <1>1, <2>2, <2>3, <2>4, QuietStep DEF RefreshFind, Shared
<1>2. CASE RefreshReject(r) \/ RefreshRejectRevoked(r)
  BY <1>2, FinishQuiet DEF RefreshReject, RefreshRejectRevoked, Shared
<1>3. CASE RefreshCheckUser(r)
  <2>1. CASE user[req[r].who].locked
    BY <1>3, <2>1, FinishQuiet DEF RefreshCheckUser, Shared
  <2>2. CASE ~user[req[r].who].locked
    <3>1. PICK q : q = [req[r] EXCEPT !.pc = "refresh.revoke"]
      OBVIOUS
    <3>2. /\ q \in Request /\ q.pc = "refresh.revoke" /\ q.tok = req[r].tok
          /\ q.who = req[r].who
      BY <1>0, <3>1 DEF Request, Steps, RefreshSteps
    <3>3. LocalOK(q)
      BY <1>0, <1>3, <3>2 DEF RefreshCheckUser, LocalOK, LoginLocals, RefreshLocals,
                              RespondLocals, LogoutLocals, LogoutSteps
    <3> QED
      BY <1>3, <2>2, <3>1, <3>2, <3>3, QuietStep DEF RefreshCheckUser, Goto, Shared
  <2> QED
    BY <2>1, <2>2
<1>4. CASE RefreshRevoke(r)
  <2>1. /\ req[r].tok \in SessionIds /\ Exists(req[r].tok)
        /\ req[r].who = session[req[r].tok].owner
    BY <1>0, <1>4 DEF RefreshRevoke, LocalOK, RefreshLocals
  <2>2. Grows /\ SharedOK' /\ session'[req[r].tok].status = "revoked"
    <3>1. PICK p : p = req[r].tok
      OBVIOUS
    <3>2. Grows /\ SharedOK' /\ Revoked(p)'
      BY <1>0, <1>4, <2>1, <3>1, SaveRevokedKeeps DEF RefreshRevoke
    <3> QED
      BY <3>1, <3>2 DEF Revoked
  <2>3. PICK q : q = [req[r] EXCEPT !.pc = "refresh.save"]
    OBVIOUS
  <2>4. /\ q \in Request /\ q.pc = "refresh.save" /\ q.tok = req[r].tok
        /\ q.who = req[r].who
    BY <1>0, <2>3 DEF Request, Steps, RefreshSteps
  <2>5. Exists(q.tok)' /\ Revoked(q.tok)' /\ q.who = session'[q.tok].owner
    BY <2>1, <2>2, <2>4 DEF Grows, Revoked, Exists
  <2>6. LocalOK(q)'
    BY <2>1, <2>4, <2>5 DEF LocalOK, LoginLocals, RefreshLocals, RespondLocals, LogoutLocals,
                            LogoutSteps
  <2> QED
    BY <1>4, <2>2, <2>3, <2>4, <2>6, RequestStep DEF RefreshRevoke, Goto
<1>5. CASE RefreshSave(r)
  <2>1. PICK s \in SessionIds :
          /\ ~Exists(s)
          /\ SaveNew(s, req[r].who, req[r].tok)
          /\ Become(r, [req[r] EXCEPT !.pc = "respond", !.new = s])
    BY <1>5 DEF RefreshSave
  <2>2. /\ req[r].tok \in SessionIds /\ Revoked(req[r].tok)
        /\ session[req[r].tok].owner = req[r].who
    BY <1>0, <1>5 DEF RefreshSave, LocalOK, RefreshLocals
  <2>3. req[r].who \in Users \cup {NoUser}
    BY <1>0, <2>2 DEF SharedOK, SharedType, SessionRow
  <2>4. Grows /\ SharedOK' /\ Exists(s)' /\ session'[s].parent = req[r].tok
    BY <1>0, <1>5, <2>1, <2>2, <2>3, SaveNewKeeps DEF RefreshSave
  <2>5. PICK q : q = [req[r] EXCEPT !.pc = "respond", !.new = s]
    OBVIOUS
  <2>6. q \in Request /\ q.pc = "respond" /\ q.new = s
    BY <1>0, <2>5 DEF Request, Steps
  <2>7. LocalOK(q)'
    BY <2>2, <2>4, <2>6, DistinctAssumption
       DEF LocalOK, LoginLocals, RefreshLocals, RespondLocals, LogoutLocals, LogoutSteps
  <2> QED
    BY <2>1, <2>4, <2>5, <2>6, <2>7, RequestStep
<1> QED
  BY <1>1, <1>2, <1>3, <1>4, <1>5 DEF RefreshStep

LEMMA RespondKeeps ==
  ASSUME IInv, NEW r \in Requests, Respond(r)
  PROVE  IInv'
<1>1. /\ req[r].new \in SessionIds /\ Exists(req[r].new)
      /\ session[req[r].new].parent = NoSession => <<"UserLoggedIn", req[r].new>> \in audit
  BY DEF Respond, At, IInv, LocalOK, RespondLocals
<1>2. Grows
  BY DEF Respond, Grows, Exists, Revoked, Blacklisted
<1>3. SharedOK'
  BY <1>1 DEF Respond, IInv, SharedOK, SharedType, LockAgreement, ChainRevoked, HeldBacked,
              AuditTruthful, LogoutHolds, Exists, Revoked
<1> QED
  BY <1>2, <1>3, IdleOK, RequestStep DEF Respond, Finish

(* 200: the session is known to be revoked and the access token to be dead. *)
LEMMA AnswerKeeps ==
  ASSUME IInv, NEW r \in Requests, Answer200(r), NEW s \in SessionIds,
         s = LogoutTarget(req[r].acc, req[r].tok), Revoked(s),
         req[r].acc # NoSession => Blacklisted(req[r].acc),
         audit' \in {audit, audit \cup {<<"TokenRevoked", s>>}},
         UNCHANGED <<user, session, age, blacklist, held>>
  PROVE  IInv'
<1>1. Grows
  BY DEF Grows, Exists, Revoked, Blacklisted
<1>2. SharedType' /\ LockAgreement' /\ ChainRevoked' /\ HeldBacked'
  <2>1. PICK b \in BOOLEAN : b = (req[r].acc # NoSession)
    OBVIOUS
  <2>2. loggedOut' = loggedOut \cup {<<b, s>>}
    BY <2>1, Zenon DEF Answer200
  <2> QED
    BY <2>2 DEF IInv, SharedOK, SharedType, LockAgreement, ChainRevoked, HeldBacked,
                Exists, Revoked
<1>3. AuditTruthful'
  <2>1. AuditTruthful /\ session' = session
    BY DEF IInv, SharedOK
  <2>2. CASE audit' = audit
    BY <2>1, <2>2 DEF AuditTruthful, Exists, Revoked
  <2>3. CASE audit' = audit \cup {<<"TokenRevoked", s>>}
    <3> SUFFICES ASSUME NEW o \in SessionIds
                 PROVE  /\ <<"TokenRevoked", o>> \in audit' => session[o].status = "revoked"
                        /\ <<"UserLoggedIn", o>> \in audit' =>
                             session[o].status # "absent" /\ session[o].parent = NoSession
      BY <2>1 DEF AuditTruthful, Exists, Revoked
    <3>1. <<"UserLoggedIn", o>> # <<"TokenRevoked", s>>
      OBVIOUS
    <3>2. <<"TokenRevoked", o>> = <<"TokenRevoked", s>> => o = s
      OBVIOUS
    <3> QED
      BY <2>1, <2>3, <3>1, <3>2 DEF AuditTruthful, Exists, Revoked
  <2> QED
    BY <2>2, <2>3
<1>4. LogoutHolds'
  <2>1. PICK b \in BOOLEAN : b = (req[r].acc # NoSession)
    OBVIOUS
  <2>2. loggedOut' = loggedOut \cup {<<b, s>>}
    BY <2>1, Zenon DEF Answer200
  <2>3. b => req[r].acc # NoSession
    BY <2>1, Zenon
  <2>4. b /\ age[s] = 0 => s \in blacklist
    <3>1. age[s] \in 0..2
      BY DEF IInv, SharedOK, SharedType
    <3> QED
      BY <2>3, <3>1 DEF LogoutTarget, Blacklisted
  <2> QED
    BY <2>2, <2>4 DEF IInv, SharedOK, LogoutHolds, Revoked
<1> QED
  BY <1>1, <1>2, <1>3, <1>4, IdleOK, RequestStep DEF Answer200, Finish, SharedOK

LEMMA LogoutKeeps ==
  ASSUME IInv, NEW r \in Requests, LogoutStep(r)
  PROVE  IInv'
<1> USE DEF At
<1>0. req[r] \in Request /\ LocalOK(req[r]) /\ SharedOK
  BY DEF IInv
<1>1. PICK s : s = LogoutTarget(req[r].acc, req[r].tok)
  OBVIOUS
<1>2. s \in SessionIds /\ Exists(s)
  BY <1>0, <1>1 DEF LogoutStep, LogoutBlacklist, LogoutFind, LogoutRevoke, LogoutDispatch,
                    LocalOK, LogoutLocals, LogoutSteps
<1>3. CASE LogoutBlacklist(r)
  <2>1. req[r].acc \in SessionIds
    BY <1>0, <1>3 DEF LogoutBlacklist, LocalOK, LogoutLocals
  <2>2. Grows
    BY <1>3 DEF LogoutBlacklist, Grows, Exists, Revoked, Blacklisted
  <2>3. SharedOK'
    BY <1>0, <1>3, <2>1 DEF LogoutBlacklist, SharedOK, SharedType, LockAgreement, ChainRevoked,
                            HeldBacked, AuditTruthful, LogoutHolds, Exists, Revoked
  <2>4. PICK q : q = [req[r] EXCEPT !.pc = "logout.find"]
    OBVIOUS
  <2>5. /\ q \in Request /\ q.pc = "logout.find" /\ q.acc = req[r].acc
        /\ q.tok = req[r].tok
    BY <1>0, <2>4 DEF Request, Steps, LogoutSteps
  <2>6. Exists(s)' /\ Blacklisted(q.acc)'
    BY <1>2, <1>3, <2>1, <2>5 DEF LogoutBlacklist, Exists, Blacklisted
  <2>7. LocalOK(q)'
    BY <1>1, <1>2, <2>5, <2>6 DEF LocalOK, LoginLocals, RefreshLocals, RespondLocals,
                                  LogoutLocals, LogoutSteps, LogoutTarget
  <2> QED
    BY <1>3, <2>2, <2>3, <2>4, <2>5, <2>7, RequestStep DEF LogoutBlacklist, Goto
<1>4. CASE LogoutFind(r)
  <2>0. req[r].acc # NoSession => Blacklisted(req[r].acc)
    BY <1>0, <1>4 DEF LogoutFind, LocalOK, LogoutLocals, LogoutSteps
  <2>1. CASE ~IsLive(s) /\ Answer200(r)
    <3>1. Revoked(s)
      BY <1>0, <1>2, <2>1 DEF SharedOK, SharedType, SessionRow, IsLive, Exists, Revoked
    <3> QED
      BY <1>1, <1>2, <1>4, <2>0, <2>1, <3>1, AnswerKeeps DEF LogoutFind
  <2>2. CASE s = req[r].tok /\ Goto(r, "logout.revoke") /\ UNCHANGED loggedOut
    <3>1. PICK q : q = [req[r] EXCEPT !.pc = "logout.revoke"]
      OBVIOUS
    <3>2. /\ q \in Request /\ q.pc = "logout.revoke" /\ q.acc = req[r].acc
          /\ q.tok = req[r].tok
      BY <1>0, <3>1 DEF Request, Steps, LogoutSteps
    <3>3. LocalOK(q)
      BY <1>1, <1>2, <2>0, <2>2, <3>2 DEF LocalOK, LoginLocals, RefreshLocals, RespondLocals,
                                          LogoutLocals, LogoutSteps
    <3> QED
      BY <1>4, <2>2, <3>1, <3>2, <3>3, QuietStep DEF LogoutFind, Goto, Shared
  <2>3. CASE Finish(r) /\ UNCHANGED loggedOut
    BY <1>4, <2>3, FinishQuiet DEF LogoutFind, Shared
  <2> QED
    BY <1>1, <1>4, <2>1, <2>2, <2>3 DEF LogoutFind
<1>5. CASE LogoutRevoke(r)
  <2>1. s = req[r].tok /\ (req[r].acc # NoSession => Blacklisted(req[r].acc))
    BY <1>0, <1>1, <1>5 DEF LogoutRevoke, LocalOK, LogoutLocals, LogoutSteps
  <2>2. Grows /\ SharedOK' /\ Revoked(s)'
    BY <1>0, <1>2, <1>5, <2>1, SaveRevokedKeeps DEF LogoutRevoke
  <2>3. PICK q : q = [req[r] EXCEPT !.pc = "logout.dispatch"]
    OBVIOUS
  <2>4. /\ q \in Request /\ q.pc = "logout.dispatch" /\ q.acc = req[r].acc
        /\ q.tok = req[r].tok
    BY <1>0, <2>3 DEF Request, Steps, LogoutSteps
  <2>5. Exists(s)' /\ (q.acc # NoSession => Blacklisted(q.acc)')
    BY <1>2, <1>5, <2>1, <2>2, <2>4 DEF LogoutRevoke, Grows, Blacklisted
  <2>6. LocalOK(q)'
    BY <1>1, <1>2, <2>1, <2>2, <2>4, <2>5 DEF LocalOK, LoginLocals, RefreshLocals,
         RespondLocals, LogoutLocals, LogoutSteps
  <2> QED
    BY <1>5, <2>2, <2>3, <2>4, <2>6, RequestStep DEF LogoutRevoke, Goto
<1>6. CASE LogoutDispatch(r)
  <2>1. /\ s = req[r].tok /\ Revoked(s)
        /\ req[r].acc # NoSession => Blacklisted(req[r].acc)
    BY <1>0, <1>1, <1>6 DEF LogoutDispatch, LocalOK, LogoutLocals, LogoutSteps
  <2> QED
    BY <1>1, <1>2, <1>6, <2>1, AnswerKeeps DEF LogoutDispatch
<1> QED
  BY <1>3, <1>4, <1>5, <1>6 DEF LogoutStep

(* Tokens expire and blacklist entries lapse under every request's feet. *)
LEMMA TimeKeeps ==
  ASSUME IInv, NEW s \in SessionIds, Expire(s) \/ BlacklistTtl(s)
  PROVE  IInv'
<1>0. SharedOK /\ MaxAge \in 0..2
  BY DistinctAssumption DEF IInv
<1>1. /\ age' \in [SessionIds -> 0..2]
      /\ blacklist' \subseteq SessionIds
      /\ \A o \in SessionIds : age'[o] >= age[o] /\ (Blacklisted(o) => Blacklisted(o)')
      /\ UNCHANGED <<user, session, audit, held, loggedOut, req>>
  BY <1>0 DEF Expire, BlacklistTtl, SharedOK, SharedType, Blacklisted
<1>2. Grows
  BY <1>1 DEF Grows, Exists, Revoked
<1>3. SharedType' /\ LockAgreement' /\ ChainRevoked' /\ HeldBacked' /\ AuditTruthful'
  BY <1>0, <1>1 DEF SharedOK, SharedType, LockAgreement, ChainRevoked, HeldBacked,
                    AuditTruthful, Exists, Revoked
<1>4. LogoutHolds'
  <2> SUFFICES ASSUME NEW p \in loggedOut
               PROVE  /\ Revoked(p[2])'
                      /\ p[1] /\ age'[p[2]] = 0 => p[2] \in blacklist'
    BY <1>1 DEF LogoutHolds
  <2>1. p[2] \in SessionIds /\ Revoked(p[2])
    BY <1>0 DEF SharedOK, SharedType, LogoutHolds
  <2>2. p[1] /\ age[p[2]] = 0 => p[2] \in blacklist
    BY <1>0 DEF SharedOK, LogoutHolds
  <2>3. age[p[2]] \in 0..2 /\ age'[p[2]] \in 0..2
    BY <1>0, <1>1, <2>1 DEF SharedOK, SharedType
  <2> QED
    BY <1>1, <2>1, <2>2, <2>3 DEF Revoked, Blacklisted
<1>5. SharedOK'
  BY <1>3, <1>4 DEF SharedOK
<1>6. ASSUME NEW r \in Requests PROVE LocalOK(req[r])'
  <2>1. req[r] \in Request /\ LocalOK(req[r])
    BY DEF IInv
  <2>2. PICK q : q = req[r]
    OBVIOUS
  <2>3. LocalOK(q)'
    BY <1>2, <2>1, <2>2, LocalStable, DistinctAssumption
  <2> QED
    BY <1>1, <2>2, <2>3
<1> QED
  BY <1>1, <1>5, <1>6 DEF IInv

LEMMA StepInv == IInv /\ [Next]_vars => IInv'
<1> SUFFICES ASSUME IInv, [Next]_vars PROVE IInv'
  OBVIOUS
<1>1. CASE \E r \in Requests : Arrive(r) \/ Proceed(r) \/ Fail(r)
  <2>1. PICK r \in Requests : Arrive(r) \/ Proceed(r) \/ Fail(r)
    BY <1>1
  <2>2. CASE Arrive(r)
    BY <2>2, ArriveKeeps
  <2>3. CASE Proceed(r)
    BY <2>3, LoginKeeps, RefreshKeeps, LogoutKeeps, RespondKeeps DEF Proceed
  <2>4. CASE Fail(r)
    BY <2>4, FinishQuiet DEF Fail, Shared
  <2> QED
    BY <2>1, <2>2, <2>3, <2>4
<1>2. CASE \E s \in SessionIds : Expire(s) \/ BlacklistTtl(s)
  BY <1>2, TimeKeeps
<1>3. CASE UNCHANGED vars
  <2>1. UNCHANGED Shared /\ req' = req
    BY <1>3 DEF vars, Shared
  <2>2. SharedOK'
    BY <2>1 DEF Shared, IInv, SharedOK, SharedType, LockAgreement, ChainRevoked, HeldBacked,
                AuditTruthful, LogoutHolds, Exists, Revoked
  <2>3. Grows
    BY <2>1 DEF Shared, Grows, Exists, Revoked, Blacklisted
  <2>4. ASSUME NEW r \in Requests PROVE LocalOK(req[r])'
    <3>1. PICK q \in Request : q = req[r] /\ LocalOK(q)
      BY DEF IInv
    <3>2. LocalOK(q)'
      BY <2>3, <3>1, LocalStable, DistinctAssumption
    <3> QED
      BY <2>1, <3>1, <3>2
  <2> QED
    BY <2>1, <2>2, <2>4 DEF IInv
<1> QED
  BY <1>1, <1>2, <1>3 DEF Next

(***************************************************************************)
(* The invariant holds in every reachable state.                           *)
(***************************************************************************)
THEOREM Invariance == Spec => []IInv
BY InitInv, StepInv, PTL DEF Spec

(***************************************************************************)
(* Every variable keeps its type.                                          *)
(***************************************************************************)
THEOREM TypeCorrect == Spec => []TypeOK
<1>1. IInv => TypeOK
  BY DEF IInv, SharedOK, SharedType, TypeOK
<1> QED
  BY <1>1, Invariance, PTL

(***************************************************************************)
(* However logins of a user overlap, a row of the users table is locked    *)
(* exactly when its counter stands at the threshold or above.              *)
(***************************************************************************)
THEOREM LockAgreementHolds == Spec => []LockAgreement
<1>1. IInv => LockAgreement
  BY DEF IInv, SharedOK
<1> QED
  BY <1>1, Invariance, PTL

(***************************************************************************)
(* A successor session belongs to the user of its parent, and its parent   *)
(* is revoked.                                                             *)
(***************************************************************************)
THEOREM ChainRevokedHolds == Spec => []ChainRevoked
<1>1. IInv => ChainRevoked
  BY DEF IInv, SharedOK
<1> QED
  BY <1>1, Invariance, PTL

(***************************************************************************)
(* Clients hold tokens of stored sessions only, and those of a login only  *)
(* once it is audited.                                                     *)
(***************************************************************************)
THEOREM HeldBackedHolds == Spec => []HeldBacked
<1>1. IInv => HeldBacked
  BY DEF IInv, SharedOK
<1> QED
  BY <1>1, Invariance, PTL

(***************************************************************************)
(* What the audit log says of a session is so.                             *)
(***************************************************************************)
THEOREM AuditTruthfulHolds == Spec => []AuditTruthful
<1>1. IInv => AuditTruthful
  BY DEF IInv, SharedOK
<1> QED
  BY <1>1, Invariance, PTL

(***************************************************************************)
(* An acknowledged logout holds: revoked for good, and blacklisted for as  *)
(* long as the access token lives.                                         *)
(***************************************************************************)
THEOREM LogoutHoldsAlways == Spec => []LogoutHolds
<1>1. IInv => LogoutHolds
  BY DEF IInv, SharedOK
<1> QED
  BY <1>1, Invariance, PTL

-----------------------------------------------------------------------------
(***************************************************************************)
(* The four ways a step treats the session table.                          *)
(***************************************************************************)
SessionEffect ==
  \/ UNCHANGED session
  \/ \E s \in SessionIds : Exists(s) /\ SaveRevoked(s)
  \/ \E r \in Requests, s \in SessionIds :
       /\ At(r, "login.save")
       /\ req[r].who \in Users
       /\ ~Exists(s)
       /\ SaveNew(s, req[r].who, NoSession)
  \/ \E r \in Requests, s \in SessionIds :
       /\ At(r, "refresh.save")
       /\ req[r].tok \in SessionIds /\ Revoked(req[r].tok)
       /\ req[r].who = session[req[r].tok].owner
       /\ ~Exists(s)
       /\ SaveNew(s, req[r].who, req[r].tok)

LEMMA SessionEffects ==
  ASSUME IInv, [Next]_vars
  PROVE  SessionEffect
<1>1. CASE \E r \in Requests : LoginSave(r)
  <2>1. PICK r \in Requests : LoginSave(r)
    BY <1>1
  <2>2. At(r, "login.save") /\ req[r].who \in Users
    BY <2>1 DEF LoginSave, At, IInv, LocalOK, LoginLocals
  <2> QED
    BY <2>1, <2>2 DEF LoginSave, SessionEffect
<1>2. CASE \E r \in Requests : RefreshSave(r)
  <2>1. PICK r \in Requests : RefreshSave(r)
    BY <1>2
  <2>2. /\ At(r, "refresh.save")
        /\ req[r].tok \in SessionIds /\ Revoked(req[r].tok)
        /\ req[r].who = session[req[r].tok].owner
    BY <2>1 DEF RefreshSave, At, IInv, LocalOK, RefreshLocals
  <2> QED
    BY <2>1, <2>2 DEF RefreshSave, SessionEffect
<1>3. CASE \E r \in Requests : RefreshRevoke(r) \/ LogoutRevoke(r)
  <2>1. PICK r \in Requests : RefreshRevoke(r) \/ LogoutRevoke(r)
    BY <1>3
  <2>2. req[r].tok \in SessionIds /\ Exists(req[r].tok) /\ SaveRevoked(req[r].tok)
    BY <2>1 DEF RefreshRevoke, LogoutRevoke, At, IInv, LocalOK, RefreshLocals, LogoutLocals,
                LogoutSteps
  <2> QED
    BY <2>2 DEF SessionEffect
<1>4. CASE /\ ~ \E r \in Requests : LoginSave(r) \/ RefreshSave(r)
           /\ ~ \E r \in Requests : RefreshRevoke(r) \/ LogoutRevoke(r)
  <2>1. UNCHANGED session
    BY <1>4 DEF Next, vars, Arrive, Proceed, LoginStep, RefreshStep, LogoutStep, Respond, Fail,
      LoginBegin, LoginFind, LoginRefuseLocked, LoginWrongPassword, LoginRightPassword,
      LoginStoreFailure, LoginStoreSuccess, LoginDispatch, RefreshBegin, RefreshFind,
      RefreshReject, RefreshRejectRevoked, RefreshCheckUser, LogoutBegin, LogoutBlacklist,
      LogoutFind, LogoutDispatch, Expire, BlacklistTtl
  <2> QED
    BY <2>1 DEF SessionEffect
<1> QED
  BY <1>1, <1>2, <1>3, <1>4

(***************************************************************************)
(* The handlers implement the session table's contract: no interleaving    *)
(* revives a session, opens one twice or continues one that is not         *)
(* revoked.                                                                *)
(***************************************************************************)
THEOREM Refinement == Spec => ImplementsRegistry
<1>1. Init => Registry!Init
  BY DEF Init, NoRow, Registry!Init, Registry!NoRow
<1>2. IInv /\ [Next]_vars => [Registry!Next]_session
  <2> SUFFICES ASSUME IInv, [Next]_vars, session' # session PROVE Registry!Next
    OBVIOUS
  <2>0. session \in [SessionIds -> SessionRow]
    BY DEF IInv, SharedOK, SharedType
  <2>1. ASSUME NEW s \in SessionIds, Exists(s), SaveRevoked(s) PROVE Registry!Next
    <3>1. session[s].status = "live"
      BY <2>0, <2>1 DEF SessionRow, Exists, SaveRevoked
    <3> QED
      BY <2>1, <3>1 DEF SaveRevoked, Registry!Next, Registry!Revoke
  <2>2. ASSUME NEW s \in SessionIds, NEW u \in Users, ~Exists(s), SaveNew(s, u, NoSession)
        PROVE  Registry!Next
    BY <2>2 DEF Exists, SaveNew, Registry!Next, Registry!Open, Registry!Fresh
  <2>3. ASSUME NEW s \in SessionIds, NEW p \in SessionIds, ~Exists(s), Revoked(p),
               SaveNew(s, session[p].owner, p)
        PROVE  Registry!Next
    BY <2>3 DEF Exists, Revoked, SaveNew, Registry!Next, Registry!Continue, Registry!Fresh
  <2> QED
    BY <2>1, <2>2, <2>3, SessionEffects DEF SessionEffect
<1> QED
  BY <1>1, <1>2, Invariance, PTL DEF Spec, ImplementsRegistry, Registry!Spec

-----------------------------------------------------------------------------
(***************************************************************************)
(* Who is past a check.  A step takes a request past the check of the lock *)
(* only when the row is unlocked, and past the check of the session only   *)
(* when the session is live, at that very step.                            *)
(***************************************************************************)
PastLogin(q)   == \/ q.pc = "login.verify" /\ ~q.snap.locked
                  \/ q.pc \in {"login.fail", "login.record", "login.save"}
PastRefresh(q) == q.pc \in {"refresh.revoke", "refresh.save"}
Reading(q)     == q.pc \in {"refresh.user", "refresh.revoke", "refresh.save"}

Checked(old, new) ==
  /\ PastLogin(new) \/ PastRefresh(new) =>
       \/ (PastLogin(old) \/ PastRefresh(old)) /\ new.who = old.who
       \/ ~user[new.who].locked
  /\ Reading(new) => \/ Reading(old) /\ new.tok = old.tok
                     \/ IsLive(new.tok)

LEMMA CheckedIdle == ASSUME NEW q PROVE Checked(q, Idle)
<1>1. PICK i : i = Idle
  OBVIOUS
<1>2. i.pc = "idle"
  BY <1>1 DEF Idle
<1>3. Checked(q, i)
  BY <1>2 DEF Checked, PastLogin, PastRefresh, Reading
<1> QED
  BY <1>1, <1>3

(* Each step of a request passes its checks. *)
LEMMA CheckedStep ==
  ASSUME IInv, NEW r \in Requests, Arrive(r) \/ Proceed(r) \/ Fail(r)
  PROVE  \E q : Become(r, q) /\ Checked(req[r], q)
<1> USE DEF At
<1>0. req[r] \in Request /\ LocalOK(req[r])
  BY DEF IInv
<1>1. CASE Finish(r)
  BY <1>1, CheckedIdle DEF Finish
<1>2. CASE \E q : /\ Become(r, q)
                  /\ q.pc \in LogoutSteps \cup {"login.find", "login.dispatch", "refresh.find",
                                              "respond"}
  BY <1>2 DEF Checked, PastLogin, PastRefresh, Reading, LogoutSteps
<1>3. CASE \E q : /\ Become(r, q)
                  /\ q.pc = "login.verify" /\ q.snap = user[q.who]
  BY <1>3 DEF Checked, PastLogin, PastRefresh, Reading
<1>4. CASE \E q : /\ Become(r, q) /\ PastLogin(req[r])
                  /\ q.pc \in {"login.fail", "login.record", "login.save"} /\ q.who = req[r].who
  BY <1>4 DEF Checked, PastLogin, PastRefresh, Reading
<1>5. CASE \E q : Become(r, q) /\ q.pc = "refresh.user" /\ IsLive(q.tok)
  BY <1>5 DEF Checked, PastLogin, PastRefresh, Reading
<1>6. CASE \E q : /\ Become(r, q) /\ Reading(req[r])
                  /\ PastRefresh(req[r]) \/ ~user[req[r].who].locked
                  /\ q.pc \in {"refresh.revoke", "refresh.save"}
                  /\ q.who = req[r].who /\ q.tok = req[r].tok
  BY <1>6 DEF Checked, PastLogin, PastRefresh, Reading
<1>7. CASE LoginStep(r)
  <2>1. CASE LoginFind(r) /\ ~Finish(r)
    <3>1. PICK q : q = [req[r] EXCEPT !.pc = "login.verify", !.snap = user[req[r].who]]
      OBVIOUS
    <3>2. q.pc = "login.verify" /\ q.snap = user[q.who]
      BY <1>0, <3>1 DEF Request
    <3> QED
      BY <1>3, <2>1, <3>1, <3>2 DEF LoginFind
  <2>2. CASE LoginWrongPassword(r) \/ LoginRightPassword(r)
    <3>1. PICK q : /\ \/ q = [req[r] EXCEPT !.pc = "login.fail",
                                           !.snap = IncrementFailedAttempts(req[r].snap)]
                      \/ q = [req[r] EXCEPT !.pc = "login.record",
                                           !.snap = RecordLogin(req[r].snap)]
                   /\ Become(r, q)
      BY <2>2 DEF LoginWrongPassword, LoginRightPassword
    <3>2. q.pc \in {"login.fail", "login.record"} /\ q.who = req[r].who
      BY <1>0, <3>1 DEF Request
    <3> QED
      BY <1>4, <2>2, <3>1, <3>2 DEF LoginWrongPassword, LoginRightPassword, PastLogin
  <2>3. CASE LoginStoreSuccess(r)
    <3>1. PICK q : q = [req[r] EXCEPT !.pc = "login.save"]
      OBVIOUS
    <3>2. q.pc = "login.save" /\ q.who = req[r].who
      BY <1>0, <3>1 DEF Request
    <3> QED
      BY <1>4, <2>3, <3>1, <3>2 DEF LoginStoreSuccess, Goto, PastLogin
  <2>4. CASE LoginSave(r)
    <3>1. PICK s \in SessionIds : Become(r, [req[r] EXCEPT !.pc = "login.dispatch", !.new = s])
      BY <2>4 DEF LoginSave
    <3>2. PICK q : q = [req[r] EXCEPT !.pc = "login.dispatch", !.new = s]
      OBVIOUS
    <3>3. q.pc = "login.dispatch"
      BY <1>0, <3>2 DEF Request
    <3> QED
      BY <1>2, <3>1, <3>2, <3>3
  <2>5. CASE LoginDispatch(r)
    <3>1. PICK q : q = [req[r] EXCEPT !.pc = "respond"]
      OBVIOUS
    <3>2. q.pc = "respond"
      BY <1>0, <3>1 DEF Request
    <3> QED
      BY <1>2, <2>5, <3>1, <3>2 DEF LoginDispatch, Goto
  <2> QED
    BY <1>1, <1>7, <2>1, <2>2, <2>3, <2>4, <2>5
       DEF LoginStep, LoginRefuseLocked, LoginStoreFailure
<1>8. CASE RefreshStep(r) \/ Respond(r) \/ Fail(r)
  <2>1. CASE RefreshFind(r)
    <3>1. PICK q : q = [req[r] EXCEPT !.pc = "refresh.user", !.who = session[req[r].tok].owner]
      OBVIOUS
    <3>2. q.pc = "refresh.user" /\ q.tok = req[r].tok
      BY <1>0, <3>1 DEF Request
    <3> QED
      BY <1>5, <2>1, <3>1, <3>2 DEF RefreshFind
  <2>2. CASE RefreshCheckUser(r) /\ ~user[req[r].who].locked
    <3>1. PICK q : q = [req[r] EXCEPT !.pc = "refresh.revoke"]
      OBVIOUS
    <3>2. q.pc = "refresh.revoke" /\ q.who = req[r].who /\ q.tok = req[r].tok
      BY <1>0, <3>1 DEF Request
    <3> QED
      BY <1>6, <2>2, <3>1, <3>2 DEF RefreshCheckUser, Goto, Reading
  <2>3. CASE RefreshCheckUser(r) /\ user[req[r].who].locked
    BY <1>1, <2>3 DEF RefreshCheckUser
  <2>4. CASE RefreshRevoke(r)
    <3>1. PICK q : q = [req[r] EXCEPT !.pc = "refresh.save"]
      OBVIOUS
    <3>2. q.pc = "refresh.save" /\ q.who = req[r].who /\ q.tok = req[r].tok
      BY <1>0, <3>1 DEF Request
    <3> QED
      BY <1>6, <2>4, <3>1, <3>2 DEF RefreshRevoke, Goto, Reading, PastRefresh
  <2>5. CASE RefreshSave(r)
    <3>1. PICK s \in SessionIds : Become(r, [req[r] EXCEPT !.pc = "respond", !.new = s])
      BY <2>5 DEF RefreshSave
    <3>2. PICK q : q = [req[r] EXCEPT !.pc = "respond", !.new = s]
      OBVIOUS
    <3>3. q.pc = "respond"
      BY <1>0, <3>2 DEF Request
    <3> QED
      BY <1>2, <3>1, <3>2, <3>3
  <2> QED
    BY <1>1, <1>8, <2>1, <2>2, <2>3, <2>4, <2>5
       DEF RefreshStep, RefreshReject, RefreshRejectRevoked, Respond, Fail
<1>9. CASE LogoutStep(r)
  <2>1. CASE \E c \in LogoutSteps : Goto(r, c)
    <3>1. PICK c \in LogoutSteps : Goto(r, c)
      BY <2>1
    <3>2. PICK q : q = [req[r] EXCEPT !.pc = c]
      OBVIOUS
    <3>3. q.pc = c
      BY <1>0, <3>2 DEF Request
    <3> QED
      BY <1>2, <3>1, <3>2, <3>3 DEF Goto
  <2> QED
    BY <1>1, <1>9, <2>1 DEF LogoutStep, LogoutBlacklist, LogoutFind, LogoutRevoke,
                            LogoutDispatch, Answer200, LogoutSteps
<1>10. CASE Arrive(r)
  <2>1. CASE \E e \in Users \cup Strangers : LoginBegin(r, e)
    <3>1. PICK e \in Users \cup Strangers : LoginBegin(r, e)
      BY <2>1
    <3>2. PICK q : q = [req[r] EXCEPT !.pc = "login.find", !.who = e]
      OBVIOUS
    <3>3. q.pc = "login.find"
      BY <1>0, <3>2 DEF Request
    <3> QED
      BY <1>2, <3>1, <3>2, <3>3 DEF LoginBegin
  <2>2. CASE \E t \in SessionIds \cup {NoSession} : RefreshBegin(r, t)
    <3>1. PICK t \in SessionIds \cup {NoSession} : RefreshBegin(r, t)
      BY <2>2
    <3>2. PICK q : q = [req[r] EXCEPT !.pc = "refresh.find", !.tok = t]
      OBVIOUS
    <3>3. q.pc = "refresh.find"
      BY <1>0, <3>2 DEF Request
    <3> QED
      BY <1>2, <3>1, <3>2, <3>3 DEF RefreshBegin
  <2>3. CASE \E a, t \in SessionIds \cup {NoSession} : LogoutBegin(r, a, t)
    <3>1. PICK a, t \in SessionIds \cup {NoSession} : LogoutBegin(r, a, t)
      BY <2>3
    <3>2. PICK c \in LogoutSteps :
            c = IF a # NoSession /\ age[a] = 0 THEN "logout.blacklist" ELSE "logout.find"
      BY DEF LogoutSteps
    <3>3. PICK q : q = [req[r] EXCEPT !.acc = a, !.tok = t, !.pc = c]
      OBVIOUS
    <3>4. q.pc = c
      BY <1>0, <3>3 DEF Request
    <3>5. Become(r, q)
      BY <3>1, <3>2, <3>3, Zenon DEF LogoutBegin
    <3> QED
      BY <1>2, <3>2, <3>4, <3>5
  <2> QED
    BY <1>10, <2>1, <2>2, <2>3 DEF Arrive
<1> QED
  BY <1>7, <1>8, <1>9, <1>10 DEF Proceed

(* What a step of the system does to one account, and to all requests. *)
LEMMA CheckedAll ==
  ASSUME IInv, [Next]_vars
  PROVE  \A r \in Requests : Checked(req[r], req'[r])
<1>1. CASE \E r \in Requests : Arrive(r) \/ Proceed(r) \/ Fail(r)
  <2>1. PICK r \in Requests : Arrive(r) \/ Proceed(r) \/ Fail(r)
    BY <1>1
  <2>2. PICK q : Become(r, q) /\ Checked(req[r], q)
    BY <2>1, CheckedStep
  <2>3. ASSUME NEW o \in Requests, o # r PROVE Checked(req[o], req'[o])
    BY <2>2, <2>3 DEF Become, IInv, Checked
  <2>4. Checked(req[r], req'[r])
    BY <2>2 DEF Become, IInv
  <2> QED
    BY <2>3, <2>4
<1>2. CASE UNCHANGED req
  BY <1>2 DEF Checked
<1> QED
  BY <1>1, <1>2 DEF Next, vars, Expire, BlacklistTtl

LEMMA UserEffects ==
  ASSUME IInv, [Next]_vars, NEW u \in Users
  PROVE  \/ user'[u] = user[u]
         \/ \E r \in Requests : PastLogin(req[r]) /\ req[r].who = u
<1>1. CASE \E r \in Requests : LoginStoreFailure(r) \/ LoginStoreSuccess(r)
  <2>1. PICK r \in Requests : LoginStoreFailure(r) \/ LoginStoreSuccess(r)
    BY <1>1
  <2>2. PastLogin(req[r]) /\ UpdateUser(r)
    BY <2>1 DEF LoginStoreFailure, LoginStoreSuccess, At, PastLogin
  <2> QED
    BY <2>2 DEF UpdateUser, IInv, SharedOK, SharedType
<1>2. CASE ~ \E r \in Requests : LoginStoreFailure(r) \/ LoginStoreSuccess(r)
  <2>1. UNCHANGED user
    BY <1>2 DEF Next, vars, Arrive, Proceed, LoginStep, RefreshStep, LogoutStep, Respond, Fail,
      LoginBegin, LoginFind, LoginRefuseLocked, LoginWrongPassword, LoginRightPassword,
      LoginSave, LoginDispatch, RefreshBegin, RefreshFind, RefreshReject, RefreshRejectRevoked,
      RefreshCheckUser, RefreshRevoke, RefreshSave, LogoutBegin, LogoutBlacklist, LogoutFind,
      LogoutRevoke, LogoutDispatch, Expire, BlacklistTtl
  <2> QED
    BY <2>1
<1> QED
  BY <1>1, <1>2

(***************************************************************************)
(* A locked account that no request has already passed stays locked and    *)
(* gets no new session, whatever arrives afterwards.                       *)
(***************************************************************************)
THEOREM LockFreezesAlways == Spec => LockFreezes
<1>1. ASSUME IInv, [Next]_vars, NEW u \in Users, Frozen(u)
      PROVE  Frozen(u)' /\ Live(u)' \subseteq Live(u)
  <2>1. user[u].locked /\ \A r \in Requests :
          PastLogin(req[r]) \/ PastRefresh(req[r]) => req[r].who # u
    BY <1>1 DEF Frozen, PastLoginCheck, PastRefreshCheck, At, PastLogin, PastRefresh
  <2>2. user'[u] = user[u]
    BY <1>1, <2>1, UserEffects
  <2>3. ASSUME NEW r \in Requests, PastLogin(req'[r]) \/ PastRefresh(req'[r])
        PROVE  req'[r].who # u
    <3>1. Checked(req[r], req'[r])
      BY <1>1, CheckedAll
    <3> QED
      BY <2>1, <2>3, <3>1 DEF Checked
  <2>4. Frozen(u)'
    BY <2>1, <2>2, <2>3 DEF Frozen, PastLoginCheck, PastRefreshCheck, At, PastLogin, PastRefresh
  <2>5. Live(u)' \subseteq Live(u)
    <3>0. session \in [SessionIds -> SessionRow]
      BY <1>1 DEF IInv, SharedOK, SharedType
    <3>1. CASE UNCHANGED session
      BY <3>1 DEF Live, IsLive
    <3>2. ASSUME NEW s \in SessionIds, SaveRevoked(s) PROVE Live(u)' \subseteq Live(u)
      BY <3>0, <3>2 DEF SaveRevoked, SessionRow, Live, IsLive
    <3>3. ASSUME NEW s \in SessionIds, NEW w, w # u, NEW p, SaveNew(s, w, p)
          PROVE  Live(u)' \subseteq Live(u)
      BY <3>0, <3>3 DEF SaveNew, Live, IsLive
    <3>4. ASSUME NEW r \in Requests, At(r, "login.save") \/ At(r, "refresh.save")
          PROVE  req[r].who # u
      BY <2>1, <3>4 DEF At, PastLogin, PastRefresh
    <3>5. SessionEffect
      BY <1>1, SessionEffects
    <3> QED
      BY <3>1, <3>2, <3>3, <3>4, <3>5 DEF SessionEffect
  <2> QED
    BY <2>4, <2>5
<1>2. IInv /\ [Next]_vars =>
        [\A u \in Users : Frozen(u) => Frozen(u)' /\ Live(u)' \subseteq Live(u)]_vars
  BY <1>1
<1> QED
  BY <1>2, Invariance, PTL DEF Spec, LockFreezes

(***************************************************************************)
(* A spent refresh token never becomes usable again and never gets a       *)
(* further successor.                                                      *)
(***************************************************************************)
THEOREM SpentMintsNothingEver == Spec => SpentMintsNothing
<1>1. ASSUME IInv, [Next]_vars, NEW p \in SessionIds, Spent(p)
      PROVE  Spent(p)' /\ Children(p)' = Children(p)
  <2>0. session \in [SessionIds -> SessionRow]
    BY <1>1 DEF IInv, SharedOK, SharedType
  <2>1. session[p].status = "revoked" /\
        \A r \in Requests : Reading(req[r]) => req[r].tok # p
    BY <1>1 DEF Spent, Revoked, ReadAsLive, Reading
  <2>2. ASSUME NEW r \in Requests, Reading(req'[r]) PROVE req'[r].tok # p
    <3>1. Checked(req[r], req'[r])
      BY <1>1, CheckedAll
    <3> QED
      BY <2>1, <2>2, <3>1 DEF Checked, IsLive
  <2>3. session'[p].status = "revoked" /\ Children(p)' = Children(p)
    <3>1. CASE UNCHANGED session
      BY <2>1, <3>1 DEF Children, Exists
    <3>2. ASSUME NEW s \in SessionIds, Exists(s), SaveRevoked(s)
          PROVE  session'[p].status = "revoked" /\ Children(p)' = Children(p)
      BY <2>0, <2>1, <3>2 DEF SaveRevoked, SessionRow, Children, Exists
    <3>3. ASSUME NEW s \in SessionIds, ~Exists(s), NEW w, NEW o, o # p, SaveNew(s, w, o)
          PROVE  session'[p].status = "revoked" /\ Children(p)' = Children(p)
      BY <2>0, <2>1, <3>3 DEF SaveNew, Children, Exists
    <3>4. ASSUME NEW r \in Requests, At(r, "refresh.save") PROVE req[r].tok # p
      BY <2>1, <3>4 DEF At, Reading
    <3>5. SessionEffect /\ p # NoSession
      BY <1>1, SessionEffects, DistinctAssumption
    <3> QED
      BY <3>1, <3>2, <3>3, <3>4, <3>5 DEF SessionEffect
  <2> QED
    BY <2>2, <2>3 DEF Spent, Revoked, ReadAsLive, Reading
<1>2. IInv /\ [Next]_vars =>
        [\A p \in SessionIds : Spent(p) => Spent(p)' /\ Children(p)' = Children(p)]_vars
  BY <1>1
<1> QED
  BY <1>2, Invariance, PTL DEF Spec, SpentMintsNothing
=============================================================================
