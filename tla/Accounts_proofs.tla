-------------------------- MODULE Accounts_proofs --------------------------
(***************************************************************************)
(* Proofs about Accounts, for any number of addresses, passwords, tokens   *)
(* and overlapping requests.                                               *)
(***************************************************************************)
EXTENDS Accounts, TLAPS

Finishes == {"register.assign", "register.token", "register.dispatch"}

(***************************************************************************)
(* What a request knows of the tables at each of its steps.                *)
(***************************************************************************)
RegisterLocals(q) ==
  /\ q.pc \in RegisterSteps => q.who \in Emails /\ q.pw \in Passwords
  /\ q.pc \in Finishes => Exists(q.who) /\ user[q.who].password = q.pw
  /\ q.pc \in {"register.token", "register.dispatch"} => user[q.who].role
  /\ q.pc = "register.dispatch" => \E t \in Tokens : Owns(q.who, "verify", t)

IssueLocals(q) ==
  /\ q.pc \in IssueSteps => q.who \in Emails
  /\ q.pc \in {"issue.save", "issue.mail"} => Exists(q.who)
  /\ q.pc = "issue.mail" => q.tok \in Tokens /\ Owns(q.who, q.kind, q.tok)
  /\ q.pc = "forgot.dispatch" =>
       q.tok \in Tokens /\ Owns(q.who, "reset", q.tok) /\ <<q.who, q.tok>> \in mailbox

UseLocals(q) == q.pc \in {"use.user", "use.save"} => q.who \in Emails

LocalOK(q) == RegisterLocals(q) /\ IssueLocals(q) /\ UseLocals(q)

(* Every stored token has an owner. *)
TokensOwned == \A t \in Tokens : Stored(t) => token[t].owner \in Emails

SharedType ==
  /\ seeded \in BOOLEAN
  /\ user \in [Emails -> Account]
  /\ token \in [Tokens -> TokenRow]
  /\ mailbox \subseteq Emails \X Tokens
  /\ audit \subseteq {"UserRegistered", "PasswordResetRequested"} \X Emails
  /\ answered \subseteq Emails \X Passwords
  /\ broken \subseteq Emails

SharedOK == SharedType /\ TokensOwned /\ AnsweredIsWhole /\ MailIsBacked /\ AuditTruthful

(* The inductive invariant. *)
IInv ==
  /\ SharedOK
  /\ HalfMadeByFailure
  /\ req \in [Requests -> Request]
  /\ \A r \in Requests : LocalOK(req[r])

(***************************************************************************)
(* No step takes back what a request or a client was told.                 *)
(***************************************************************************)
Grows ==
  /\ \A e \in Emails : Exists(e) => /\ Exists(e)'
                                    /\ user'[e].password = user[e].password
                                    /\ user[e].role => user'[e].role
  /\ \A t \in Tokens : Stored(t) => /\ Stored(t)'
                                    /\ token'[t].kind = token[t].kind
                                    /\ token'[t].owner = token[t].owner
  /\ mailbox \subseteq mailbox'

Shared == <<seeded, user, token, mailbox, audit, answered, broken>>

-----------------------------------------------------------------------------
LEMMA IdleOK == Idle \in Request /\ LocalOK(Idle)'
BY DEF Idle, Request, LocalOK, RegisterLocals, IssueLocals, UseLocals, Kinds,
       RegisterSteps, IssueSteps, UseSteps, Finishes

(* What a client was told of an address or a token stays so. *)
LEMMA WholeStable == ASSUME Grows, NEW e \in Emails, Whole(e) PROVE Whole(e)'
BY DEF Grows, Whole, Owns

LEMMA LocalStable ==
  ASSUME NEW q \in Request, LocalOK(q), Grows PROVE LocalOK(q)'
<1>1. RegisterLocals(q)'
  BY DEF LocalOK, RegisterLocals, RegisterSteps, Finishes, Grows, Owns
<1>2. IssueLocals(q)'
  BY DEF LocalOK, IssueLocals, IssueSteps, Grows, Owns, Request
<1>3. UseLocals(q)'
  BY DEF LocalOK, UseLocals
<1> QED
  BY <1>1, <1>2, <1>3 DEF LocalOK

(***************************************************************************)
(* Tables that only grow keep their invariants if what is new is right.    *)
(***************************************************************************)
LEMMA SharedStable ==
  ASSUME SharedOK, SharedType', TokensOwned', Grows,
         \A a \in answered' \ answered : Whole(a[1])' /\ user'[a[1]].password = a[2],
         \A m \in mailbox' \ mailbox : Exists(m[1])' /\ \E k \in Kinds : Owns(m[1], k, m[2])',
         \A e \in Emails : <<"UserRegistered", e>> \in audit' \ audit => Whole(e)',
         \A e \in Emails :
           <<"PasswordResetRequested", e>> \in audit' \ audit =>
             \E t \in Tokens : Owns(e, "reset", t)' /\ <<e, t>> \in mailbox'
  PROVE  SharedOK'
<1>1. \A e \in Emails, k \in Kinds, t \in Tokens : Owns(e, k, t) => Owns(e, k, t)'
  BY DEF Grows, Owns
<1>2. AnsweredIsWhole'
  <2> SUFFICES ASSUME NEW a \in answered'
               PROVE  Whole(a[1])' /\ user'[a[1]].password = a[2]
    BY DEF AnsweredIsWhole
  <2>1. CASE a \in answered
    <3>1. a[1] \in Emails /\ Whole(a[1]) /\ user[a[1]].password = a[2]
      BY <2>1 DEF SharedOK, SharedType, AnsweredIsWhole
    <3> QED
      BY <3>1, WholeStable DEF Whole, Grows
  <2> QED
    BY <2>1
<1>3. MailIsBacked'
  <2> SUFFICES ASSUME NEW m \in mailbox'
               PROVE  Exists(m[1])' /\ \E k \in Kinds : Owns(m[1], k, m[2])'
    BY DEF MailIsBacked
  <2>1. CASE m \in mailbox
    <3>1. m[1] \in Emails /\ m[2] \in Tokens /\ Exists(m[1]) /\ \E k \in Kinds : Owns(m[1], k, m[2])
      BY <2>1 DEF SharedOK, SharedType, MailIsBacked
    <3> QED
      BY <1>1, <3>1 DEF Grows
  <2> QED
    BY <2>1
<1>4. AuditTruthful'
  <2> SUFFICES ASSUME NEW e \in Emails
               PROVE  /\ <<"UserRegistered", e>> \in audit' => Whole(e)'
                      /\ <<"PasswordResetRequested", e>> \in audit' =>
                           \E t \in Tokens : Owns(e, "reset", t)' /\ <<e, t>> \in mailbox'
    BY DEF AuditTruthful
  <2>1. <<"UserRegistered", e>> \in audit' => Whole(e)'
    BY WholeStable DEF SharedOK, AuditTruthful
  <2>2. ASSUME <<"PasswordResetRequested", e>> \in audit
        PROVE  \E t \in Tokens : Owns(e, "reset", t)' /\ <<e, t>> \in mailbox'
    BY <1>1, <2>2 DEF SharedOK, AuditTruthful, Grows, Kinds
  <2> QED
    BY <2>1, <2>2
<1> QED
  BY <1>2, <1>3, <1>4 DEF SharedOK

(***************************************************************************)
(* A step of request r keeps the invariant if the tables stay well formed  *)
(* and only grow, r is right about them, and r does not leave an account   *)
(* half made.                                                              *)
(***************************************************************************)
LEMMA StepKeeps ==
  ASSUME IInv, SharedOK', Grows, broken \subseteq broken',
         NEW r \in Requests, NEW q \in Request, Become(r, q), LocalOK(q)',
         \A e \in Emails : Exists(e)' => Exists(e) \/ (q.who = e /\ q.pc \in Finishes),
         \A e \in Emails :
           req[r].pc \in Finishes /\ req[r].who = e =>
             (q.pc \in Finishes /\ q.who = e) \/ Whole(e)' \/ e \in broken'
  PROVE  IInv'
<1>1. req' \in [Requests -> Request]
  BY DEF IInv, Become
<1>2. ASSUME NEW p \in Requests PROVE LocalOK(req[p])'
  <2>1. CASE p = r
    BY <2>1 DEF IInv, Become
  <2>2. CASE p # r
    <3>1. req'[p] = req[p] /\ req[p] \in Request /\ LocalOK(req[p])
      BY <2>2 DEF IInv, Become
    <3> QED
      BY <3>1, LocalStable
  <2> QED
    BY <2>1, <2>2
<1>3. ASSUME NEW e \in Emails, Exists(e)' PROVE Whole(e)' \/ Finishing(e)' \/ e \in broken'
  <2>0. req'[r] = q
    BY DEF IInv, Become
  <2>1. CASE q.who = e /\ q.pc \in Finishes
    BY <2>0, <2>1 DEF Finishing, Finishes
  <2>2. CASE Exists(e)
    <3>1. Whole(e) \/ Finishing(e) \/ e \in broken
      BY <2>2 DEF IInv, HalfMadeByFailure
    <3>2. CASE Finishing(e)
      <4>1. PICK p \in Requests : req[p].who = e /\ req[p].pc \in Finishes
        BY <3>2 DEF Finishing, Finishes
      <4>2. CASE p = r
        BY <2>0, <4>1, <4>2 DEF Finishing, Finishes
      <4>3. CASE p # r
        <5>1. req'[p] = req[p]
          BY <4>3 DEF IInv, Become
        <5> QED
          BY <4>1, <5>1 DEF Finishing, Finishes
      <4> QED
        BY <4>2, <4>3
    <3> QED
      BY <3>1, <3>2, WholeStable
  <2> QED
    BY <1>3, <2>1, <2>2
<1> QED
  BY <1>1, <1>2, <1>3 DEF IInv, HalfMadeByFailure

(* A step that writes no table needs only what r knows after it. *)
LEMMA LocalStepKeeps ==
  ASSUME IInv, UNCHANGED Shared, NEW r \in Requests, NEW q \in Request, Become(r, q),
         LocalOK(q)',
         req[r].pc \notin Finishes \/ (q.pc \in Finishes /\ q.who = req[r].who)
  PROVE  IInv'
<1>1. Grows /\ broken \subseteq broken'
  BY DEF Shared, Grows, Exists, Stored
<1>2. SharedOK'
  <2>1. SharedOK /\ SharedType' /\ TokensOwned'
    BY DEF IInv, Shared, SharedOK, SharedType, TokensOwned, Stored
  <2> QED
    BY <1>1, <2>1, SharedStable DEF Shared
<1>3. \A e \in Emails : Exists(e)' => Exists(e)
  BY DEF Shared, Exists
<1> QED
  BY <1>1, <1>2, <1>3, StepKeeps

(* A request outside the end of a registration may stop anywhere. *)
LEMMA FinishKeeps ==
  ASSUME IInv, UNCHANGED Shared, NEW r \in Requests, Finish(r), req[r].pc \notin Finishes
  PROVE  IInv'
BY IdleOK, LocalStepKeeps DEF Finish

(***************************************************************************)
(* Saving a new token entity of an account.                                *)
(***************************************************************************)
LEMMA SaveTokenKeeps ==
  ASSUME SharedOK, NEW t \in Tokens, NEW k \in Kinds, NEW e \in Emails, SaveToken(t, k, e),
         UNCHANGED <<seeded, user, mailbox, audit, answered, broken>>
  PROVE  Grows /\ SharedOK' /\ Owns(e, k, t)'
<1>1. /\ ~Stored(t) /\ token' \in [Tokens -> TokenRow]
      /\ token'[t] = [status |-> "valid", kind |-> k, owner |-> e]
      /\ \A o \in Tokens \ {t} : token'[o] = token[o]
  BY DEF SaveToken, SharedOK, SharedType, TokenRow
<1>2. Grows
  BY <1>1 DEF Grows, Exists, Stored
<1>3. SharedOK'
  <2>1. SharedType' /\ TokensOwned'
    BY <1>1 DEF SharedOK, SharedType, TokensOwned, Stored
  <2> QED
    BY <1>2, <2>1, SharedStable
<1> QED
  BY <1>1, <1>2, <1>3 DEF Owns, Stored

(* A step of nobody's: the tables alone change, and no account is new. *)
LEMMA TableStepKeeps ==
  ASSUME IInv, SharedOK', Grows, UNCHANGED <<req, broken>>,
         \A e \in Emails : Exists(e)' => Exists(e)
  PROVE  IInv'
<1>1. ASSUME NEW r \in Requests PROVE LocalOK(req[r])'
  <2>1. req'[r] = req[r] /\ req[r] \in Request /\ LocalOK(req[r])
    BY DEF IInv
  <2> QED
    BY <2>1, LocalStable
<1>2. HalfMadeByFailure'
  BY WholeStable DEF IInv, HalfMadeByFailure, Finishing
<1> QED
  BY <1>1, <1>2 DEF IInv

-----------------------------------------------------------------------------
(* Registration *)

LEMMA RegisterReads ==
  ASSUME IInv, NEW r \in Requests,
         RegisterExists(r) \/ RegisterRole(r) \/ \E e \in Emails, p \in Passwords : RegisterBegin(r, e, p)
  PROVE  IInv'
<1> USE DEF At
<1>0. req[r] \in Request /\ LocalOK(req[r]) /\ req[r].pc \notin Finishes /\ UNCHANGED Shared
  BY DEF IInv, RegisterExists, RegisterRole, RegisterBegin, Finishes, Shared
<1>1. CASE Finish(r)
  BY <1>0, <1>1, FinishKeeps
<1>2. CASE ~Finish(r)
  <2>1. PICK q \in Request : Become(r, q) /\ q.pc \in {"register.exists", "register.role", "register.insert"}
                              /\ q.who \in Emails /\ q.pw \in Passwords
    <3>1. CASE \E e \in Emails, p \in Passwords : RegisterBegin(r, e, p)
      <4>1. PICK e \in Emails, p \in Passwords : RegisterBegin(r, e, p)
        BY <3>1
      <4>2. PICK q : q = [req[r] EXCEPT !.pc = "register.exists", !.who = e, !.pw = p]
        OBVIOUS
      <4>3. q \in Request /\ q.pc = "register.exists" /\ q.who = e /\ q.pw = p
        BY <1>0, <4>2 DEF Request, RegisterSteps
      <4> QED
        BY <4>1, <4>2, <4>3 DEF RegisterBegin
    <3>2. CASE RegisterExists(r)
      <4>1. PICK q : q = [req[r] EXCEPT !.pc = "register.role"]
        OBVIOUS
      <4>2. q \in Request /\ q.pc = "register.role" /\ q.who = req[r].who /\ q.pw = req[r].pw
        BY <1>0, <4>1 DEF Request, RegisterSteps
      <4>3. Become(r, q)
        BY <1>2, <3>2, <4>1 DEF RegisterExists, Goto
      <4> QED
        BY <1>0, <3>2, <4>2, <4>3 DEF RegisterExists, LocalOK, RegisterLocals, RegisterSteps
    <3>3. CASE RegisterRole(r)
      <4>1. PICK q : q = [req[r] EXCEPT !.pc = "register.insert"]
        OBVIOUS
      <4>2. q \in Request /\ q.pc = "register.insert" /\ q.who = req[r].who /\ q.pw = req[r].pw
        BY <1>0, <4>1 DEF Request, RegisterSteps
      <4>3. Become(r, q)
        BY <1>2, <3>3, <4>1 DEF RegisterRole, Goto
      <4> QED
        BY <1>0, <3>3, <4>2, <4>3 DEF RegisterRole, LocalOK, RegisterLocals, RegisterSteps
    <3> QED
      BY <3>1, <3>2, <3>3
  <2>2. LocalOK(q)'
    BY <2>1 DEF LocalOK, RegisterLocals, IssueLocals, UseLocals, RegisterSteps, IssueSteps, Finishes
  <2> QED
    BY <1>0, <2>1, <2>2, LocalStepKeeps
<1> QED
  BY <1>1, <1>2

LEMMA RegisterInsertKeeps == ASSUME IInv, NEW r \in Requests, RegisterInsert(r) PROVE IInv'
<1> USE DEF At
<1>0. /\ req[r] \in Request /\ req[r].pc = "register.insert"
      /\ req[r].who \in Emails /\ req[r].pw \in Passwords
  BY DEF IInv, RegisterInsert, LocalOK, RegisterLocals, RegisterSteps
<1>1. CASE InsertRefused(req[r].who) /\ Finish(r) /\ UNCHANGED user
  BY <1>0, <1>1, FinishKeeps DEF RegisterInsert, Shared, Finishes
<1>2. CASE InsertUser(req[r].who, req[r].pw) /\ Goto(r, "register.assign")
  <2> DEFINE e == req[r].who
  <2>1. PICK q : q = [req[r] EXCEPT !.pc = "register.assign"]
    OBVIOUS
  <2>2. q \in Request /\ q.pc = "register.assign" /\ q.who = req[r].who /\ q.pw = req[r].pw
    BY <1>0, <2>1 DEF Request, RegisterSteps
  <2>3. Become(r, q)
    BY <1>2, <2>1 DEF Goto
  <2>4. /\ ~Exists(e) /\ user' \in [Emails -> Account]
        /\ user'[e] = [exists |-> TRUE, password |-> q.pw, role |-> FALSE]
        /\ \A d \in Emails \ {e} : user'[d] = user[d]
    BY <1>0, <1>2, <2>2 DEF InsertUser, IInv, SharedOK, SharedType, Account
  <2>5. UNCHANGED <<seeded, token, mailbox, audit, answered, broken>>
    BY DEF RegisterInsert
  <2>6. Grows
    BY <2>4, <2>5 DEF Grows, Exists, Stored
  <2>7. SharedOK'
    <3>1. SharedType' /\ TokensOwned'
      BY <2>4, <2>5 DEF IInv, SharedOK, SharedType, TokensOwned, Stored
    <3> QED
      BY <2>5, <2>6, <3>1, SharedStable DEF IInv
  <2>8. LocalOK(q)'
    BY <1>0, <2>2, <2>4 DEF LocalOK, RegisterLocals, IssueLocals, UseLocals, RegisterSteps,
                            IssueSteps, Finishes, Exists
  <2>9. \A d \in Emails : Exists(d)' => Exists(d) \/ (q.who = d /\ q.pc \in Finishes)
    BY <2>2, <2>4 DEF Exists, Finishes
  <2> QED
    BY <1>0, <2>2, <2>3, <2>5, <2>6, <2>7, <2>8, <2>9, StepKeeps DEF Finishes
<1> QED
  BY <1>1, <1>2 DEF RegisterInsert

LEMMA RegisterAssignKeeps == ASSUME IInv, NEW r \in Requests, RegisterAssign(r) PROVE IInv'
<1> USE DEF At
<1> DEFINE e == req[r].who
<1>0. /\ req[r] \in Request /\ req[r].pc = "register.assign" /\ e \in Emails
      /\ req[r].pw \in Passwords /\ Exists(e) /\ user[e].password = req[r].pw
  BY DEF IInv, RegisterAssign, LocalOK, RegisterLocals, RegisterSteps, Finishes
<1>1. PICK q : q = [req[r] EXCEPT !.pc = "register.token"]
  OBVIOUS
<1>2. q \in Request /\ q.pc = "register.token" /\ q.who = req[r].who /\ q.pw = req[r].pw
  BY <1>0, <1>1 DEF Request, RegisterSteps
<1>3. Become(r, q) /\ UNCHANGED <<seeded, token, mailbox, audit, answered, broken>>
  BY <1>1 DEF RegisterAssign, Goto
<1>4. /\ user' \in [Emails -> Account]
      /\ user'[e].exists = user[e].exists /\ user'[e].password = user[e].password /\ user'[e].role = TRUE
      /\ \A d \in Emails \ {e} : user'[d] = user[d]
  BY <1>0 DEF RegisterAssign, IInv, SharedOK, SharedType, Account
<1>5. Grows
  BY <1>3, <1>4 DEF Grows, Exists, Stored
<1>6. SharedOK'
  <2>1. SharedType' /\ TokensOwned'
    BY <1>3, <1>4 DEF IInv, SharedOK, SharedType, TokensOwned, Stored
  <2> QED
    BY <1>3, <1>5, <2>1, SharedStable DEF IInv
<1>7. LocalOK(q)'
  BY <1>0, <1>2, <1>4 DEF LocalOK, RegisterLocals, IssueLocals, UseLocals, RegisterSteps,
                          IssueSteps, Finishes, Exists
<1>8. \A d \in Emails : Exists(d)' => Exists(d)
  BY <1>4 DEF Exists
<1> QED
  BY <1>0, <1>2, <1>3, <1>5, <1>6, <1>7, <1>8, StepKeeps DEF Finishes

LEMMA RegisterTokenKeeps == ASSUME IInv, NEW r \in Requests, RegisterToken(r) PROVE IInv'
<1> USE DEF At
<1>e. PICK e \in Emails : e = req[r].who
  BY DEF IInv, RegisterToken, LocalOK, RegisterLocals, RegisterSteps
<1>0. /\ req[r] \in Request /\ req[r].pc = "register.token"
      /\ req[r].pw \in Passwords /\ Exists(e) /\ user[e].password = req[r].pw /\ user[e].role
  BY <1>e DEF IInv, RegisterToken, LocalOK, RegisterLocals, RegisterSteps, Finishes
<1>1. PICK q : q = [req[r] EXCEPT !.pc = "register.dispatch"]
  OBVIOUS
<1>2. q \in Request /\ q.pc = "register.dispatch" /\ q.who = e /\ q.pw = req[r].pw
  BY <1>e, <1>0, <1>1 DEF Request, RegisterSteps
<1>3. Become(r, q) /\ UNCHANGED <<seeded, user, mailbox, audit, answered, broken>>
  BY <1>1 DEF RegisterToken, Goto
<1>4. PICK t \in Tokens : SaveToken(t, "verify", e)
  BY <1>e DEF RegisterToken
<1>5. Grows /\ SharedOK' /\ Owns(e, "verify", t)'
  BY <1>0, <1>3, <1>4, SaveTokenKeeps DEF IInv, Kinds
<1>6. LocalOK(q)'
  <2>1. Owns(q.who, "verify", t)'
    BY <1>2, <1>5
  <2> QED
    BY <1>0, <1>2, <1>3, <2>1 DEF LocalOK, RegisterLocals, IssueLocals, UseLocals, RegisterSteps,
                                  IssueSteps, Finishes, Exists
<1>7. \A d \in Emails : Exists(d)' => Exists(d)
  BY <1>3 DEF Exists
<1> QED
  BY <1>e, <1>0, <1>2, <1>3, <1>5, <1>6, <1>7, StepKeeps DEF Finishes

LEMMA RegisterDispatchKeeps == ASSUME IInv, NEW r \in Requests, RegisterDispatch(r) PROVE IInv'
<1> USE DEF At
<1>e. PICK e \in Emails : e = req[r].who
  BY DEF IInv, RegisterDispatch, LocalOK, RegisterLocals, RegisterSteps
<1>0. /\ req[r] \in Request /\ req[r].pc = "register.dispatch"
      /\ req[r].pw \in Passwords /\ Whole(e) /\ user[e].password = req[r].pw
  BY <1>e DEF IInv, RegisterDispatch, LocalOK, RegisterLocals, RegisterSteps, Finishes, Whole
<1>1. /\ Become(r, Idle) /\ UNCHANGED <<seeded, user, token, mailbox, broken>>
      /\ audit' = audit \cup {<<"UserRegistered", e>>}
      /\ answered' = answered \cup {<<e, req[r].pw>>}
  BY <1>e DEF RegisterDispatch, Finish
<1>2. Grows
  BY <1>1 DEF Grows, Exists, Stored
<1>3. Whole(e)'
  BY <1>0, <1>2, WholeStable
<1>4. SharedOK'
  <2>1. SharedType' /\ TokensOwned'
    BY <1>0, <1>1 DEF IInv, SharedOK, SharedType, TokensOwned, Stored
  <2>2. \A a \in answered' \ answered : Whole(a[1])' /\ user'[a[1]].password = a[2]
    BY <1>0, <1>1, <1>3
  <2>3. \A d \in Emails : <<"UserRegistered", d>> \in audit' \ audit => Whole(d)'
    BY <1>1, <1>3
  <2>4. \A d \in Emails : <<"PasswordResetRequested", d>> \notin audit' \ audit
    BY <1>1
  <2> QED
    BY <1>1, <1>2, <2>1, <2>2, <2>3, <2>4, SharedStable DEF IInv
<1>5. \A d \in Emails : Exists(d)' => Exists(d)
  BY <1>1 DEF Exists
<1> QED
  BY <1>e, <1>1, <1>2, <1>3, <1>4, <1>5, IdleOK, StepKeeps

-----------------------------------------------------------------------------
(* Mailed tokens *)

LEMMA IssueReads ==
  ASSUME IInv, NEW r \in Requests,
         \/ \E e \in Emails : ForgotBegin(r, e) \/ SendBegin(r, e)
         \/ ForgotFind(r) \/ SendFind(r)
  PROVE  IInv'
<1> USE DEF At
<1>0. req[r] \in Request /\ LocalOK(req[r]) /\ req[r].pc \notin Finishes /\ UNCHANGED Shared
  BY DEF IInv, ForgotBegin, SendBegin, ForgotFind, SendFind, FindAccount, Finishes, Shared
<1>1. CASE Finish(r)
  BY <1>0, <1>1, FinishKeeps
<1>2. CASE ~Finish(r)
  <2>1. PICK q \in Request : /\ Become(r, q) /\ q.who \in Emails
                             /\ q.pc \in {"forgot.find", "send.find", "issue.save"}
                             /\ q.pc = "issue.save" => Exists(q.who)
    <3>1. CASE \E e \in Emails : ForgotBegin(r, e) \/ SendBegin(r, e)
      <4>1. PICK e \in Emails : ForgotBegin(r, e) \/ SendBegin(r, e)
        BY <3>1
      <4>2. PICK q : /\ \/ q = [req[r] EXCEPT !.pc = "forgot.find", !.who = e, !.kind = "reset"]
                        \/ q = [req[r] EXCEPT !.pc = "send.find", !.who = e, !.kind = "verify"]
                     /\ Become(r, q)
        BY <4>1 DEF ForgotBegin, SendBegin
      <4>3. q \in Request /\ q.who = e /\ q.pc \in {"forgot.find", "send.find"}
        BY <1>0, <4>2 DEF Request, IssueSteps, Kinds
      <4> QED
        BY <4>2, <4>3
    <3>2. CASE ForgotFind(r) \/ SendFind(r)
      <4>1. PICK q : q = [req[r] EXCEPT !.pc = "issue.save"]
        OBVIOUS
      <4>2. q \in Request /\ q.pc = "issue.save" /\ q.who = req[r].who
        BY <1>0, <4>1 DEF Request, IssueSteps
      <4>3. Become(r, q) /\ Exists(req[r].who) /\ req[r].pc \in {"forgot.find", "send.find"}
        BY <1>2, <3>2, <4>1 DEF ForgotFind, SendFind, FindAccount, Goto
      <4> QED
        BY <1>0, <4>2, <4>3 DEF LocalOK, IssueLocals, IssueSteps
    <3> QED
      BY <1>2, <3>1, <3>2
  <2>2. LocalOK(q)'
    BY <1>0, <2>1 DEF LocalOK, RegisterLocals, IssueLocals, UseLocals, RegisterSteps, IssueSteps,
                      Finishes, Shared, Exists
  <2> QED
    BY <1>0, <2>1, <2>2, LocalStepKeeps
<1> QED
  BY <1>1, <1>2

LEMMA IssueSaveKeeps == ASSUME IInv, NEW r \in Requests, IssueSave(r) PROVE IInv'
<1> USE DEF At
<1> DEFINE e == req[r].who
<1>0. /\ req[r] \in Request /\ req[r].pc = "issue.save" /\ e \in Emails /\ Exists(e)
      /\ req[r].kind \in Kinds
  BY DEF IInv, IssueSave, LocalOK, IssueLocals, IssueSteps, Request
<1>1. PICK t \in Tokens : /\ SaveToken(t, req[r].kind, e)
                          /\ Become(r, [req[r] EXCEPT !.pc = "issue.mail", !.tok = t])
  BY DEF IssueSave
<1>2. PICK q : q = [req[r] EXCEPT !.pc = "issue.mail", !.tok = t]
  OBVIOUS
<1>3. /\ q \in Request /\ q.pc = "issue.mail" /\ q.who = req[r].who
      /\ q.kind = req[r].kind /\ q.tok = t
  BY <1>0, <1>2 DEF Request, IssueSteps
<1>4. Become(r, q) /\ UNCHANGED <<seeded, user, mailbox, audit, answered, broken>>
  BY <1>1, <1>2 DEF IssueSave
<1>5. PICK o \in Emails, k \in Kinds : o = e /\ k = req[r].kind
  BY <1>0
<1>6. Grows /\ SharedOK' /\ Owns(o, k, t)'
  BY <1>0, <1>1, <1>4, <1>5, SaveTokenKeeps DEF IInv
<1>7. LocalOK(q)'
  <2>1. q.who = o /\ q.kind = k
    BY <1>3, <1>5
  <2> QED
    BY <1>0, <1>3, <1>4, <1>5, <1>6, <2>1 DEF LocalOK, RegisterLocals, IssueLocals, UseLocals, RegisterSteps,
                                       IssueSteps, Finishes, Exists
<1>8. \A d \in Emails : Exists(d)' => Exists(d)
  BY <1>4 DEF Exists
<1> QED
  BY <1>0, <1>3, <1>4, <1>6, <1>7, <1>8, StepKeeps DEF Finishes

LEMMA IssueMailKeeps == ASSUME IInv, NEW r \in Requests, IssueMail(r) PROVE IInv'
<1> USE DEF At
<1>e. PICK e \in Emails, k \in Kinds, t \in Tokens :
        e = req[r].who /\ k = req[r].kind /\ t = req[r].tok
  BY DEF IInv, IssueMail, LocalOK, IssueLocals, IssueSteps, Request
<1>0. req[r] \in Request /\ req[r].pc = "issue.mail" /\ Exists(e) /\ Owns(e, k, t)
  BY <1>e DEF IInv, IssueMail, LocalOK, IssueLocals
<1>1. /\ mailbox' = mailbox \cup {<<e, t>>}
      /\ UNCHANGED <<seeded, user, token, audit, answered, broken>>
  BY <1>e DEF IssueMail
<1>2. Grows
  BY <1>1 DEF Grows, Exists, Stored
<1>3. Exists(e)' /\ Owns(e, k, t)'
  BY <1>0, <1>1 DEF Exists, Owns, Stored
<1>4. SharedOK'
  <2>1. SharedType' /\ TokensOwned'
    BY <1>1 DEF IInv, SharedOK, SharedType, TokensOwned, Stored
  <2>2. \A m \in mailbox' \ mailbox : Exists(m[1])' /\ \E j \in Kinds : Owns(m[1], j, m[2])'
    <3>1. \A m \in mailbox' \ mailbox : m[1] = e /\ m[2] = t
      BY <1>1
    <3> QED
      BY <1>3, <3>1
  <2> QED
    BY <1>1, <1>2, <2>1, <2>2, SharedStable DEF IInv
<1>5. \A d \in Emails : Exists(d)' => Exists(d)
  BY <1>1 DEF Exists
<1>6. CASE Finish(r)
  BY <1>0, <1>1, <1>2, <1>4, <1>5, <1>6, IdleOK, StepKeeps DEF Finish, Finishes
<1>7. CASE ~Finish(r)
  <2>1. PICK q : q = [req[r] EXCEPT !.pc = "forgot.dispatch"]
    OBVIOUS
  <2>2. q \in Request /\ q.pc = "forgot.dispatch" /\ q.who = e /\ q.tok = t
    BY <1>e, <1>0, <2>1 DEF Request, IssueSteps
  <2>3. Become(r, q) /\ k = "reset"
    BY <1>e, <1>7, <2>1 DEF IssueMail, Goto
  <2>4. LocalOK(q)'
    BY <1>1, <1>3, <2>2, <2>3 DEF LocalOK, RegisterLocals, IssueLocals, UseLocals, RegisterSteps,
                                  IssueSteps, Finishes
  <2> QED
    BY <1>0, <1>1, <1>2, <1>4, <1>5, <2>2, <2>3, <2>4, StepKeeps DEF Finishes
<1> QED
  BY <1>6, <1>7

LEMMA ForgotDispatchKeeps == ASSUME IInv, NEW r \in Requests, ForgotDispatch(r) PROVE IInv'
<1> USE DEF At
<1>e. PICK e \in Emails, t \in Tokens :
        e = req[r].who /\ Owns(e, "reset", t) /\ <<e, t>> \in mailbox
  BY DEF IInv, ForgotDispatch, LocalOK, IssueLocals, IssueSteps
<1>1. /\ audit' = audit \cup {<<"PasswordResetRequested", e>>} /\ Become(r, Idle)
      /\ UNCHANGED <<seeded, user, token, mailbox, answered, broken>>
      /\ req[r].pc \notin Finishes
  BY <1>e DEF ForgotDispatch, Finish, Finishes
<1>2. Grows
  BY <1>1 DEF Grows, Exists, Stored
<1>3. Owns(e, "reset", t)' /\ <<e, t>> \in mailbox'
  BY <1>e, <1>1 DEF Owns, Stored
<1>4. SharedOK'
  <2>1. SharedType' /\ TokensOwned'
    BY <1>1 DEF IInv, SharedOK, SharedType, TokensOwned, Stored
  <2>2. \A d \in Emails :
          /\ <<"UserRegistered", d>> \notin audit' \ audit
          /\ <<"PasswordResetRequested", d>> \in audit' \ audit => d = e
    BY <1>1
  <2>3. \A d \in Emails :
          <<"PasswordResetRequested", d>> \in audit' \ audit =>
            \E o \in Tokens : Owns(d, "reset", o)' /\ <<d, o>> \in mailbox'
    BY <1>3, <2>2
  <2> QED
    BY <1>1, <1>2, <2>1, <2>2, <2>3, SharedStable DEF IInv
<1>5. \A d \in Emails : Exists(d)' => Exists(d)
  BY <1>1 DEF Exists
<1> QED
  BY <1>1, <1>2, <1>4, <1>5, IdleOK, StepKeeps

LEMMA UseKeeps ==
  ASSUME IInv, NEW r \in Requests,
         \/ \E k \in Kinds, t \in Tokens \cup {NoToken} : UseBegin(r, k, t)
         \/ UseFind(r) \/ UseUser(r) \/ UseSave(r)
  PROVE  IInv'
<1> USE DEF At
<1>0. req[r] \in Request /\ LocalOK(req[r]) /\ req[r].pc \notin Finishes /\ UNCHANGED Shared
  BY DEF IInv, UseBegin, UseFind, UseUser, UseSave, Finishes, Shared
<1>1. CASE Finish(r)
  BY <1>0, <1>1, FinishKeeps
<1>2. CASE ~Finish(r)
  <2>1. PICK q \in Request : /\ Become(r, q) /\ q.pc \in UseSteps
                             /\ q.pc \in {"use.user", "use.save"} => q.who \in Emails
    <3>1. CASE \E k \in Kinds, t \in Tokens \cup {NoToken} : UseBegin(r, k, t)
      <4>1. PICK k \in Kinds, t \in Tokens \cup {NoToken} : UseBegin(r, k, t)
        BY <3>1
      <4>2. PICK q : q = [req[r] EXCEPT !.pc = "use.find", !.kind = k, !.tok = t]
        OBVIOUS
      <4>3. q \in Request /\ q.pc = "use.find" /\ Become(r, q)
        BY <1>0, <4>1, <4>2 DEF UseBegin, Request, UseSteps
      <4> QED
        BY <4>3 DEF UseSteps
    <3>2. CASE UseFind(r)
      <4>1. Usable(req[r].kind, req[r].tok)
        BY <1>2, <3>2 DEF UseFind
      <4>2. req[r].tok \in Tokens /\ token[req[r].tok].owner \in Emails
        BY <1>0, <4>1 DEF Usable, Request, IInv, SharedOK, TokensOwned
      <4>3. PICK q : q = [req[r] EXCEPT !.pc = "use.user", !.who = token[req[r].tok].owner]
        OBVIOUS
      <4>4. q \in Request /\ q.pc = "use.user" /\ q.who \in Emails
        BY <1>0, <4>2, <4>3 DEF Request, UseSteps
      <4>5. Become(r, q)
        BY <1>2, <3>2, <4>3 DEF UseFind
      <4> QED
        BY <4>4, <4>5 DEF UseSteps
    <3>3. CASE UseUser(r)
      <4>1. PICK q : q = [req[r] EXCEPT !.pc = "use.save"]
        OBVIOUS
      <4>2. q \in Request /\ q.pc = "use.save" /\ q.who = req[r].who
        BY <1>0, <4>1 DEF Request, UseSteps
      <4>3. Become(r, q) /\ req[r].who \in Emails
        BY <1>0, <1>2, <3>3, <4>1 DEF UseUser, Goto, LocalOK, UseLocals
      <4> QED
        BY <4>2, <4>3 DEF UseSteps
    <3> QED
      BY <1>2, <3>1, <3>2, <3>3 DEF UseSave
  <2>2. LocalOK(q)'
    BY <2>1 DEF LocalOK, RegisterLocals, IssueLocals, UseLocals, UseSteps, RegisterSteps,
                IssueSteps, Finishes
  <2> QED
    BY <1>0, <2>1, <2>2, LocalStepKeeps
<1> QED
  BY <1>1, <1>2

-----------------------------------------------------------------------------
(* Failure and time *)

(* A registration that fails after its INSERT leaves its address in broken. *)
LEMMA FailKeeps == ASSUME IInv, NEW r \in Requests, Fail(r) PROVE IInv'
<1>1. /\ Become(r, Idle) /\ UNCHANGED <<seeded, user, token, mailbox, audit, answered>>
      /\ broken \subseteq broken'
      /\ req[r].pc \in Finishes => req[r].who \in broken'
      /\ broken' \subseteq broken \cup {req[r].who}
      /\ broken' # broken => req[r].pc \in Finishes
  BY DEF Fail, Finish, Finishes
<1>2. req[r].pc \in Finishes => req[r].who \in Emails
  BY DEF IInv, LocalOK, RegisterLocals, RegisterSteps, Finishes
<1>3. Grows
  BY <1>1 DEF Grows, Exists, Stored
<1>4. SharedOK'
  <2>1. SharedType' /\ TokensOwned'
    BY <1>1, <1>2 DEF IInv, SharedOK, SharedType, TokensOwned, Stored
  <2> QED
    BY <1>1, <1>3, <2>1, SharedStable DEF IInv
<1>5. \A d \in Emails : Exists(d)' => Exists(d)
  BY <1>1 DEF Exists
<1> QED
  BY <1>1, <1>3, <1>4, <1>5, IdleOK, StepKeeps

LEMMA ExpireKeeps == ASSUME IInv, NEW t \in Tokens, ExpireToken(t) PROVE IInv'
<1>1. /\ token' \in [Tokens -> TokenRow]
      /\ \A o \in Tokens : token'[o].kind = token[o].kind /\ token'[o].owner = token[o].owner
      /\ \A o \in Tokens : Stored(o)' <=> Stored(o)
  BY DEF ExpireToken, IInv, SharedOK, SharedType, TokenRow, Stored
<1>2. UNCHANGED <<seeded, user, mailbox, audit, answered, broken, req>>
  BY DEF ExpireToken
<1>3. Grows
  BY <1>1, <1>2 DEF Grows, Exists
<1>4. SharedOK'
  <2>1. SharedType' /\ TokensOwned'
    BY <1>1, <1>2 DEF IInv, SharedOK, SharedType, TokensOwned
  <2> QED
    BY <1>2, <1>3, <2>1, SharedStable DEF IInv
<1> QED
  BY <1>2, <1>3, <1>4, TableStepKeeps DEF Exists

LEMMA SeedKeeps == ASSUME IInv, SeedRole PROVE IInv'
<1>1. seeded' \in BOOLEAN /\ UNCHANGED <<user, token, mailbox, audit, answered, broken, req>>
  BY DEF SeedRole
<1>2. Grows
  BY <1>1 DEF Grows, Exists, Stored
<1>3. SharedOK'
  <2>1. SharedType' /\ TokensOwned'
    BY <1>1 DEF IInv, SharedOK, SharedType, TokensOwned, Stored
  <2> QED
    BY <1>1, <1>2, <2>1, SharedStable DEF IInv
<1> QED
  BY <1>1, <1>2, <1>3, TableStepKeeps DEF Exists

-----------------------------------------------------------------------------
LEMMA InitInv == Init => IInv
<1> SUFFICES ASSUME Init PROVE IInv
  OBVIOUS
<1>1. SharedOK
  BY DEF Init, SharedOK, SharedType, TokensOwned, AnsweredIsWhole, MailIsBacked, AuditTruthful,
         Account, NoAccount, TokenRow, NoRow, Kinds, Stored
<1>2. HalfMadeByFailure
  BY DEF Init, HalfMadeByFailure, Exists, NoAccount
<1>3. ASSUME NEW r \in Requests PROVE req[r] \in Request /\ LocalOK(req[r])
  BY DEF Init, Idle, Request, LocalOK, RegisterLocals, IssueLocals, UseLocals, Kinds,
         RegisterSteps, IssueSteps, UseSteps, Finishes
<1>4. req \in [Requests -> Request]
  BY <1>3 DEF Init
<1> QED
  BY <1>1, <1>2, <1>3, <1>4 DEF IInv

LEMMA NextInv == ASSUME IInv, [Next]_vars PROVE IInv'
<1>1. ASSUME NEW r \in Requests, Arrive(r) PROVE IInv'
  BY <1>1, RegisterReads, IssueReads, UseKeeps DEF Arrive
<1>2. ASSUME NEW r \in Requests, Proceed(r) PROVE IInv'
  BY <1>2, RegisterReads, RegisterInsertKeeps, RegisterAssignKeeps, RegisterTokenKeeps,
     RegisterDispatchKeeps, IssueReads, IssueSaveKeeps, IssueMailKeeps, ForgotDispatchKeeps,
     UseKeeps DEF Proceed
<1>3. ASSUME NEW r \in Requests, Fail(r) PROVE IInv'
  BY <1>3, FailKeeps
<1>4. ASSUME NEW t \in Tokens, ExpireToken(t) PROVE IInv'
  BY <1>4, ExpireKeeps
<1>5. CASE SeedRole
  BY <1>5, SeedKeeps
<1>6. CASE UNCHANGED vars
  <2>1. UNCHANGED Shared /\ req' = req
    BY <1>6 DEF vars, Shared
  <2>2. Grows /\ SharedType' /\ TokensOwned'
    BY <2>1 DEF Shared, Grows, Exists, Stored, IInv, SharedOK, SharedType, TokensOwned
  <2>3. SharedOK'
    BY <2>1, <2>2, SharedStable DEF Shared, IInv
  <2> QED
    BY <2>1, <2>2, <2>3, TableStepKeeps DEF Shared, Exists
<1> QED
  BY <1>1, <1>2, <1>3, <1>4, <1>5, <1>6 DEF Next

(***************************************************************************)
(* The inductive invariant holds in every reachable state.                 *)
(***************************************************************************)
THEOREM Invariance == Spec => []IInv
BY InitInv, NextInv, PTL DEF Spec

(***************************************************************************)
(* The tables and the requests have their types.                           *)
(***************************************************************************)
THEOREM TypeCorrect == Spec => []TypeOK
<1>1. IInv => TypeOK
  BY DEF IInv, SharedOK, SharedType, TypeOK
<1> QED
  BY <1>1, Invariance, PTL

(***************************************************************************)
(* A registration that was answered with 201 is whole and has the password *)
(* of its own request.                                                     *)
(***************************************************************************)
THEOREM AnsweredIsWholeHolds == Spec => []AnsweredIsWhole
<1>1. IInv => AnsweredIsWhole
  BY DEF IInv, SharedOK
<1> QED
  BY <1>1, Invariance, PTL

(***************************************************************************)
(* An account is half made only while its registration runs or once it     *)
(* failed.                                                                 *)
(***************************************************************************)
THEOREM HalfMadeByFailureHolds == Spec => []HalfMadeByFailure
<1>1. IInv => HalfMadeByFailure
  BY DEF IInv
<1> QED
  BY <1>1, Invariance, PTL

(***************************************************************************)
(* Every mailed token is stored and its receiver's.                        *)
(***************************************************************************)
THEOREM MailIsBackedHolds == Spec => []MailIsBacked
<1>1. IInv => MailIsBacked
  BY DEF IInv, SharedOK
<1> QED
  BY <1>1, Invariance, PTL

(***************************************************************************)
(* The audit log reports whole registrations and mailed resets only.       *)
(***************************************************************************)
THEOREM AuditTruthfulHolds == Spec => []AuditTruthful
<1>1. IInv => AuditTruthful
  BY DEF IInv, SharedOK
<1> QED
  BY <1>1, Invariance, PTL

(***************************************************************************)
(* No registration changes the password of an account that exists.         *)
(***************************************************************************)
THEOREM PasswordKeptAlways == Spec => PasswordKept
<1> DEFINE Kept(e) == Exists(e)' /\ user'[e].password = user[e].password
           KeptByAll == \A r \in Requests, e \in Emails :
                          req[r].pc \in RegisterSteps /\ req'[r] # req[r] /\ Exists(e) => Kept(e)
<1>1. ASSUME IInv, [Next]_vars, NEW r \in Requests, NEW e \in Emails,
             req[r].pc \in RegisterSteps, req'[r] # req[r], Exists(e)
      PROVE  Kept(e)
  <2>1. user \in [Emails -> Account] /\ req[r].pc # "idle"
    BY <1>1 DEF IInv, SharedOK, SharedType, RegisterSteps
  <2>2. ASSUME NEW q \in Requests, Arrive(q) \/ Proceed(q) \/ Fail(q) PROVE q = r
    <3>1. req \in [Requests -> Request]
      BY <1>1 DEF IInv
    <3>2. \E row : Become(q, row)
      <4>1. CASE Arrive(q)
        BY <4>1 DEF Arrive, RegisterBegin, ForgotBegin, SendBegin, UseBegin
      <4>2. CASE Fail(q)
        BY <4>2 DEF Fail, Finish
      <4>3. CASE Proceed(q)
        BY <4>3 DEF Proceed, RegisterExists, RegisterRole, RegisterInsert, RegisterAssign,
             RegisterToken, RegisterDispatch, ForgotFind, SendFind, FindAccount, IssueSave,
             IssueMail, ForgotDispatch, UseFind, UseUser, UseSave, Goto, Finish
      <4> QED
        BY <2>2, <4>1, <4>2, <4>3
    <3> QED
      BY <1>1, <3>1, <3>2 DEF Become
  <2>3. ~(SeedRole \/ UNCHANGED vars \/ \E t \in Tokens : ExpireToken(t))
    BY <1>1 DEF SeedRole, vars, ExpireToken
  <2>4. Arrive(r) \/ Proceed(r) \/ Fail(r)
    BY <1>1, <2>2, <2>3 DEF Next
  <2>5. CASE RegisterInsert(r)
    BY <1>1, <2>1, <2>5 DEF RegisterInsert, InsertUser, Exists
  <2>6. CASE RegisterAssign(r)
    BY <1>1, <2>1, <2>6 DEF RegisterAssign, Exists, Account
  <2>7. CASE RegisterExists(r) \/ RegisterRole(r) \/ RegisterToken(r) \/ RegisterDispatch(r) \/ Fail(r)
    BY <1>1, <2>7 DEF RegisterExists, RegisterRole, RegisterToken, RegisterDispatch, Fail, Exists
  <2>8. ~Arrive(r)
    BY <2>1 DEF Arrive, RegisterBegin, ForgotBegin, SendBegin, UseBegin, At
  <2>9. ~(ForgotFind(r) \/ SendFind(r) \/ IssueSave(r) \/ IssueMail(r) \/ ForgotDispatch(r)
          \/ UseFind(r) \/ UseUser(r) \/ UseSave(r))
    BY <1>1 DEF ForgotFind, SendFind, FindAccount, IssueSave, IssueMail, ForgotDispatch,
                UseFind, UseUser, UseSave, At, RegisterSteps
  <2> QED
    BY <2>4, <2>5, <2>6, <2>7, <2>8, <2>9 DEF Proceed
<1>2. IInv /\ [Next]_vars => [KeptByAll]_vars
  BY <1>1
<1> QED
  BY <1>2, Invariance, PTL DEF Spec, PasswordKept
=============================================================================
