------------------------------ MODULE Accounts ------------------------------
(***************************************************************************)
(* Registration and the one-time tokens of the identity service            *)
(* (RegisterUserService, ForgotPasswordService, ResetPasswordService,      *)
(* SendVerificationEmailService, VerifyEmailService) over the users table, *)
(* the two token tables and the mailer.                                    *)
(*                                                                         *)
(* As in AuthSessions, a request runs from one await to the next.  No      *)
(* service deletes or renames a user, so a user is named by the e-mail     *)
(* address that the users table keeps unique.  A raw token and its hash    *)
(* are one value; both tables have the same columns and repository code,   *)
(* and are one table here whose rows know their kind.                      *)
(***************************************************************************)
EXTENDS Naturals, FiniteSets

CONSTANTS
  Emails,       \* addresses people register
  Passwords,    \* passwords people choose
  Tokens,       \* bound: the random tokens a run may draw
  Requests,     \* bound: how many requests are served at the same time
  CanFail,      \* the request slots whose next await may fail
  NoEmail, NoPassword, NoToken

ASSUME NamesAssumption ==
  /\ NoEmail \notin Emails
  /\ NoPassword \notin Passwords
  /\ NoToken \notin Tokens
  /\ CanFail \subseteq Requests

VARIABLES
  seeded,       \* the roles table has the role 'user'; nothing in the service creates it
  user,         \* users table, with whether user_roles gives the account its role
  token,        \* the reset and verification token tables
  mailbox,      \* <<address, token>> of the mails sent
  audit,        \* <<event, address>> of the audit_events table
  answered,     \* <<address, password>> of the registrations answered with 201
  broken,       \* history: addresses whose registration failed after its INSERT
  req           \* the requests being served

vars == <<seeded, user, token, mailbox, audit, answered, broken, req>>

-----------------------------------------------------------------------------
Kinds == {"reset", "verify"}

Account == [exists : BOOLEAN, password : Passwords \cup {NoPassword}, role : BOOLEAN]
TokenRow == [status : {"absent", "valid", "expired"}, kind : Kinds, owner : Emails \cup {NoEmail}]

RegisterSteps == {"register.exists", "register.role", "register.insert", "register.assign",
                  "register.token", "register.dispatch"}
IssueSteps    == {"forgot.find", "send.find", "issue.save", "issue.mail", "forgot.dispatch"}
UseSteps      == {"use.find", "use.user", "use.save"}

(* A request's locals: the account, the password, the kind of token and the token itself. *)
Request == [pc   : RegisterSteps \cup IssueSteps \cup UseSteps \cup {"idle"},
            who  : Emails \cup {NoEmail},
            pw   : Passwords \cup {NoPassword},
            kind : Kinds,
            tok  : Tokens \cup {NoToken}]

NoAccount == [exists |-> FALSE, password |-> NoPassword, role |-> FALSE]
NoRow == [status |-> "absent", kind |-> "reset", owner |-> NoEmail]
Idle == [pc |-> "idle", who |-> NoEmail, pw |-> NoPassword, kind |-> "reset", tok |-> NoToken]

TypeOK ==
  /\ seeded \in BOOLEAN
  /\ user \in [Emails -> Account]
  /\ token \in [Tokens -> TokenRow]
  /\ mailbox \subseteq Emails \X Tokens
  /\ audit \subseteq {"UserRegistered", "PasswordResetRequested"} \X Emails
  /\ answered \subseteq Emails \X Passwords
  /\ broken \subseteq Emails
  /\ req \in [Requests -> Request]

Init ==
  /\ seeded = FALSE
  /\ user = [e \in Emails |-> NoAccount]
  /\ token = [t \in Tokens |-> NoRow]
  /\ mailbox = {}
  /\ audit = {}
  /\ answered = {}
  /\ broken = {}
  /\ req = [r \in Requests |-> Idle]

-----------------------------------------------------------------------------
At(r, step)   == req[r].pc = step
Become(r, q)  == req' = [req EXCEPT ![r] = q]
Goto(r, step) == Become(r, [req[r] EXCEPT !.pc = step])
Finish(r)     == Become(r, Idle)

Exists(e) == user[e].exists
Stored(t) == token[t].status # "absent"
Owns(e, k, t) == Stored(t) /\ token[t].kind = k /\ token[t].owner = e

(* Bound: a request that draws a token starts only when one is left for it. *)
Drawing == RegisterSteps \cup {"forgot.find", "send.find", "issue.save"}
RoomForToken ==
  Cardinality({t \in Tokens : ~Stored(t)}) > Cardinality({r \in Requests : req[r].pc \in Drawing})

(***************************************************************************)
(* PrismaUserRepository.save is an INSERT: it fails for a row that is      *)
(* there already, by id or by e-mail, and never updates one.               *)
(***************************************************************************)
InsertUser(e, p) ==
  /\ ~Exists(e)
  /\ user' = [user EXCEPT ![e] = [exists |-> TRUE, password |-> p, role |-> FALSE]]

InsertRefused(e) == Exists(e)

(* save of a new token entity: the upsert's create arm. *)
SaveToken(t, k, e) ==
  /\ ~Stored(t)
  /\ token' = [token EXCEPT ![t] = [status |-> "valid", kind |-> k, owner |-> e]]

-----------------------------------------------------------------------------
(* RegisterUserService.execute                                             *)

(* The address is well-formed and the password meets the policy. *)
RegisterBegin(r, e, p) ==
  /\ At(r, "idle")
  /\ RoomForToken
  /\ Become(r, [req[r] EXCEPT !.pc = "register.exists", !.who = e, !.pw = p])
  /\ UNCHANGED <<seeded, user, token, mailbox, audit, answered, broken>>

(* 'Email is already registered' *)
RegisterExists(r) ==
  /\ At(r, "register.exists")
  /\ IF Exists(req[r].who) THEN Finish(r) ELSE Goto(r, "register.role")
  /\ UNCHANGED <<seeded, user, token, mailbox, audit, answered, broken>>

(* 'Default role not found', or the password is hashed. *)
RegisterRole(r) ==
  /\ At(r, "register.role")
  /\ IF seeded THEN Goto(r, "register.insert") ELSE Finish(r)
  /\ UNCHANGED <<seeded, user, token, mailbox, audit, answered, broken>>

(* Mutant: save upserts, as the other repositories do. *)
RegisterUpsert(r) ==
  /\ At(r, "register.insert")
  /\ user' = [user EXCEPT ![req[r].who] =
                [exists |-> TRUE, password |-> req[r].pw, role |-> user[req[r].who].role]]
  /\ Goto(r, "register.assign")
  /\ UNCHANGED <<seeded, token, mailbox, audit, answered, broken>>

(* The unique e-mail column decides between overlapping registrations. *)
RegisterInsert(r) ==
  /\ At(r, "register.insert")
  /\ \/ InsertUser(req[r].who, req[r].pw) /\ Goto(r, "register.assign")
     \/ InsertRefused(req[r].who) /\ Finish(r) /\ UNCHANGED user
  /\ UNCHANGED <<seeded, token, mailbox, audit, answered, broken>>

(* Mutant: the role is not assigned. *)
RegisterAssignLost(r) ==
  /\ At(r, "register.assign")
  /\ Goto(r, "register.token")
  /\ UNCHANGED <<seeded, user, token, mailbox, audit, answered, broken>>

RegisterAssign(r) ==
  /\ At(r, "register.assign")
  /\ user' = [user EXCEPT ![req[r].who].role = TRUE]
  /\ Goto(r, "register.token")
  /\ UNCHANGED <<seeded, token, mailbox, audit, answered, broken>>

(* The raw token is dropped: nobody is mailed. *)
RegisterToken(r) ==
  /\ At(r, "register.token")
  /\ \E t \in Tokens : SaveToken(t, "verify", req[r].who)
  /\ Goto(r, "register.dispatch")
  /\ UNCHANGED <<seeded, user, mailbox, audit, answered, broken>>

(* UserRegistered, and 201. *)
RegisterDispatch(r) ==
  /\ At(r, "register.dispatch")
  /\ audit' = audit \cup {<<"UserRegistered", req[r].who>>}
  /\ answered' = answered \cup {<<req[r].who, req[r].pw>>}
  /\ Finish(r)
  /\ UNCHANGED <<seeded, user, token, mailbox, broken>>

-----------------------------------------------------------------------------
(* ForgotPasswordService.execute, SendVerificationEmailService.execute     *)

ForgotBegin(r, e) ==
  /\ At(r, "idle")
  /\ RoomForToken
  /\ Become(r, [req[r] EXCEPT !.pc = "forgot.find", !.who = e, !.kind = "reset"])
  /\ UNCHANGED <<seeded, user, token, mailbox, audit, answered, broken>>

SendBegin(r, e) ==
  /\ At(r, "idle")
  /\ RoomForToken
  /\ Become(r, [req[r] EXCEPT !.pc = "send.find", !.who = e, !.kind = "verify"])
  /\ UNCHANGED <<seeded, user, token, mailbox, audit, answered, broken>>

(***************************************************************************)
(* An address without an account is answered like one with an account.  No *)
(* row's emailVerified ever becomes true, so 'already verified' is never   *)
(* met.                                                                    *)
(***************************************************************************)
FindAccount(r, step) ==
  /\ At(r, step)
  /\ IF Exists(req[r].who) THEN Goto(r, "issue.save") ELSE Finish(r)
  /\ UNCHANGED <<seeded, user, token, mailbox, audit, answered, broken>>

ForgotFind(r) == FindAccount(r, "forgot.find")
SendFind(r)   == FindAccount(r, "send.find")

(* Mutants: what is mailed was never drawn, or never saved. *)
IssueUndrawn(r) ==
  /\ At(r, "issue.save")
  /\ Goto(r, "issue.mail")
  /\ UNCHANGED <<seeded, user, token, mailbox, audit, answered, broken>>

IssueUnsaved(r) ==
  /\ At(r, "issue.save")
  /\ \E t \in Tokens :
       ~Stored(t) /\ Become(r, [req[r] EXCEPT !.pc = "issue.mail", !.tok = t])
  /\ UNCHANGED <<seeded, user, token, mailbox, audit, answered, broken>>

IssueSave(r) ==
  /\ At(r, "issue.save")
  /\ \E t \in Tokens :
       /\ SaveToken(t, req[r].kind, req[r].who)
       /\ Become(r, [req[r] EXCEPT !.pc = "issue.mail", !.tok = t])
  /\ UNCHANGED <<seeded, user, mailbox, audit, answered, broken>>

(* Mutant: a reset is dispatched, and not mailed. *)
IssueUnmailed(r) ==
  /\ At(r, "issue.mail")
  /\ IF req[r].kind = "reset" THEN Goto(r, "forgot.dispatch") ELSE Finish(r)
  /\ UNCHANGED <<seeded, user, token, mailbox, audit, answered, broken>>

(* A verification ends here; a reset dispatches its event. *)
IssueMail(r) ==
  /\ At(r, "issue.mail")
  /\ mailbox' = mailbox \cup {<<req[r].who, req[r].tok>>}
  /\ IF req[r].kind = "reset" THEN Goto(r, "forgot.dispatch") ELSE Finish(r)
  /\ UNCHANGED <<seeded, user, token, audit, answered, broken>>

ForgotDispatch(r) ==
  /\ At(r, "forgot.dispatch")
  /\ audit' = audit \cup {<<"PasswordResetRequested", req[r].who>>}
  /\ Finish(r)
  /\ UNCHANGED <<seeded, user, token, mailbox, answered, broken>>

-----------------------------------------------------------------------------
(* ResetPasswordService.execute, VerifyEmailService.execute                *)

(* A client presents a token it was mailed, or one that was never issued. *)
UseBegin(r, k, t) ==
  /\ At(r, "idle")
  /\ t # NoToken => \E e \in Emails : <<e, t>> \in mailbox
  /\ Become(r, [req[r] EXCEPT !.pc = "use.find", !.kind = k, !.tok = t])
  /\ UNCHANGED <<seeded, user, token, mailbox, audit, answered, broken>>

Usable(k, t) ==
  /\ t # NoToken
  /\ Stored(t) /\ token[t].kind = k /\ token[t].status # "expired"

(* 'Invalid or expired token' unless the kind's own table has it, still valid. *)
UseFind(r) ==
  /\ At(r, "use.find")
  /\ \/ /\ Usable(req[r].kind, req[r].tok)
        /\ Become(r, [req[r] EXCEPT !.pc = "use.user", !.who = token[req[r].tok].owner])
     \/ /\ ~Usable(req[r].kind, req[r].tok)
        /\ Finish(r)
  /\ UNCHANGED <<seeded, user, token, mailbox, audit, answered, broken>>

(* findById, and for a reset the new password's hash; its policy check is not looked at. *)
UseUser(r) ==
  /\ At(r, "use.user")
  /\ IF Exists(req[r].who) THEN Goto(r, "use.save") ELSE Finish(r)
  /\ UNCHANGED <<seeded, user, token, mailbox, audit, answered, broken>>

(***************************************************************************)
(* Both services hand the loaded user to save, the INSERT.  The row is     *)
(* there, so it throws and the request ends with 500: markAsUsed, delete,  *)
(* the revocation of sessions and the events behind it are never reached   *)
(* and are no actions here.                                                *)
(***************************************************************************)
UseSave(r) ==
  /\ At(r, "use.save")
  /\ InsertRefused(req[r].who)
  /\ Finish(r)
  /\ UNCHANGED <<seeded, user, token, mailbox, audit, answered, broken>>

-----------------------------------------------------------------------------
(* The awaited call of a request throws, or its process dies. *)
Fail(r) ==
  /\ r \in CanFail
  /\ ~At(r, "idle")
  /\ broken' = IF req[r].pc \in {"register.assign", "register.token", "register.dispatch"}
               THEN broken \cup {req[r].who} ELSE broken
  /\ Finish(r)
  /\ UNCHANGED <<seeded, user, token, mailbox, audit, answered>>

ExpireToken(t) ==
  /\ token[t].status = "valid"
  /\ token' = [token EXCEPT ![t].status = "expired"]
  /\ UNCHANGED <<seeded, user, mailbox, audit, answered, broken, req>>

(* An operator puts the default role into the roles table. *)
SeedRole ==
  /\ ~seeded
  /\ seeded' = TRUE
  /\ UNCHANGED <<user, token, mailbox, audit, answered, broken, req>>

-----------------------------------------------------------------------------
Arrive(r) ==
  \/ \E e \in Emails, p \in Passwords : RegisterBegin(r, e, p)
  \/ \E e \in Emails : ForgotBegin(r, e) \/ SendBegin(r, e)
  \/ \E k \in Kinds, t \in Tokens \cup {NoToken} : UseBegin(r, k, t)

Proceed(r) ==
  \/ RegisterExists(r) \/ RegisterRole(r) \/ RegisterInsert(r) \/ RegisterAssign(r)
  \/ RegisterToken(r) \/ RegisterDispatch(r)
  \/ ForgotFind(r) \/ SendFind(r) \/ IssueSave(r) \/ IssueMail(r) \/ ForgotDispatch(r)
  \/ UseFind(r) \/ UseUser(r) \/ UseSave(r)

Next ==
  \/ \E r \in Requests : Arrive(r) \/ Proceed(r) \/ Fail(r)
  \/ \E t \in Tokens : ExpireToken(t)
  \/ SeedRole

Spec == Init /\ [][Next]_vars

-----------------------------------------------------------------------------
(* Safety                                                                  *)

(***************************************************************************)
(* A registration that was answered with 201 is whole and its own: the     *)
(* account has the password of that very request, its role and a           *)
(* verification token, however many requests registered the same address   *)
(* at the same time.                                                       *)
(***************************************************************************)
Whole(e) == Exists(e) /\ user[e].role /\ \E t \in Tokens : Owns(e, "verify", t)

AnsweredIsWhole ==
  \A a \in answered : Whole(a[1]) /\ user[a[1]].password = a[2]

(***************************************************************************)
(* The three writes of a registration are not one transaction.  An account *)
(* is half made only while its registration runs or once it has failed.    *)
(***************************************************************************)
Finishing(e) ==
  \E r \in Requests :
    req[r].who = e /\ req[r].pc \in {"register.assign", "register.token", "register.dispatch"}

HalfMadeByFailure == \A e \in Emails : Exists(e) => Whole(e) \/ Finishing(e) \/ e \in broken

(***************************************************************************)
(* Every mailed token is in its table, and was mailed to its owner.        *)
(***************************************************************************)
MailIsBacked ==
  \A m \in mailbox : Exists(m[1]) /\ \E k \in Kinds : Owns(m[1], k, m[2])

(***************************************************************************)
(* The audit log reports a registration only when it is whole, and a reset *)
(* request only when its mail was sent.                                    *)
(***************************************************************************)
AuditTruthful ==
  \A e \in Emails :
    /\ <<"UserRegistered", e>> \in audit => Whole(e)
    /\ <<"PasswordResetRequested", e>> \in audit =>
         \E t \in Tokens : Owns(e, "reset", t) /\ <<e, t>> \in mailbox

(***************************************************************************)
(* A registration never changes the password of an account that exists,    *)
(* its own or another's: not at the INSERT that it loses to a registration *)
(* of the same address which overlapped its look-up, and at no step after  *)
(* an INSERT that it won.                                                  *)
(***************************************************************************)
PasswordKept ==
  [][\A r \in Requests, e \in Emails :
       req[r].pc \in RegisterSteps /\ req'[r] # req[r] /\ Exists(e) =>
         Exists(e)' /\ user'[e].password = user[e].password]_vars

-----------------------------------------------------------------------------
(* What the repository says and the code does not do                       *)

(***************************************************************************)
(* A reset or a verification whose token passed every check ends with the  *)
(* token deleted.                                                          *)
(***************************************************************************)
TokensAreConsumed ==
  [][\A r \in Requests :
       At(r, "use.save") /\ At(r, "idle")' => token'[req[r].tok].status = "absent"]_vars
=============================================================================
