-------------------------- MODULE Replicas_proofs --------------------------
(***************************************************************************)
(* Proofs about Replicas, for any numbers of processes, connections and    *)
(* keys: the roll-over of keys, the audited denials, the limiter's key and *)
(* the orderly exit, whatever crashes and fails in between.                *)
(***************************************************************************)
EXTENDS Replicas, TLAPS

(***************************************************************************)
(* TokensVerify says what verifies now.  A key that is in use without a    *)
(* live token may sign one next, in a process or in the one that starts    *)
(* from the configuration, so that it must be known everywhere as well.    *)
(***************************************************************************)
KeysOK == \A k \in Kids \ hasty : InUse(k) => KnownEverywhere(k)

(* A denial is audited before it is answered, and answered 403 once. *)
DenialOK(c) ==
  /\ conn[c].pc = "denied" => c \in audit
  /\ c \in forbidden => conn[c].pc = "idle" /\ c \in audit

IInv == TypeOK /\ KeysOK /\ (\A c \in Conns : DenialOK(c)) /\ ServedBody /\ EternalOnlyByFailure

-----------------------------------------------------------------------------
Steps == {"none", "idle", "read", "service", "deny", "denied", "expire"}
Conn == [pc : Steps, at : Processes \cup {NoProcess}, body : Body]

Placed(n) == IF n.pc = "none" THEN n.at = NoProcess ELSE n.at \in Processes /\ Listens(n.at)

Served(n) ==
  n.pc = "service" =>
    /\ n.body["ipAddress"] = "server" /\ n.body["userAgent"] = "server"
    /\ n.body["accessToken"] # "client"

LEMMA TypesOfConns == TypeOK => /\ conn \in [Conns -> Conn]
                                /\ \A c \in Conns : Placed(conn[c])
BY DEF TypeOK, Conn, Steps, Placed

LEMMA NoBodyType == NoBody \in Body /\ Gone \in Conn /\ Placed(Gone) /\ Served(Gone)
BY DEF NoBody, Body, Gone, Conn, Steps, Placed, Served

(* An answer leaves the connection idle at its process, or gone. *)
LEMMA AnswerLeaves ==
  ASSUME TypeOK, NEW c \in Conns, conn[c].pc # "none", Answer(c)
  PROVE  \E n \in Conn : /\ conn' = [conn EXCEPT ![c] = n] /\ Placed(n) /\ Served(n)
                         /\ n.pc \in {"idle", "none"}
<1>1. conn[c] \in Conn /\ Placed(conn[c])
  BY TypesOfConns
<1>2. CASE conn' = [conn EXCEPT ![c] = Gone]
  BY <1>2, NoBodyType DEF Gone
<1>3. CASE conn' = [conn EXCEPT ![c] = [pc |-> "idle", at |-> conn[c].at, body |-> NoBody]]
  <2> DEFINE n == [pc |-> "idle", at |-> conn[c].at, body |-> NoBody]
  <2>1. n \in Conn /\ Placed(n) /\ Served(n) /\ n.pc = "idle"
    BY <1>1, NoBodyType DEF Conn, Steps, Placed, Served
  <2> QED
    BY <1>3, <2>1
<1> QED
  BY <1>2, <1>3 DEF Answer

LEMMA GotoLeads ==
  ASSUME TypeOK, NEW c \in Conns, conn[c].pc # "none", NEW step \in Steps \ {"none", "service"}, Goto(c, step)
  PROVE  \E n \in Conn : conn' = [conn EXCEPT ![c] = n] /\ Placed(n) /\ Served(n) /\ n.pc = step
<1> DEFINE n == [conn[c] EXCEPT !.pc = step]
<1>1. conn[c] \in Conn /\ Placed(conn[c])
  BY TypesOfConns
<1>2. n \in Conn /\ n.pc = step /\ n.at = conn[c].at
  BY <1>1 DEF Conn
<1>3. Placed(n) /\ Served(n)
  BY <1>1, <1>2 DEF Placed, Served
<1>4. conn' = [conn EXCEPT ![c] = n]
  BY DEF Goto
<1> QED
  BY <1>2, <1>3, <1>4

-----------------------------------------------------------------------------
(* The keys stay as they are while no process starts. *)
LEMMA KeysFrame ==
  ASSUME KeysOK, UNCHANGED keyVars, \A p \in Processes : Runs(p)' => Runs(p)
  PROVE  KeysOK'
BY DEF KeysOK, InUse, KnownEverywhere, keyVars

(* The key a process signs with is known wherever it may be needed. *)
LEMMA SignKeeps ==
  ASSUME KeysOK, NEW p \in Processes, Runs(p), Sign(p), UNCHANGED <<config, ring, cached, hasty, status>>
  PROVE  KeysOK'
BY DEF KeysOK, InUse, KnownEverywhere, Sign, Runs

(* A step of one request: what it must leave behind for the invariant to hold. *)
LEMMA RequestKeeps ==
  ASSUME IInv, NEW c \in Conns, NEW n \in Conn, Placed(n), Served(n),
         conn' = [conn EXCEPT ![c] = n],
         UNCHANGED <<config, ring, cached, hasty, status>>, KeysOK', signed' \subseteq Kids,
         audit' \subseteq Conns, forbidden' \subseteq Conns,
         \A d \in Conns \ {c} : (d \in audit' <=> d \in audit) /\ (d \in forbidden' <=> d \in forbidden),
         n.pc = "denied" => c \in audit',
         c \in forbidden' => n.pc = "idle" /\ c \in audit',
         window' \in {"absent", "expiring", "eternal"}, abandoned' \in BOOLEAN,
         \/ window' # "eternal" \/ abandoned' \/ n.pc = "expire"
         \/ UNCHANGED limitVars /\ conn[c].pc # "expire"
  PROVE  IInv'
<1>1. conn \in [Conns -> Conn] /\ \A d \in Conns : Placed(conn[d])
  BY TypesOfConns DEF IInv
<1>2. conn'[c] = n /\ \A d \in Conns \ {c} : conn'[d] = conn[d]
  BY <1>1
<1>3. TypeOK'
  <2>1. conn' \in [Conns -> Conn]
    BY <1>1
  <2>2. \A d \in Conns : Placed(conn'[d])
    BY <1>1, <1>2
  <2>3. \A d \in Conns : Placed(conn[d])'
    BY <2>2 DEF Placed, Listens
  <2>4. config' \in [active : Kids, known : SUBSET Kids, private : SUBSET Kids]
        /\ ring' \in [Processes -> Ring] /\ cached' \subseteq Kids /\ hasty' \subseteq Kids
        /\ status' \in [Processes -> {"stopped", "failed", "up", "draining", "closing"}]
    BY DEF IInv, TypeOK
  <2> QED
    BY <2>1, <2>3, <2>4 DEF TypeOK, Conn, Steps, Placed
<1>4. \A d \in Conns : DenialOK(d)'
  BY <1>2 DEF IInv, DenialOK
<1>5. ServedBody'
  BY <1>2 DEF IInv, ServedBody, Served
<1>6. EternalOnlyByFailure'
  <2>1. CASE window' # "eternal" \/ abandoned' \/ n.pc = "expire"
    BY <1>2, <2>1 DEF EternalOnlyByFailure
  <2>2. CASE UNCHANGED limitVars /\ conn[c].pc # "expire"
    BY <1>2, <2>2 DEF IInv, EternalOnlyByFailure, limitVars
  <2> QED
    BY <2>1, <2>2
<1> QED
  BY <1>3, <1>4, <1>5, <1>6 DEF IInv

-----------------------------------------------------------------------------
(* An answer that touches neither keys nor the audit log nor the limiter. *)
LEMMA PlainStep ==
  ASSUME IInv, NEW c \in Conns, conn[c].pc \notin {"none", "expire"}, KeysOK', signed' \subseteq Kids,
         UNCHANGED <<config, ring, cached, hasty, status, audit, limitVars>>,
         forbidden' = forbidden, c \notin forbidden,
         NEW n \in Conn, conn' = [conn EXCEPT ![c] = n], Placed(n), Served(n), n.pc # "denied"
  PROVE  IInv'
BY RequestKeeps DEF IInv, TypeOK, limitVars

(* Nothing of an unanswered request is in forbidden. *)
LEMMA Unanswered ==
  ASSUME IInv, NEW c \in Conns, conn[c].pc # "idle"
  PROVE  c \notin forbidden
BY DEF IInv, DenialOK

LEMMA AcceptKeeps == ASSUME IInv, NEW p \in Processes, NEW c \in Conns, Accept(c, p) PROVE IInv'
<1> DEFINE n == [pc |-> "read", at |-> p, body |-> NoBody]
<1>1. Listens(p)
  BY DEF Accept, IInv, TypeOK, Listens
<1>2. n \in Conn /\ Placed(n) /\ Served(n) /\ n.pc = "read" /\ conn' = [conn EXCEPT ![c] = n]
  BY <1>1, NoBodyType DEF Accept, Conn, Steps, Placed, Served
<1>3. KeysOK'
  BY KeysFrame DEF Accept, IInv, Runs
<1>4. audit' = audit \ {c} /\ forbidden' = forbidden \ {c} /\ UNCHANGED <<keyVars, status, limitVars>>
      /\ conn[c].pc # "expire"
  BY DEF Accept
<1>5. audit \subseteq Conns /\ forbidden \subseteq Conns /\ signed \subseteq Kids
      /\ window \in {"absent", "expiring", "eternal"} /\ abandoned \in BOOLEAN
  BY DEF IInv, TypeOK
<1> HIDE DEF n
<1> QED
  BY <1>2, <1>3, <1>4, <1>5, RequestKeeps DEF keyVars, limitVars

LEMMA CloseKeeps == ASSUME IInv, NEW c \in Conns, Close(c) PROVE IInv'
<1>1. KeysOK'
  BY KeysFrame DEF Close, IInv, Runs
<1>2. audit \subseteq Conns /\ forbidden \subseteq Conns /\ signed \subseteq Kids
      /\ window \in {"absent", "expiring", "eternal"} /\ abandoned \in BOOLEAN
  BY DEF IInv, TypeOK
<1>3. Gone.pc = "none"
  BY DEF Gone
<1> QED
  BY <1>1, <1>2, <1>3, NoBodyType, RequestKeeps DEF Close, keyVars, limitVars

LEMMA EdgeAnswerKeeps == ASSUME IInv, NEW c \in Conns, EdgeAnswer(c) PROVE IInv'
<1>1. PICK n \in Conn : conn' = [conn EXCEPT ![c] = n] /\ Placed(n) /\ Served(n) /\ n.pc \in {"idle", "none"}
  BY AnswerLeaves DEF EdgeAnswer, IInv
<1>2. KeysOK' /\ signed' \subseteq Kids
  BY KeysFrame DEF EdgeAnswer, IInv, TypeOK, Runs, keyVars
<1> QED
  BY <1>1, <1>2, Unanswered, PlainStep DEF EdgeAnswer, keyVars

LEMMA ServiceKeeps == ASSUME IInv, NEW c \in Conns, Service(c) PROVE IInv'
<1>1. KeysOK' /\ signed' \subseteq Kids /\ conn[c].pc = "read" /\ UNCHANGED <<keyVars, status, audit, forbidden, limitVars>>
  BY KeysFrame DEF Service, IInv, TypeOK, Runs, keyVars
<1>2. CASE Answer(c)
  <2>1. PICK n \in Conn : conn' = [conn EXCEPT ![c] = n] /\ Placed(n) /\ Served(n) /\ n.pc \in {"idle", "none"}
    BY <1>1, <1>2, AnswerLeaves DEF IInv
  <2> QED
    BY <1>1, <2>1, Unanswered, PlainStep DEF keyVars
<1>3. CASE ~Answer(c)
  <2> DEFINE sent == [t \in Told |-> "absent"]
  <2>1. PICK body \in {ClientMeta(sent), AuthToken(ClientMeta(sent))} :
          conn' = [conn EXCEPT ![c].pc = "service", ![c].body = body]
    <3>1. PICK extra \in SUBSET Told, route \in {"login", "refresh", "logout", "other"} :
            LET given == [t \in Told |-> IF t \in extra THEN "client" ELSE "absent"]
                body == IF route = "logout" THEN AuthToken(ClientMeta(given)) ELSE ClientMeta(given)
            IN  /\ Validates(extra)
                /\ conn' = [conn EXCEPT ![c].pc = "service", ![c].body = body]
      BY <1>3 DEF Service
    <3>2. extra = {}
      BY <3>1 DEF Validates, UnknownKeys
    <3>3. [t \in Told |-> IF t \in extra THEN "client" ELSE "absent"] = sent
      BY <3>2
    <3> QED
      BY <3>1, <3>3
  <2>2. /\ body \in Body /\ body["ipAddress"] = "server" /\ body["userAgent"] = "server"
        /\ body["accessToken"] # "client"
    BY DEF ClientMeta, AuthToken, Body, Told
  <2> DEFINE n == [conn[c] EXCEPT !.pc = "service", !.body = body]
  <2>3. conn[c] \in Conn /\ Placed(conn[c])
    BY TypesOfConns DEF IInv
  <2>4. n \in Conn /\ n.pc = "service" /\ n.at = conn[c].at /\ n.body = body
    BY <2>2, <2>3 DEF Conn, Steps
  <2>5. Placed(n) /\ Served(n)
    BY <1>1, <2>2, <2>3, <2>4 DEF Placed, Served
  <2>6. conn' = [conn EXCEPT ![c] = n]
    BY <2>1
  <2> HIDE DEF n
  <2> QED
    BY <1>1, <2>4, <2>5, <2>6, Unanswered, PlainStep DEF keyVars
<1> QED
  BY <1>2, <1>3

LEMMA ServiceEndsKeeps == ASSUME IInv, NEW c \in Conns, ServiceEnds(c) PROVE IInv'
<1>1. conn[c].pc = "service" /\ Answer(c) /\ UNCHANGED <<config, ring, cached, hasty, status, audit, forbidden, limitVars>>
  BY DEF ServiceEnds
<1>2. PICK n \in Conn : conn' = [conn EXCEPT ![c] = n] /\ Placed(n) /\ Served(n) /\ n.pc \in {"idle", "none"}
  BY <1>1, AnswerLeaves DEF IInv
<1>3. conn[c].at \in Processes /\ Runs(conn[c].at)
  BY <1>1 DEF IInv, TypeOK, Listens, Runs
<1>4. KeysOK'
  <2>1. CASE UNCHANGED signed
    BY <1>1, <2>1, KeysFrame DEF IInv, Runs, keyVars
  <2>2. CASE Sign(conn[c].at)
    BY <1>1, <1>3, <2>2, SignKeeps DEF IInv
  <2> QED
    BY <2>1, <2>2 DEF ServiceEnds
<1>5. signed' \subseteq Kids
  BY <1>3 DEF ServiceEnds, Sign, IInv, TypeOK, Ring
<1> QED
  BY <1>1, <1>2, <1>4, <1>5, Unanswered, PlainStep

LEMMA GuardKeeps == ASSUME IInv, NEW c \in Conns, Guard(c) PROVE IInv'
<1>1. KeysOK' /\ signed' \subseteq Kids /\ conn[c].pc = "read" /\ UNCHANGED <<keyVars, status, audit, forbidden, limitVars>>
  BY KeysFrame DEF Guard, IInv, TypeOK, Runs, keyVars
<1>2. Answer(c) \/ Goto(c, "deny")
  BY DEF Guard
<1>3. PICK n \in Conn : conn' = [conn EXCEPT ![c] = n] /\ Placed(n) /\ Served(n) /\ n.pc \in {"idle", "none", "deny"}
  <2>1. "deny" \in Steps \ {"none", "service"}
    BY DEF Steps
  <2> QED
    BY <1>1, <1>2, <2>1, AnswerLeaves, GotoLeads DEF IInv
<1> QED
  BY <1>1, <1>3, Unanswered, PlainStep DEF keyVars

LEMMA DispatchKeeps == ASSUME IInv, NEW c \in Conns, Dispatch(c) PROVE IInv'
<1>1. KeysOK' /\ signed' \subseteq Kids /\ conn[c].pc = "deny" /\ UNCHANGED <<keyVars, status, forbidden, limitVars>>
  BY KeysFrame DEF Dispatch, IInv, TypeOK, Runs, keyVars
<1>2. CASE Answer(c) /\ UNCHANGED audit
  <2>1. PICK n \in Conn : conn' = [conn EXCEPT ![c] = n] /\ Placed(n) /\ Served(n) /\ n.pc \in {"idle", "none"}
    BY <1>1, <1>2, AnswerLeaves DEF IInv
  <2> QED
    BY <1>1, <1>2, <2>1, Unanswered, PlainStep DEF keyVars
<1>3. CASE Goto(c, "denied") /\ audit' = audit \cup {c}
  <2>1. "denied" \in Steps \ {"none", "service"}
    BY DEF Steps
  <2>2. PICK n \in Conn : conn' = [conn EXCEPT ![c] = n] /\ Placed(n) /\ Served(n) /\ n.pc = "denied"
    BY <1>1, <1>3, <2>1, GotoLeads DEF IInv
  <2>3. audit \subseteq Conns /\ forbidden \subseteq Conns /\ c \notin forbidden
        /\ window \in {"absent", "expiring", "eternal"} /\ abandoned \in BOOLEAN
    BY <1>1, Unanswered DEF IInv, TypeOK
  <2> QED
    BY <1>1, <1>3, <2>2, <2>3, RequestKeeps DEF keyVars, limitVars
<1> QED
  BY <1>2, <1>3 DEF Dispatch, WriteRow

LEMMA ForbidKeeps == ASSUME IInv, NEW c \in Conns, Forbid(c) PROVE IInv'
<1>1. KeysOK' /\ signed' \subseteq Kids /\ conn[c].pc = "denied" /\ UNCHANGED <<keyVars, status, limitVars>>
  BY KeysFrame DEF Forbid, IInv, TypeOK, Runs, keyVars
<1>2. PICK n \in Conn : conn' = [conn EXCEPT ![c] = n] /\ Placed(n) /\ Served(n) /\ n.pc \in {"idle", "none"}
  BY <1>1, AnswerLeaves DEF Forbid, IInv
<1>3. conn'[c].pc = n.pc
  BY <1>2, TypesOfConns DEF IInv
<1>4. audit \subseteq Conns /\ forbidden \subseteq Conns /\ c \notin forbidden /\ c \in audit
      /\ window \in {"absent", "expiring", "eternal"} /\ abandoned \in BOOLEAN
  BY <1>1, Unanswered DEF IInv, TypeOK, DenialOK
<1>5. CASE n.pc = "idle"
  <2>1. forbidden' = forbidden \cup {c} /\ UNCHANGED audit
    BY <1>3, <1>5 DEF Forbid
  <2> QED
    BY <1>1, <1>2, <1>4, <1>5, <2>1, RequestKeeps DEF keyVars, limitVars
<1>6. CASE n.pc # "idle"
  <2>1. audit' = audit \ {c} /\ UNCHANGED forbidden
    BY <1>3, <1>6 DEF Forbid
  <2> QED
    BY <1>1, <1>2, <1>4, <1>6, <2>1, RequestKeeps DEF keyVars, limitVars
<1> QED
  BY <1>5, <1>6

-----------------------------------------------------------------------------
(* A step of the limiter: the connection moves on, and a key that has no TTL is accounted for. *)
LEMMA LimiterStep ==
  ASSUME IInv, NEW c \in Conns, conn[c].pc \in {"read", "expire"},
         UNCHANGED <<keyVars, status, audit, forbidden>>,
         NEW n \in Conn, conn' = [conn EXCEPT ![c] = n], Placed(n), Served(n), n.pc # "denied",
         window' \in {"absent", "expiring", "eternal"}, abandoned' \in BOOLEAN,
         \/ window' # "eternal" \/ abandoned' \/ n.pc = "expire"
         \/ UNCHANGED limitVars /\ conn[c].pc # "expire"
  PROVE  IInv'
<1>1. KeysOK' /\ signed' \subseteq Kids
  BY KeysFrame DEF IInv, TypeOK, Runs, keyVars
<1>2. audit \subseteq Conns /\ forbidden \subseteq Conns /\ c \notin forbidden
  BY Unanswered DEF IInv, TypeOK
<1> QED
  BY <1>1, <1>2, RequestKeeps DEF keyVars

LEMMA IncrementKeeps == ASSUME IInv, NEW c \in Conns, Increment(c) PROVE IInv'
<1>1. conn[c].pc = "read" /\ UNCHANGED <<keyVars, status, audit, forbidden>>
      /\ window \in {"absent", "expiring", "eternal"} /\ abandoned \in BOOLEAN
  BY DEF Increment, IInv, TypeOK
<1>2. CASE Answer(c) /\ (UNCHANGED limitVars \/ (window' = "eternal" /\ abandoned' = TRUE))
  <2>1. PICK n \in Conn : conn' = [conn EXCEPT ![c] = n] /\ Placed(n) /\ Served(n) /\ n.pc \in {"idle", "none"}
    BY <1>1, <1>2, AnswerLeaves DEF IInv
  <2>2. window' \in {"absent", "expiring", "eternal"} /\ abandoned' \in BOOLEAN
    BY <1>1, <1>2 DEF limitVars
  <2> QED
    BY <1>1, <1>2, <2>1, <2>2, LimiterStep
<1>3. CASE window' = "eternal" /\ Goto(c, "expire") /\ UNCHANGED abandoned
  <2>1. "expire" \in Steps \ {"none", "service"}
    BY DEF Steps
  <2>2. PICK n \in Conn : conn' = [conn EXCEPT ![c] = n] /\ Placed(n) /\ Served(n) /\ n.pc = "expire"
    BY <1>1, <1>3, <2>1, GotoLeads DEF IInv
  <2> QED
    BY <1>1, <1>3, <2>2, LimiterStep
<1> QED
  BY <1>2, <1>3 DEF Increment

LEMMA SetExpiryKeeps == ASSUME IInv, NEW c \in Conns, SetExpiry(c) PROVE IInv'
<1>1. conn[c].pc = "expire" /\ UNCHANGED <<keyVars, status, audit, forbidden>>
      /\ window \in {"absent", "expiring", "eternal"} /\ abandoned \in BOOLEAN
  BY DEF SetExpiry, IInv, TypeOK
<1>2. PICK n \in Conn : conn' = [conn EXCEPT ![c] = n] /\ Placed(n) /\ Served(n) /\ n.pc \in {"idle", "none"}
  BY <1>1, AnswerLeaves DEF SetExpiry, IInv
<1>3. /\ window' \in {"absent", "expiring", "eternal"} /\ abandoned' \in BOOLEAN
      /\ window' # "eternal" \/ abandoned'
  BY <1>1 DEF SetExpiry
<1> QED
  BY <1>1, <1>2, <1>3, LimiterStep

LEMMA ResetKeeps == ASSUME IInv, NEW c \in Conns, ResetAttempts(c) PROVE IInv'
<1>1. conn[c].pc = "read" /\ UNCHANGED <<keyVars, status, audit, forbidden>>
      /\ window' = "absent" /\ abandoned' = FALSE
  BY DEF ResetAttempts
<1>2. PICK n \in Conn : conn' = [conn EXCEPT ![c] = n] /\ Placed(n) /\ Served(n) /\ n.pc \in {"idle", "none"}
  BY <1>1, AnswerLeaves DEF ResetAttempts, IInv
<1> QED
  BY <1>1, <1>2, LimiterStep

-----------------------------------------------------------------------------
(* A process that ends or drains: some of its connections are cut, the others keep their process. *)
LEMMA CutKeeps ==
  ASSUME IInv, NEW cut \in SUBSET Conns,
         conn' = [c \in Conns |-> IF c \in cut THEN Gone ELSE conn[c]],
         audit' = audit \ cut, forbidden' = forbidden \ cut,
         UNCHANGED <<config, signed, cached, hasty, window>>, KeysOK', ring' \in [Processes -> Ring],
         status' \in [Processes -> {"stopped", "failed", "up", "draining", "closing"}],
         \A c \in Conns \ cut : conn[c].pc # "none" => status'[conn[c].at] \in {"up", "draining"},
         abandoned' \in BOOLEAN, abandoned => abandoned',
         window = "eternal" => abandoned' \/ \A c \in cut : conn[c].pc # "expire"
  PROVE  IInv'
<1>1. conn \in [Conns -> Conn] /\ \A d \in Conns : Placed(conn[d])
  BY TypesOfConns DEF IInv
<1>2. \A c \in Conns : conn'[c] = IF c \in cut THEN Gone ELSE conn[c]
  OBVIOUS
<1>3. TypeOK'
  <2>1. conn' \in [Conns -> Conn]
    BY <1>1, NoBodyType
  <2>2. \A c \in Conns : IF conn'[c].pc = "none" THEN conn'[c].at = NoProcess
                          ELSE conn'[c].at \in Processes /\ status'[conn'[c].at] \in {"up", "draining"}
    BY <1>1, <1>2 DEF Placed, Gone
  <2>3. /\ config' \in [active : Kids, known : SUBSET Kids, private : SUBSET Kids]
        /\ signed' \subseteq Kids /\ cached' \subseteq Kids /\ hasty' \subseteq Kids
        /\ audit' \subseteq Conns /\ forbidden' \subseteq Conns
        /\ window' \in {"absent", "expiring", "eternal"}
    BY DEF IInv, TypeOK
  <2> QED
    BY <2>1, <2>2, <2>3 DEF TypeOK, Conn, Steps, Listens
<1>4. \A d \in Conns : DenialOK(d)'
  BY <1>2 DEF IInv, DenialOK, Gone
<1>5. ServedBody'
  BY <1>2 DEF IInv, ServedBody, Gone
<1>6. EternalOnlyByFailure'
  <2> SUFFICES ASSUME window = "eternal", ~abandoned'
               PROVE  \E c \in Conns : conn'[c].pc = "expire"
    BY DEF EternalOnlyByFailure
  <2>1. PICK c \in Conns : conn[c].pc = "expire"
    BY DEF IInv, EternalOnlyByFailure
  <2>2. c \notin cut
    BY <2>1
  <2> QED
    BY <1>2, <2>1, <2>2
<1> QED
  BY <1>3, <1>4, <1>5, <1>6 DEF IInv

LEMMA EndsKeeps ==
  ASSUME IInv, NEW p \in Processes, NEW how \in {"stopped", "failed"}, Ends(p, how)
  PROVE  IInv'
<1> DEFINE cut == {c \in Conns : At(c, p)}
<1>1. /\ status' = [status EXCEPT ![p] = how] /\ ring' = [ring EXCEPT ![p] = NoKeys]
      /\ conn' = [c \in Conns |-> IF c \in cut THEN Gone ELSE conn[c]]
      /\ audit' = audit \ cut /\ forbidden' = forbidden \ cut
      /\ abandoned' = (abandoned \/ (window = "eternal" /\ \E c \in Conns : At(c, p) /\ conn[c].pc = "expire"))
      /\ UNCHANGED <<config, signed, cached, hasty, window>>
  BY DEF Ends
<1>2. ring' \in [Processes -> Ring]
      /\ status' \in [Processes -> {"stopped", "failed", "up", "draining", "closing"}]
  <2>1. NoKeys \in Ring
    BY DeploymentAssumption DEF NoKeys, Ring
  <2> QED
    BY <1>1, <2>1 DEF IInv, TypeOK
<1>3. KeysOK'
  <2>1. \A q \in Processes : Runs(q)' => Runs(q) /\ ring'[q] = ring[q]
    BY <1>1 DEF Runs, IInv, TypeOK
  <2> QED
    BY <1>1, <2>1 DEF IInv, KeysOK, InUse, KnownEverywhere
<1>4. \A c \in Conns \ cut : conn[c].pc # "none" => status'[conn[c].at] \in {"up", "draining"}
  BY <1>1 DEF At, IInv, TypeOK, Listens
<1>5. abandoned' \in BOOLEAN /\ (abandoned => abandoned')
  BY <1>1 DEF IInv, TypeOK
<1>6. window = "eternal" => abandoned' \/ \A c \in cut : conn[c].pc # "expire"
  BY <1>1
<1>7. cut \in SUBSET Conns
  OBVIOUS
<1> HIDE DEF cut
<1> QED
  BY <1>1, <1>2, <1>3, <1>4, <1>5, <1>6, <1>7, CutKeeps

LEMMA SignalKeeps == ASSUME IInv, NEW p \in Processes, Signal(p) PROVE IInv'
<1> DEFINE cut == {c \in Conns : At(c, p) /\ ~Busy(c)}
<1>1. /\ status[p] = "up" /\ status' = [status EXCEPT ![p] = "draining"]
      /\ conn' = [c \in Conns |-> IF c \in cut THEN Gone ELSE conn[c]]
      /\ audit' = audit \ cut /\ forbidden' = forbidden \ cut
      /\ UNCHANGED <<keyVars, limitVars>>
  BY DEF Signal
<1>2. ring' \in [Processes -> Ring] /\ abandoned' \in BOOLEAN
      /\ status' \in [Processes -> {"stopped", "failed", "up", "draining", "closing"}]
  BY <1>1 DEF IInv, TypeOK, keyVars, limitVars
<1>3. KeysOK'
  <2>1. \A q \in Processes : Runs(q)' => Runs(q)
    BY <1>1 DEF Runs, IInv, TypeOK
  <2> QED
    BY <1>1, <2>1, KeysFrame DEF IInv
<1>4. \A c \in Conns \ cut : conn[c].pc # "none" => status'[conn[c].at] \in {"up", "draining"}
  BY <1>1 DEF IInv, TypeOK, Listens
<1>5. \A c \in cut : conn[c].pc # "expire"
  BY DEF Busy
<1>6. cut \in SUBSET Conns
  OBVIOUS
<1> HIDE DEF cut
<1> QED
  BY <1>1, <1>2, <1>3, <1>4, <1>5, <1>6, CutKeeps DEF keyVars, limitVars

(* A step that leaves the connections alone and ends no process that serves. *)
LEMMA NoConnChanges ==
  ASSUME IInv, UNCHANGED <<conn, audit, forbidden>>, KeysOK',
         config' \in [active : Kids, known : SUBSET Kids, private : SUBSET Kids],
         ring' \in [Processes -> Ring], signed' \subseteq Kids, cached' \subseteq Kids, hasty' \subseteq Kids,
         status' \in [Processes -> {"stopped", "failed", "up", "draining", "closing"}],
         \A q \in Processes : Listens(q) => Listens(q)' \/ \A c \in Conns : ~At(c, q),
         UNCHANGED abandoned, window' = window \/ window' = "absent"
  PROVE  IInv'
<1>1. TypeOK'
  BY DEF IInv, TypeOK, Listens, At
<1>2. (\A c \in Conns : DenialOK(c)') /\ ServedBody' /\ EternalOnlyByFailure'
  BY DEF IInv, DenialOK, ServedBody, EternalOnlyByFailure
<1> QED
  BY <1>1, <1>2 DEF IInv

LEMMA StartKeeps == ASSUME IInv, NEW p \in Processes, Start(p) PROVE IInv'
<1>1. /\ ~Runs(p) /\ config.active \in config.known
      /\ status' = [status EXCEPT ![p] = "up"]
      /\ ring' = [ring EXCEPT ![p] = [active |-> config.active, known |-> config.known]]
      /\ UNCHANGED <<config, conn, signed, cached, hasty, audit, forbidden, limitVars>>
  BY DEF Start, ConfigLoads, Loaded
<1>2. TypeOK /\ KeysOK
  BY DEF IInv
<1>3. ring'[p].active = config.active /\ ring'[p].known = config.known
  BY <1>1, <1>2 DEF TypeOK
<1>4. \A q \in Processes \ {p} : ring'[q] = ring[q] /\ (Runs(q)' <=> Runs(q))
  BY <1>1, <1>2 DEF TypeOK, Runs
<1>5. KeysOK'
  <2>1. ASSUME NEW k \in Kids, InUse(k)' PROVE InUse(k)
    BY <1>1, <1>3, <1>4, <2>1 DEF InUse
  <2>2. ASSUME NEW k \in Kids, KnownEverywhere(k) PROVE KnownEverywhere(k)'
    BY <1>1, <1>3, <1>4, <2>2 DEF KnownEverywhere
  <2> QED
    BY <1>1, <1>2, <2>1, <2>2 DEF KeysOK
<1>6. ring' \in [Processes -> Ring] /\ (\A q \in Processes : Listens(q) => Listens(q)')
      /\ status' \in [Processes -> {"stopped", "failed", "up", "draining", "closing"}]
  BY <1>1, <1>2, <1>4 DEF TypeOK, Ring, Runs, Listens
<1> QED
  BY <1>1, <1>2, <1>5, <1>6, NoConnChanges DEF TypeOK, limitVars

LEMMA ClosedKeeps == ASSUME IInv, NEW p \in Processes, Closed(p) PROVE IInv'
<1>1. /\ status[p] = "draining" /\ status' = [status EXCEPT ![p] = "closing"]
      /\ UNCHANGED <<keyVars, conn, audit, forbidden, limitVars>>
      /\ \A c \in Conns : ~At(c, p)
  BY DEF Closed
<1>2. \A q \in Processes : Runs(q)' <=> Runs(q)
  BY <1>1 DEF IInv, TypeOK, Runs
<1>3. KeysOK'
  BY <1>1, <1>2, KeysFrame DEF IInv
<1> QED
  BY <1>1, <1>3, NoConnChanges DEF IInv, TypeOK, Listens, keyVars, limitVars

(* The consumers of keys: a document is what a process knows when it is fetched. *)
LEMMA FetchJwksKeeps == ASSUME IInv, NEW p \in Processes, FetchJwks(p) PROVE IInv'
<1>1. /\ Runs(p) /\ cached' = ring[p].known
      /\ UNCHANGED <<config, status, ring, conn, signed, hasty, audit, forbidden, limitVars>>
  BY DEF FetchJwks, Jwks, Runs, Listens
<1>2. KeysOK'
  BY <1>1 DEF IInv, KeysOK, InUse, KnownEverywhere, Runs
<1> QED
  BY <1>1, <1>2, NoConnChanges DEF IInv, TypeOK, Ring, Listens, limitVars

LEMMA JwksStaleKeeps == ASSUME IInv, JwksStale PROVE IInv'
<1>1. KeysOK'
  BY DEF JwksStale, IInv, KeysOK, InUse, KnownEverywhere, Runs
<1> QED
  BY <1>1, NoConnChanges DEF JwksStale, IInv, TypeOK, Listens, limitVars

LEMMA TokensExpireKeeps == ASSUME IInv, NEW k \in Kids, TokensExpire(k) PROVE IInv'
<1>1. KeysOK'
  BY DEF TokensExpire, IInv, KeysOK, InUse, KnownEverywhere, Runs
<1> QED
  BY <1>1, NoConnChanges DEF TokensExpire, IInv, TypeOK, Listens, limitVars

(* Only the key that is touched changes its standing, and hasty keeps the account of it. *)
LEMMA RollOutKeeps == ASSUME IInv, RollOut PROVE IInv'
<1> DEFINE Configs == [active : Kids, known : SUBSET Kids, private : SUBSET Kids]
<1>1. PICK k \in Kids : Publish(k) \/ Activate(k) \/ Retire(k)
  BY DEF RollOut
<1>2. UNCHANGED <<status, ring, conn, signed, cached, audit, forbidden, limitVars>>
  BY DEF RollOut
<1>3. config \in Configs /\ hasty \subseteq Kids /\ KeysOK
  BY DEF IInv, TypeOK
<1>4. config' \in Configs /\ hasty' \subseteq Kids /\ KeysOK'
  <2>1. CASE Publish(k)
    <3>1. PICK private \in {config.private, config.private \cup {k}} :
            config' = [config EXCEPT !.known = config.known \cup {k}, !.private = private]
      BY <2>1 DEF Publish
    <3>2. config' \in Configs /\ config'.active = config.active /\ config'.known = config.known \cup {k}
      BY <1>3, <3>1
    <3> QED
      BY <1>2, <1>3, <2>1, <3>2 DEF Publish, KeysOK, InUse, KnownEverywhere, Runs
  <2>2. CASE Activate(k)
    <3>1. config' \in Configs /\ config'.active = k /\ config'.known = config.known
      BY <1>3, <2>2 DEF Activate
    <3>2. hasty' = IF KnownEverywhere(k) THEN hasty \ {k} ELSE hasty \cup {k}
      BY <2>2 DEF Activate
    <3>3. \A j \in Kids : /\ KnownEverywhere(j)' <=> KnownEverywhere(j)
                          /\ InUse(j)' => InUse(j) \/ j = k
      BY <1>2, <3>1 DEF InUse, KnownEverywhere, Runs
    <3> QED
      BY <1>3, <3>1, <3>2, <3>3 DEF KeysOK
  <2>3. CASE Retire(k)
    <3>1. config' \in Configs /\ config'.active = config.active /\ config'.known = config.known \ {k}
      BY <1>3, <2>3 DEF Retire
    <3>2. hasty' = IF InUse(k) THEN hasty \cup {k} ELSE hasty \ {k}
      BY <2>3 DEF Retire
    <3>3. \A j \in Kids : /\ InUse(j)' <=> InUse(j)
                          /\ j # k /\ KnownEverywhere(j) => KnownEverywhere(j)'
      BY <1>2, <3>1 DEF InUse, KnownEverywhere, Runs
    <3> QED
      BY <1>3, <3>1, <3>2, <3>3 DEF KeysOK
  <2> QED
    BY <1>1, <2>1, <2>2, <2>3
<1> HIDE DEF Configs
<1>5. config' \in [active : Kids, known : SUBSET Kids, private : SUBSET Kids]
  BY <1>4 DEF Configs
<1> QED
  BY <1>2, <1>4, <1>5, NoConnChanges DEF IInv, TypeOK, Listens, limitVars

LEMMA WindowEndsKeeps == ASSUME IInv, WindowEnds PROVE IInv'
<1>1. KeysOK'
  BY KeysFrame DEF WindowEnds, IInv, Runs
<1> QED
  BY <1>1, NoConnChanges DEF WindowEnds, IInv, TypeOK, Listens, keyVars

LEMMA StutterKeeps == ASSUME IInv, UNCHANGED vars PROVE IInv'
<1>1. KeysOK'
  BY KeysFrame DEF IInv, vars, keyVars, Runs
<1> QED
  BY <1>1, NoConnChanges DEF IInv, TypeOK, vars, Listens

-----------------------------------------------------------------------------
LEMMA InitEstablishes == Init => IInv
<1> SUFFICES ASSUME Init PROVE IInv
  OBVIOUS
<1>1. TypeOK
  BY DeploymentAssumption, NoBodyType DEF Init, TypeOK, NoKeys, Ring, Gone
<1>2. KeysOK
  BY DEF Init, KeysOK, InUse, KnownEverywhere, Runs
<1>3. (\A c \in Conns : DenialOK(c)) /\ ServedBody /\ EternalOnlyByFailure
  BY DEF Init, DenialOK, ServedBody, EternalOnlyByFailure, Gone
<1> QED
  BY <1>1, <1>2, <1>3 DEF IInv

LEMMA Inductive == IInv /\ [Next]_vars => IInv'
<1> SUFFICES ASSUME IInv, [Next]_vars PROVE IInv'
  OBVIOUS
<1>1. ASSUME NEW p \in Processes, Start(p) \/ Signal(p) \/ Closed(p) \/ FetchJwks(p) PROVE IInv'
  BY <1>1, StartKeeps, SignalKeeps, ClosedKeeps, FetchJwksKeeps
<1>2. ASSUME NEW p \in Processes, Crash(p) \/ Exit(p) \/ ForceExit(p) PROVE IInv'
  BY <1>2, EndsKeeps DEF Crash, Exit, ForceExit
<1>3. ASSUME NEW p \in Processes, NEW c \in Conns, Accept(c, p) PROVE IInv'
  BY <1>3, AcceptKeeps
<1>4. ASSUME NEW c \in Conns, Close(c) PROVE IInv'
  BY <1>4, CloseKeeps
<1>5. ASSUME NEW c \in Conns, Route(c) PROVE IInv'
  BY <1>5, EdgeAnswerKeeps, ServiceKeeps, GuardKeeps, IncrementKeeps, ResetKeeps DEF Route
<1>6. ASSUME NEW c \in Conns, Serve(c) PROVE IInv'
  BY <1>6, ServiceEndsKeeps, DispatchKeeps, ForbidKeeps, SetExpiryKeeps DEF Serve
<1>7. ASSUME NEW k \in Kids, TokensExpire(k) PROVE IInv'
  BY <1>7, TokensExpireKeeps
<1>8. CASE JwksStale \/ RollOut \/ WindowEnds
  BY <1>8, JwksStaleKeeps, RollOutKeeps, WindowEndsKeeps
<1>9. CASE UNCHANGED vars
  BY <1>9, StutterKeeps
<1> QED
  BY <1>1, <1>2, <1>3, <1>4, <1>5, <1>6, <1>7, <1>8, <1>9 DEF Next

(***************************************************************************)
(* The inductive invariant: types, what the processes, the configuration   *)
(* and the consumers know of keys, and what each request leaves behind.    *)
(***************************************************************************)
THEOREM Invariance == Spec => []IInv
BY InitEstablishes, Inductive, PTL DEF Spec

(***************************************************************************)
(* The type invariant, for any processes, connections and keys.            *)
(***************************************************************************)
THEOREM TypeCorrect == Spec => []TypeOK
<1>1. IInv => TypeOK
  BY DEF IInv
<1> QED
  BY <1>1, Invariance, PTL

(***************************************************************************)
(* Whatever the operator does: a live token is unverifiable at a running   *)
(* process, or its key missing from a cached JWKS document, only if that   *)
(* key was made active before all knew it or taken out in use.             *)
(***************************************************************************)
THEOREM TokensVerifyHolds == Spec => []TokensVerify
<1>1. IInv => TokensVerify
  BY DEF IInv, TypeOK, KeysOK, InUse, KnownEverywhere, TokensVerify, Verifies
<1> QED
  BY <1>1, Invariance, PTL

(***************************************************************************)
(* A guard's 403 is never answered without its row in the audit log.       *)
(***************************************************************************)
THEOREM ForbiddenIsAuditedHolds == Spec => []ForbiddenIsAudited
<1>1. IInv => ForbiddenIsAudited
  BY DEF IInv, TypeOK, DenialOK, ForbiddenIsAudited
<1> QED
  BY <1>1, Invariance, PTL

(***************************************************************************)
(* Services are told where a request came from by the server alone.        *)
(***************************************************************************)
THEOREM ServedBodyHolds == Spec => []ServedBody
<1>1. IInv => ServedBody
  BY DEF IInv
<1> QED
  BY <1>1, Invariance, PTL

(***************************************************************************)
(* A limiter's key without a TTL is about to get one, or an EXPIRE failed. *)
(***************************************************************************)
THEOREM EternalOnlyByFailureHolds == Spec => []EternalOnlyByFailure
<1>1. IInv => EternalOnlyByFailure
  BY DEF IInv
<1> QED
  BY <1>1, Invariance, PTL

-----------------------------------------------------------------------------
Orderly ==
  \A p \in Processes :
    status'[p] # status[p] /\ status'[p] \in {"closing", "stopped"} => \A c \in Conns : ~At(c, p)

(* A process that has closed its server has no connections, and exits with 0 from there alone. *)
LEMMA OrderlyStep == IInv /\ [Next]_vars => [Orderly]_vars
<1> SUFFICES ASSUME IInv, Next, NEW p \in Processes,
                    status'[p] # status[p], status'[p] \in {"closing", "stopped"},
                    NEW c \in Conns, At(c, p)
             PROVE  FALSE
  BY DEF Orderly
<1>1. status \in [Processes -> {"stopped", "failed", "up", "draining", "closing"}] /\ Listens(p)
  BY DEF IInv, TypeOK, At
<1>2. ASSUME NEW q \in Processes,
             \/ Start(q) \/ Crash(q) \/ Signal(q) \/ ForceExit(q) \/ FetchJwks(q)
             \/ \E d \in Conns : Accept(d, q)
      PROVE  FALSE
  BY <1>1, <1>2 DEF Start, Crash, Signal, ForceExit, FetchJwks, Accept, Ends
<1>3. ASSUME NEW q \in Processes, Closed(q) PROVE FALSE
  BY <1>1, <1>3 DEF Closed
<1>4. ASSUME NEW q \in Processes, Exit(q) PROVE FALSE
  BY <1>1, <1>4 DEF Exit, Ends, Listens
<1>5. ASSUME NEW d \in Conns, Close(d) \/ Route(d) \/ Serve(d) PROVE FALSE
  BY <1>5 DEF Close, Route, Serve, EdgeAnswer, Service, Guard, Increment, ResetAttempts,
              ServiceEnds, Dispatch, Forbid, SetExpiry
<1>6. CASE (\E k \in Kids : TokensExpire(k)) \/ JwksStale \/ RollOut \/ WindowEnds
  BY <1>6 DEF TokensExpire, JwksStale, RollOut, WindowEnds
<1> QED
  BY <1>2, <1>3, <1>4, <1>5, <1>6 DEF Next

(***************************************************************************)
(* An orderly exit cuts off no request, and an interrupted one is never    *)
(* reported as orderly.                                                    *)
(***************************************************************************)
THEOREM CleanExitHolds == Spec => CleanExit
BY Invariance, OrderlyStep, PTL DEF Spec, CleanExit, Orderly
=============================================================================
