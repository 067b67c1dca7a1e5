-------------------------- MODULE SessionRegistry --------------------------
(***************************************************************************)
(* What the identity service promises about its DeviceSession table,       *)
(* whatever its handlers do in between: a session is opened once, is       *)
(* revoked at most once and for good, and a session that continues another *)
(* one belongs to the same user and starts only after that one is revoked. *)
(***************************************************************************)
CONSTANTS Users, SessionIds, NoUser, NoSession

VARIABLE session

Status == {"absent", "live", "revoked"}

NoRow == [status |-> "absent", owner |-> NoUser, parent |-> NoSession]

Init == session = [s \in SessionIds |-> NoRow]

Fresh(s) == session[s].status = "absent"

Open(s, u) ==
  /\ Fresh(s)
  /\ session' = [session EXCEPT ![s] = [status |-> "live", owner |-> u, parent |-> NoSession]]

Continue(p, s) ==
  /\ session[p].status = "revoked"
  /\ Fresh(s)
  /\ session' = [session EXCEPT ![s] =
                   [status |-> "live", owner |-> session[p].owner, parent |-> p]]

Revoke(s) ==
  /\ session[s].status = "live"
  /\ session' = [session EXCEPT ![s].status = "revoked"]

Next ==
  \E s \in SessionIds :
    \/ \E u \in Users : Open(s, u)
    \/ \E p \in SessionIds : Continue(p, s)
    \/ Revoke(s)

Spec == Init /\ [][Next]_session
=============================================================================
