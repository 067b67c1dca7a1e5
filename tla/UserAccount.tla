---------------------------- MODULE UserAccount ----------------------------
(***************************************************************************)
(* The lockout part of the User aggregate (identity/src/core/domain/       *)
(* User.ts): the failed-login counter and the lock, and what the entity's  *)
(* methods do to them.  A user object is a value: a request works on the   *)
(* copy that its own query returned.                                       *)
(***************************************************************************)
EXTENDS Naturals

CONSTANT MaxAttempts    \* the argument of incrementFailedAttempts, 5 in LoginService

ASSUME MaxAttemptsAssumption == MaxAttempts \in Nat \ {0}

UserRow == [attempts : Nat, locked : BOOLEAN]

NewUser == [attempts |-> 0, locked |-> FALSE]

(***************************************************************************)
(* Mutants of the two operators that follow: a threshold that is off by    *)
(* one, and a login that forgets the counter.                              *)
(***************************************************************************)
IncrementFailedAttemptsLate(u) ==
  IF u.locked THEN u
  ELSE [attempts |-> u.attempts + 1, locked |-> u.attempts + 1 > MaxAttempts]

(***************************************************************************)
(* incrementFailedAttempts: nothing on a locked account, else one more     *)
(* failure and the lock when the threshold is reached.                     *)
(***************************************************************************)
IncrementFailedAttempts(u) ==
  IF u.locked THEN u
  ELSE [attempts |-> u.attempts + 1, locked |-> u.attempts + 1 >= MaxAttempts]

(***************************************************************************)
(* recordLogin, past its guard: the counter restarts, the lock is left.    *)
(***************************************************************************)
RecordLogin(u) == [u EXCEPT !.attempts = 0]

(***************************************************************************)
(* The two columns agree: an account is locked exactly at the threshold.   *)
(***************************************************************************)
LockAgrees(u) == u.locked <=> u.attempts >= MaxAttempts
=============================================================================
