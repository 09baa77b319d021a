----------------------------- MODULE AuthServer -----------------------------
(***************************************************************************)
(* The Ravenstash API as the device-credential code of rvs uses it: the    *)
(* routes auth/device/token, auth/device/refresh and auth/device/revoke.   *)
(* The service is not part of this repository; it is modelled from the     *)
(* requests rvs sends, the answers it distinguishes and the contract its   *)
(* comments and tests rely on ("the operation ID makes a resent refresh    *)
(* safe").                                                                 *)
(*                                                                         *)
(* A login creates a session.  A session has a chain of credential pairs;  *)
(* pair n is [sess |-> s, gen |-> n] and stands for an access token and    *)
(* the refresh token issued with it.  A refresh that presents the newest   *)
(* refresh token moves the chain one pair on and retires that token.  The  *)
(* service remembers which operation made the last move, and answers a     *)
(* repetition of that operation with the same pair.                        *)
(***************************************************************************)
EXTENDS Naturals

CONSTANTS
  Session,  \* the device sessions that can exist
  Origin,   \* the API deployments a profile can point at
  Issuer,   \* Issuer[s] is the deployment that issues session s
  NoToken   \* the absence of a stored credential

Token == [sess : Session, gen : Nat]

ASSUME IssuerAssumption == Issuer \in [Session -> Origin]

ASSUME NoTokenAssumption == NoToken \notin Token

(* Operation IDs are uuid4 values: a fresh one differs from all earlier
   ones, which counting upwards from 1 gives.  NoOp is no operation. *)
NoOp == 0

(* A refresh request: the refresh token and operation ID of its JSON body
   and the deployment it is posted to. *)
Request == [tok : Token, op : Nat, to : Origin]

VARIABLES
  issued,    \* sessions the service has created
  ended,     \* sessions it has revoked, expired or asked to sign in again
  newest,    \* newest[s]: generation of the newest pair of session s
  rotatedBy  \* rotatedBy[s]: the operation that produced the newest pair

serverVars == <<issued, ended, newest, rotatedBy>>

ServerTypeOK ==
  /\ issued \in SUBSET Session
  /\ ended \in SUBSET Session
  /\ newest \in [Session -> Nat]
  /\ rotatedBy \in [Session -> Nat]

ServerInit(sessions) ==
  /\ issued = sessions
  /\ ended = {}
  /\ newest = [s \in Session |-> 0]
  /\ rotatedBy = [s \in Session |-> NoOp]

(* The presented token belongs to a session this deployment still serves. *)
Serves(r) ==
  /\ r.tok.sess \in issued \ ended
  /\ Issuer[r.tok.sess] = r.to

Rotates(r) == Serves(r) /\ r.tok.gen = newest[r.tok.sess]

Replays(r) ==
  /\ Serves(r)
  /\ r.tok.gen + 1 = newest[r.tok.sess]
  /\ r.op = rotatedBy[r.tok.sess]

Accepts(r) == Rotates(r) \/ Replays(r)

NextPair(r) == [sess |-> r.tok.sess, gen |-> r.tok.gen + 1]

(* The service's whole treatment of a refresh request. *)
Handle(r) ==
  /\ IF Rotates(r)
       THEN /\ newest' = [newest EXCEPT ![r.tok.sess] = @ + 1]
            /\ rotatedBy' = [rotatedBy EXCEPT ![r.tok.sess] = r.op]
       ELSE UNCHANGED <<newest, rotatedBy>>
  /\ UNCHANGED <<issued, ended>>

(* The poll of an approved device code returns the first pair of a session. *)
Issue(s) ==
  /\ s \notin issued
  /\ issued' = issued \union {s}
  /\ UNCHANGED <<ended, newest, rotatedBy>>

(* A revocation is best effort: it ends the session when it arrives at the
   deployment that issued the token, and may not arrive. *)
Revoke(t, to) ==
  /\ ended' \in {ended} \union
                {ended \union {s} : s \in {t.sess} \intersect
                                          {x \in Session : Issuer[x] = to}}
  /\ UNCHANGED <<issued, newest, rotatedBy>>

(* The service ends a session on its own: expiry, revocation in the web UI,
   a revocation that arrives late, or the answer "refresh_response_unavailable,
   sign in" to a repetition it can no longer answer. *)
EndSession(s) ==
  /\ s \in issued \ ended
  /\ ended' = ended \union {s}
  /\ UNCHANGED <<issued, newest, rotatedBy>>
=============================================================================
