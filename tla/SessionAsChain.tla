--------------------------- MODULE SessionAsChain ---------------------------
(***************************************************************************)
(* DeviceSession implements RotationChain: the refinement mapping, for one *)
(* session, which may be any of them.                                      *)
(***************************************************************************)
EXTENDS DeviceSession

CONSTANT Watched  \* the session looked at

ASSUME WatchedAssumption == Watched \in Session
ASSUME NothingAssumption == NoToken \notin Nat

Holds == refresh # NoToken /\ refresh.sess = Watched

Chain ==
  INSTANCE RotationChain WITH
    Nothing <- NoToken,
    head    <- newest[Watched],
    held    <- IF Holds THEN refresh.gen ELSE NoToken,
    claimed <- Holds /\ pending # NoClaim /\ pending.tok = refresh,
    over    <- Watched \in ended

(* Seen through the mapping, everything processes, files and messages do to
   a session is what RotationChain allows: the service's chain only moves
   past a stored refresh token (credentials.py, refresh_expiring_credential)
   that the pending-operation file claims. *)
ImplementsRotationChain == Chain!Spec
=============================================================================
