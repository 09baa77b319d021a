---------------------------- MODULE RotationChain ----------------------------
(***************************************************************************)
(* What the refresh protocol of rvs promises about one device session,     *)
(* with no processes, files or messages: the service moves the session's   *)
(* chain one pair on only while the holder either has nothing left to lose *)
(* or has durably claimed the move, so a holder is never more than one     *)
(* pair behind and can always repeat the move it is missing.               *)
(***************************************************************************)
EXTENDS Naturals

CONSTANT Nothing  \* the holder has no refresh token of this session; not a number

VARIABLES
  head,    \* generation of the newest pair of the session
  held,    \* generation of the refresh token the holder has stored
  claimed, \* the holder has durably recorded the operation that moves past held
  over     \* the service no longer serves the session

vars == <<head, held, claimed, over>>

TypeOK ==
  /\ head \in Nat
  /\ held \in Nat \union {Nothing}
  /\ claimed \in BOOLEAN
  /\ over \in BOOLEAN

Init ==
  /\ head = 0
  /\ held \in {0, Nothing}
  /\ claimed = FALSE
  /\ over = FALSE

(* The operation ID is durable before the holder's token is spent. *)
Claim ==
  /\ held # Nothing
  /\ ~claimed
  /\ over \/ held = head
  /\ claimed' = TRUE
  /\ UNCHANGED <<head, held, over>>

(* The service spends the newest token. *)
Advance ==
  /\ ~over
  /\ held = Nothing \/ (claimed /\ held = head)
  /\ head' = head + 1
  /\ UNCHANGED <<held, claimed, over>>

(* The holder stores the newest pair's refresh token. *)
Adopt ==
  /\ held' \in Nat
  /\ over \/ held' = head
  /\ claimed' = FALSE
  /\ UNCHANGED <<head, over>>

(* The holder gives its token up: logout, another login, a failed write. *)
Lose ==
  /\ held' = Nothing
  /\ claimed' = FALSE
  /\ UNCHANGED <<head, over>>

(* A claim may be dropped only when it is not needed to catch up. *)
Drop ==
  /\ over \/ held = head
  /\ claimed' = FALSE
  /\ UNCHANGED <<head, held, over>>

End ==
  /\ ~over
  /\ over' = TRUE
  /\ UNCHANGED <<head, held, claimed>>

Next == Claim \/ Advance \/ Adopt \/ Lose \/ Drop \/ End

Spec == Init /\ [][Next]_vars

(* The promise: while the session lives, a stored refresh token is the newest
   one, or one behind with the claim that lets the holder catch up. *)
CanCatchUp ==
  held # Nothing /\ ~over => held = head \/ (claimed /\ held + 1 = head)
=============================================================================
