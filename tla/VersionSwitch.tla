---------------------------- MODULE VersionSwitch ----------------------------
(***************************************************************************)
(* What a portable update of rvs promises about the active version, with   *)
(* no processes, locks or links: one switch is under way at a time, only   *)
(* to a version found good, and until it is settled the version it came    *)
(* from can be returned to; neither that one nor the active one is ever    *)
(* thrown away.                                                            *)
(***************************************************************************)
CONSTANTS
  Version,   \* the releases
  First,     \* the version active at the start
  NoVersion  \* there is no version to return to; not a release

VARIABLES
  active,    \* the version in use
  good,      \* versions that are complete and have passed their check
  back       \* the version an unsettled switch returns to

vars == <<active, good, back>>

Init ==
  /\ active = First
  /\ good = {First}
  /\ back = NoVersion

Verify(v) ==
  /\ good' = good \union {v}
  /\ UNCHANGED <<active, back>>

SwitchTo(v) ==
  /\ back = NoVersion
  /\ v \in good \ {active}
  /\ active' = v
  /\ back' = active
  /\ UNCHANGED good

(* The switch is settled: it is complete, or whoever made it is gone. *)
Settle ==
  /\ back' = NoVersion
  /\ UNCHANGED <<active, good>>

GoBack ==
  /\ back # NoVersion
  /\ active' = back
  /\ back' = NoVersion
  /\ UNCHANGED good

Discard(v) ==
  /\ v \notin {active, back}
  /\ good' = good \ {v}
  /\ UNCHANGED <<active, back>>

Next ==
  \/ \E v \in Version : Verify(v) \/ SwitchTo(v) \/ Discard(v)
  \/ Settle \/ GoBack

Spec == Init /\ [][Next]_vars

(* The promise: what is active, and what a switch returns to, is good. *)
StaysGood ==
  /\ active \in good
  /\ back # NoVersion => back \in good \ {active}
=============================================================================
