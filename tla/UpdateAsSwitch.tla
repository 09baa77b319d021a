---------------------------- MODULE UpdateAsSwitch ----------------------------
(***************************************************************************)
(* PortableUpdate implements VersionSwitch: the refinement mapping.        *)
(***************************************************************************)
EXTENDS PortableUpdateInv

(* An update in these steps has replaced "current" and can still undo it. *)
UnsettledStep == {"relink", "finalSmoke", "restoreCurrent"}

Unsettled(p) == cmd[p].pc \in UnsettledStep

Whole == {v \in passed : dir[v] = "whole"}

ReturnsTo ==
  IF \E p \in Proc : Unsettled(p)
    THEN cmd[CHOOSE p \in Proc : Unsettled(p)].old
    ELSE NoVersion

Switching ==
  INSTANCE VersionSwitch WITH
    active <- current,
    good   <- Whole,
    back   <- ReturnsTo

(* Seen through the mapping, whatever the update processes, their failures,
   rollbacks and deaths do to the install root is what VersionSwitch allows:
   activate_posix (portable_update.py) makes a version active only when no
   other switch is unsettled and the version is whole and has passed its
   check, returns to the version it replaced and to no other, and removes
   neither of the two. *)
ImplementsVersionSwitch == Switching!Spec
=============================================================================
