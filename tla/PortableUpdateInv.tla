--------------------------- MODULE PortableUpdateInv ---------------------------
(***************************************************************************)
(* The inductive invariant of PortableUpdate, from which ActiveRuns and    *)
(* FailureRestores follow.                                                 *)
(***************************************************************************)
EXTENDS PortableUpdate

(* Whoever is in the locked part holds the lock, and knows what to install. *)
LockHeld ==
  \A p \in Proc :
    /\ cmd[p].pc # "idle" => cmd[p].target \in Version
    /\ cmd[p].pc \in LockedStep => lock = p

(* The steps before the first change of a link. *)
UntouchedStep ==
  {"download", "place", "moving", "smoke", "readOld", "switch"}

(* From its lock to its first change of a link, nothing that is active or on
   the bin directory changes under an update, and nothing is to be undone. *)
Untouched(p) ==
  /\ cmd[p].pc \in UntouchedStep => found = [current |-> current, link |-> link]
  /\ cmd[p].pc \in {"chosen"} \union UntouchedStep => ~cmd[p].switched
  /\ cmd[p].pc \in {"chosen"} \union (UntouchedStep \ {"switch"})
       => cmd[p].oldLink = Unread

(* A version that is being put in place is not the active one. *)
Apart(p) ==
  cmd[p].pc \in {"moving", "smoke", "readOld", "switch", "restoreLinks", "remove"}
    => cmd[p].target # current

(* A version is whole, and has passed its check, before it can become active. *)
Checked(p) ==
  /\ cmd[p].pc \in {"smoke", "readOld", "switch"} => dir[cmd[p].target] = "whole"
  /\ cmd[p].pc \in {"readOld", "switch"} => cmd[p].target \in passed

(* What is needed to go back has been read and is still good. *)
CanGoBack(p) ==
  /\ cmd[p].pc = "switch" => /\ cmd[p].old = current
                             /\ cmd[p].oldLink = link
  /\ cmd[p].pc \in {"relink", "finalSmoke", "restoreCurrent"}
       => /\ cmd[p].switched
          /\ cmd[p].old \in passed
          /\ dir[cmd[p].old] = "whole"
          /\ cmd[p].old # cmd[p].target
          /\ cmd[p].old = found.current
          /\ cmd[p].oldLink = found.link
  /\ cmd[p].pc = "restoreCurrent" => cmd[p].next = 1

(* While the links are restored: those before the next are as found, the rest
   is on record unless it was never reached. *)
GoingBack(p) ==
  /\ cmd[p].pc = "restoreLinks"
       => /\ current = found.current
          /\ \A i \in Command :
               /\ i < cmd[p].next => link[i] = found.link[i]
               /\ cmd[p].oldLink[i] \in {"unread", found.link[i]}
               /\ cmd[p].oldLink[i] = "unread" => link[i] = found.link[i]
  /\ cmd[p].pc = "remove" => found = [current |-> current, link |-> link]

Phase(p) == Untouched(p) /\ Apart(p) /\ Checked(p) /\ CanGoBack(p) /\ GoingBack(p)

(* The inductive invariant of activation and rollback: the lock, the link
   "current", the version directories and what an update remembers of the
   links it replaces fit together at every step of activate_posix. *)
UpdateInv ==
  /\ TypeOK
  /\ LockHeld
  /\ ActiveRuns
  /\ \A p \in Proc : Phase(p)
=============================================================================
