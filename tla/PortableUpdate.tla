---------------------------- MODULE PortableUpdate ----------------------------
(***************************************************************************)
(* "rvs update --apply" of a portable installation on POSIX systems        *)
(* (rvs/portable_update.py, rvs/update.py).                                *)
(*                                                                         *)
(* Each version lives in a directory of its own under the install root;    *)
(* the link "current" names the active one and the commands of the bin     *)
(* directory are links through it.  An update takes a file lock, moves the *)
(* new version into place, checks that its executable answers, and then    *)
(* replaces "current" and the command links one atomic rename at a time,   *)
(* undoing all of it when a step fails.  A process can be killed between   *)
(* any two steps; what is on disk stays as it is.  The release a process   *)
(* installs is chosen, and found newer than the version that runs, before  *)
(* the lock is taken.                                                      *)
(***************************************************************************)
EXTENDS Naturals

CONSTANTS
  Proc,       \* the update processes
  NoProc,     \* the update lock is free
  Version,    \* releases, in order
  First,      \* the version installed at the start
  NoVersion,  \* no link, or nothing read yet
  MaxUpdates  \* bound: updates started in one behaviour

ASSUME VersionAssumption == Version \subseteq Nat /\ First \in Version
ASSUME NoVersionAssumption == NoVersion \notin Version
ASSUME UpdaterAssumption == NoProc \notin Proc
ASSUME MaxUpdatesAssumption == MaxUpdates \in Nat

MaybeVersion == Version \union {NoVersion}

(* The commands, in the order in which their links are replaced. *)
Command == 1..3

(* A command in the bin directory: absent, a link through "current", or
   something the user put there that is not a link. *)
Link == {"none", "current", "file"}

DirState == {"absent", "partial", "whole"}

UnlockedStep == {"idle", "chosen"}
ActivationStep == {"smoke", "readOld", "switch", "relink", "finalSmoke"}
RollbackStep == {"restoreCurrent", "restoreLinks", "remove"}
LockedStep ==
  {"download", "place", "moving", "release"} \union ActivationStep \union RollbackStep

VARIABLES
  dir,        \* dir[v]: the directory of version v under the install root
  passed,     \* history: versions in place that have passed their health check
  current,    \* the version the link "current" names
  link,       \* link[i]: the i-th command of the bin directory
  lock,       \* holder of the update lock
  started,    \* updates started
  cmd,        \* cmd[p]: what process p is doing
  found       \* history: "current" and the commands as the lock holder found them

diskVars == <<dir, passed, current, link>>
vars == <<dir, passed, current, link, lock, started, cmd, found>>

(* The locals of an update: the version to install, whether it is active,
   what activation replaces, and the next command to handle. *)
UpdateState ==
  [pc : UnlockedStep \union LockedStep, target : MaybeVersion,
   switched : BOOLEAN, old : MaybeVersion,
   oldLink : [Command -> Link \union {"unread"}], next : Command]

TypeOK ==
  /\ dir \in [Version -> DirState]
  /\ passed \in SUBSET Version
  /\ current \in MaybeVersion
  /\ link \in [Command -> Link]
  /\ lock \in Proc \union {NoProc}
  /\ started \in Nat
  /\ cmd \in [Proc -> UpdateState]
  /\ found \in [current : MaybeVersion, link : [Command -> Link]]

Unread == [i \in Command |-> "unread"]

Idle ==
  [pc |-> "idle", target |-> NoVersion, switched |-> FALSE, old |-> NoVersion,
   oldLink |-> Unread, next |-> 1]

(* An installed version in use; some of its commands may be missing, from an
   older release, or shadowed by a file of the user. *)
Init ==
  /\ dir = [v \in Version |-> IF v = First THEN "whole" ELSE "absent"]
  /\ passed = {First}
  /\ current = First
  /\ link \in [Command -> Link]
  /\ lock = NoProc
  /\ started = 0
  /\ cmd = [p \in Proc |-> Idle]
  /\ found = [current |-> First, link |-> link]

-----------------------------------------------------------------------------
At(p, step) == cmd[p].pc = step

Become(p, c) == cmd' = [cmd EXCEPT ![p] = c]

Goto(p, step) == Become(p, [cmd[p] EXCEPT !.pc = step])

Finish(p) == Become(p, Idle)

(* The executable that runs is the active one.  The manifest, --to or
   --candidate name a release, which is compared with the one that runs. *)
Start(p) ==
  /\ At(p, "idle")
  /\ started < MaxUpdates
  /\ current # NoVersion
  /\ started' = started + 1
  /\ \E v \in Version :
       /\ v > current
       /\ Become(p, [Idle EXCEPT !.pc = "chosen", !.target = v])
  /\ UNCHANGED <<diskVars, lock, found>>

(* The user only looks or declines, or another update runs. *)
Stop(p) ==
  /\ At(p, "chosen")
  /\ Finish(p)
  /\ UNCHANGED <<diskVars, lock, started, found>>

(* Mutant of Acquire: no lock. *)
AcquireUnguarded(p) ==
  /\ At(p, "chosen")
  /\ lock' = p
  /\ found' = [current |-> current, link |-> link]
  /\ Goto(p, "download")
  /\ UNCHANGED <<diskVars, started>>

(* The user agreed and no other update runs.  Nothing is compared again. *)
Acquire(p) ==
  /\ At(p, "chosen")
  /\ lock = NoProc
  /\ lock' = p
  /\ found' = [current |-> current, link |-> link]
  /\ Goto(p, "download")
  /\ UNCHANGED <<diskVars, started>>

(* Downloaded, verified and unpacked outside the install root. *)
Download(p) ==
  /\ At(p, "download")
  /\ Goto(p, "place")
  /\ UNCHANGED <<diskVars, lock, started, found>>

(* No verified download, a version directory that exists, or a move that
   breaks off: the update ends and undoes nothing. *)
PlacingFails(p) ==
  /\ cmd[p].pc \in {"download", "place", "moving"}
  /\ Goto(p, "release")
  /\ UNCHANGED <<diskVars, lock, started, found>>

(* shutil.move copies when the download is on another file system. *)
MoveBegins(p) ==
  /\ At(p, "place")
  /\ dir[cmd[p].target] = "absent"
  /\ dir' = [dir EXCEPT ![cmd[p].target] = "partial"]
  /\ Goto(p, "moving")
  /\ UNCHANGED <<passed, current, link, lock, started, found>>

MoveEnds(p) ==
  /\ At(p, "moving")
  /\ dir' = [dir EXCEPT ![cmd[p].target] = "whole"]
  /\ Goto(p, "smoke")
  /\ UNCHANGED <<passed, current, link, lock, started, found>>

Smoke(p) ==
  /\ At(p, "smoke")
  /\ passed' = passed \union {cmd[p].target}
  /\ Goto(p, "readOld")
  /\ UNCHANGED <<dir, current, link, lock, started, found>>

(* Everything that will be replaced is read first; a command that is not a
   link is refused before anything is replaced. *)
ReadOld(p) ==
  /\ At(p, "readOld")
  /\ \A i \in Command : link[i] # "file"
  /\ Become(p, [cmd[p] EXCEPT !.pc = "switch", !.old = current, !.oldLink = link])
  /\ UNCHANGED <<diskVars, lock, started, found>>

(* Mutant of Switch: that "current" was replaced is not recorded. *)
SwitchUnrecorded(p) ==
  /\ At(p, "switch")
  /\ current' = cmd[p].target
  /\ Become(p, [cmd[p] EXCEPT !.pc = "relink", !.next = 1])
  /\ UNCHANGED <<dir, passed, link, lock, started, found>>

Switch(p) ==
  /\ At(p, "switch")
  /\ current' = cmd[p].target
  /\ Become(p, [cmd[p] EXCEPT !.pc = "relink", !.switched = TRUE, !.next = 1])
  /\ UNCHANGED <<dir, passed, link, lock, started, found>>

(* Mutant of Following: one command too many. *)
FollowingPastEnd(p, last) ==
  IF cmd[p].next <= 3
    THEN [cmd[p] EXCEPT !.next = @ + 1]
    ELSE [cmd[p] EXCEPT !.pc = last]

(* What comes after handling command cmd[p].next. *)
Following(p, last) ==
  IF cmd[p].next < 3
    THEN [cmd[p] EXCEPT !.next = @ + 1]
    ELSE [cmd[p] EXCEPT !.pc = last]

Relink(p) ==
  /\ At(p, "relink")
  /\ link' = [link EXCEPT ![cmd[p].next] = "current"]
  /\ Become(p, Following(p, "finalSmoke"))
  /\ UNCHANGED <<dir, passed, current, lock, started, found>>

FinalSmoke(p) ==
  /\ At(p, "finalSmoke")
  /\ Goto(p, "release")
  /\ UNCHANGED <<diskVars, lock, started, found>>

-----------------------------------------------------------------------------
(* The commands read before one that is refused. *)
ReadUpTo(i) == [j \in Command |-> IF j < i THEN link[j] ELSE "unread"]

(* Any error while activating starts the rollback. *)
ActivationFails(p) ==
  /\ cmd[p].pc \in ActivationStep
  /\ \E i \in Command :
       Become(p, [cmd[p] EXCEPT !.pc = IF @ = "readOld" \/ ~cmd[p].switched
                                         THEN "restoreLinks" ELSE "restoreCurrent",
                                !.oldLink = IF At(p, "readOld") THEN ReadUpTo(i) ELSE @,
                                !.next = 1])
  /\ UNCHANGED <<diskVars, lock, started, found>>

RestoreCurrent(p) ==
  /\ At(p, "restoreCurrent")
  /\ current' = cmd[p].old
  /\ Goto(p, "restoreLinks")
  /\ UNCHANGED <<dir, passed, link, lock, started, found>>

(* Mutant of RestoreLink: a command that was absent before stays. *)
RestoreLinkKeepsNew(p) ==
  /\ At(p, "restoreLinks")
  /\ LET i == cmd[p].next
     IN  link' = IF cmd[p].oldLink[i] \in {"unread", "none"} THEN link
                 ELSE [link EXCEPT ![i] = cmd[p].oldLink[i]]
  /\ Become(p, Following(p, "remove"))
  /\ UNCHANGED <<dir, passed, current, lock, started, found>>

RestoreLink(p) ==
  /\ At(p, "restoreLinks")
  /\ LET i == cmd[p].next
     IN  link' = IF cmd[p].oldLink[i] = "unread" THEN link
                 ELSE [link EXCEPT ![i] = cmd[p].oldLink[i]]
  /\ Become(p, Following(p, "remove"))
  /\ UNCHANGED <<dir, passed, current, lock, started, found>>

(* An error during the rollback leaves the rest of it undone. *)
RollbackFails(p) ==
  /\ cmd[p].pc \in {"restoreCurrent", "restoreLinks"}
  /\ Goto(p, "release")
  /\ UNCHANGED <<diskVars, lock, started, found>>

(* rmtree ignores what it cannot remove. *)
Remove(p) ==
  /\ At(p, "remove")
  /\ \E left \in {"absent", "partial"} : dir' = [dir EXCEPT ![cmd[p].target] = left]
  /\ passed' = passed \ {cmd[p].target}
  /\ Goto(p, "release")
  /\ UNCHANGED <<current, link, lock, started, found>>

Release(p) ==
  /\ At(p, "release")
  /\ lock' = NoProc
  /\ Finish(p)
  /\ UNCHANGED <<diskVars, started, found>>

(* The process is killed or interrupted: no rollback, and the operating
   system frees its lock. *)
Crash(p) ==
  /\ ~At(p, "idle")
  /\ Finish(p)
  /\ lock' = IF lock = p THEN NoProc ELSE lock
  /\ UNCHANGED <<diskVars, started, found>>

Activating(p) ==
  \/ Acquire(p) \/ Download(p) \/ PlacingFails(p) \/ MoveBegins(p) \/ MoveEnds(p)
  \/ Smoke(p) \/ ReadOld(p) \/ Switch(p) \/ Relink(p) \/ FinalSmoke(p)

RollingBack(p) ==
  \/ ActivationFails(p) \/ RestoreCurrent(p) \/ RestoreLink(p)
  \/ RollbackFails(p) \/ Remove(p)

Next ==
  \E p \in Proc :
    \/ Start(p) \/ Stop(p)
    \/ Activating(p) \/ RollingBack(p)
    \/ Release(p) \/ Crash(p)

Spec == Init /\ [][Next]_vars

-----------------------------------------------------------------------------
(* Whatever is killed or fails, and wherever, the active version is a whole
   one that has passed its health check: rvs always starts. *)
ActiveRuns ==
  /\ current \in passed
  /\ dir[current] = "whole"

(* An update that fails and rolls back leaves the active version and all
   commands as it found them before it removes what it had put in place. *)
FailureRestores ==
  \A p \in Proc : At(p, "remove") => found = [current |-> current, link |-> link]

(* An update never replaces the active version by an older one ("The
   requested release is not newer than the installed portable version",
   update.py). *)
SwitchesUp == \A p \in Proc : At(p, "switch") => cmd[p].target > current
=============================================================================
