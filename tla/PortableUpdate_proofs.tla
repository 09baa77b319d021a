------------------------- MODULE PortableUpdate_proofs -------------------------
(***************************************************************************)
(* Proofs about PortableUpdate, for every set of processes and releases:   *)
(* the active version always runs, and an update that fails and rolls back *)
(* leaves everything as it found it.                                       *)
(***************************************************************************)
EXTENDS UpdateAsSwitch, TLAPS

(* The variables other than cmd have their types. *)
DiskTypes ==
  /\ dir \in [Version -> DirState]
  /\ passed \in SUBSET Version
  /\ current \in MaybeVersion
  /\ link \in [Command -> Link]
  /\ lock \in Proc \union {NoProc}
  /\ started \in Nat
  /\ found \in [current : MaybeVersion, link : [Command -> Link]]

(* Process p at a step of the locked part holds the lock. *)
Holds(p) ==
  /\ cmd[p].pc # "idle" => cmd[p].target \in Version
  /\ cmd[p].pc \in LockedStep => lock = p

-----------------------------------------------------------------------------
(* A process that is not past Acquire has no claim on what is on disk. *)
LEMMA Waiting ==
  ASSUME UpdateInv, NEW q \in Proc, cmd[q].pc \notin LockedStep
  PROVE  /\ cmd[q].pc \in {"idle", "chosen"}
         /\ cmd[q].pc = "chosen" => ~cmd[q].switched /\ cmd[q].oldLink = Unread
<1>1. cmd[q] \in UpdateState
  BY DEF UpdateInv, TypeOK
<1>2. cmd[q].pc \in {"idle", "chosen"}
  BY <1>1 DEF UpdateState, UnlockedStep
<1>3. Untouched(q)
  BY DEF UpdateInv, Phase
<1> QED
  BY <1>2, <1>3 DEF Untouched, UntouchedStep

(* A step of process p, which holds the lock or takes it, says nothing of the
   other processes: they wait. *)
LEMMA Alone ==
  ASSUME UpdateInv, NEW p \in Proc, lock \in {p, NoProc},
         cmd' \in [Proc -> UpdateState],
         \A q \in Proc \ {p} : cmd'[q] = cmd[q],
         DiskTypes', ActiveRuns', Holds(p)', Phase(p)'
  PROVE  UpdateInv'
<1>1. ASSUME NEW q \in Proc, q # p
      PROVE  Holds(q)' /\ Phase(q)'
  <2>1. cmd[q].pc \notin LockedStep
    BY <1>1, UpdaterAssumption DEF UpdateInv, LockHeld
  <2>2. /\ cmd[q].pc \in {"idle", "chosen"}
        /\ cmd[q].pc = "chosen" => ~cmd[q].switched /\ cmd[q].oldLink = Unread
    BY <2>1, Waiting
  <2>3. cmd'[q] = cmd[q]
    BY <1>1
  <2>4. Holds(q)'
    BY <2>2, <2>3 DEF Holds, UpdateInv, LockHeld, LockedStep, ActivationStep, RollbackStep
  <2>5. Untouched(q)'
    BY <2>2, <2>3 DEF Untouched, UntouchedStep, Unread
  <2>6. Apart(q)' /\ Checked(q)' /\ CanGoBack(q)' /\ GoingBack(q)'
    BY <2>2, <2>3 DEF Apart, Checked, CanGoBack, GoingBack
  <2> QED
    BY <2>4, <2>5, <2>6 DEF Phase
<1>2. \A q \in Proc : Holds(q)' /\ Phase(q)'
  BY <1>1
<1>3. LockHeld'
  BY <1>2 DEF LockHeld, Holds
<1>4. TypeOK'
  BY DEF DiskTypes, TypeOK
<1> QED
  BY <1>2, <1>3, <1>4 DEF UpdateInv

(* A step that touches nothing but cmd[p], and keeps or frees p's own lock. *)
LEMMA Aside ==
  ASSUME UpdateInv, NEW p \in Proc,
         cmd' \in [Proc -> UpdateState],
         \A q \in Proc \ {p} : cmd'[q] = cmd[q],
         UNCHANGED <<diskVars, found>>,
         lock' = lock \/ (lock = p /\ lock' = NoProc),
         started' \in Nat, Holds(p)', Phase(p)'
  PROVE  UpdateInv'
<1> USE DEF diskVars
<1>1. ASSUME NEW q \in Proc, q # p
      PROVE  Holds(q)' /\ Phase(q)'
  <2>1. cmd'[q] = cmd[q]
    BY <1>1
  <2>2. Holds(q)'
    BY <1>1, <2>1 DEF Holds, UpdateInv, LockHeld
  <2>3. Phase(q)
    BY DEF UpdateInv
  <2>4. Phase(q)'
    BY <2>1, <2>3 DEF Phase, Untouched, Apart, Checked, CanGoBack, GoingBack, Unread
  <2> QED
    BY <2>2, <2>4
<1>2. \A q \in Proc : Holds(q)' /\ Phase(q)'
  BY <1>1
<1>3. LockHeld'
  BY <1>2 DEF LockHeld, Holds
<1>4. TypeOK'
  BY DEF UpdateInv, TypeOK
<1>5. ActiveRuns'
  BY DEF UpdateInv, ActiveRuns
<1> QED
  BY <1>2, <1>3, <1>4, <1>5 DEF UpdateInv

(* What a step that gives p the locals c does to cmd. *)
LEMMA Becomes ==
  ASSUME UpdateInv, NEW p \in Proc, NEW c \in UpdateState, Become(p, c)
  PROVE  /\ cmd' \in [Proc -> UpdateState]
         /\ cmd'[p] = c
         /\ \A q \in Proc \ {p} : cmd'[q] = cmd[q]
BY DEF UpdateInv, TypeOK, Become

LEMMA Facts ==
  ASSUME UpdateInv, NEW p \in Proc
  PROVE  /\ cmd[p] \in UpdateState
         /\ DiskTypes
         /\ Holds(p)
         /\ Untouched(p) /\ Apart(p) /\ Checked(p) /\ CanGoBack(p) /\ GoingBack(p)
         /\ current \in passed /\ current \in Version /\ dir[current] = "whole"
BY DEF UpdateInv, TypeOK, DiskTypes, LockHeld, Holds, Phase, ActiveRuns

LEMMA IdleState == Idle \in UpdateState
BY DEF Idle, UpdateState, UnlockedStep, MaybeVersion, Unread, Command

-----------------------------------------------------------------------------
(* Initially the installed version is in use and nobody updates. *)
LEMMA InitInv == Init => UpdateInv
<1> SUFFICES ASSUME Init PROVE UpdateInv
  OBVIOUS
<1>1. Idle \in UpdateState
  BY IdleState
<1>2. TypeOK
  BY <1>1, VersionAssumption DEF Init, TypeOK, DirState, MaybeVersion
<1>3. \A p \in Proc : cmd[p].pc = "idle"
  BY DEF Init, Idle
<1>4. LockHeld
  BY <1>3 DEF LockHeld, LockedStep, ActivationStep, RollbackStep
<1>5. ActiveRuns
  BY VersionAssumption DEF Init, ActiveRuns
<1>6. ASSUME NEW p \in Proc PROVE Phase(p)
  BY <1>3 DEF Phase, Untouched, UntouchedStep, Apart, Checked, CanGoBack, GoingBack
<1> QED
  BY <1>2, <1>4, <1>5, <1>6 DEF UpdateInv

(* Ending, in whatever way, leaves nothing to say of a process. *)
LEMMA Finishes ==
  ASSUME UpdateInv, NEW p \in Proc, Finish(p), UNCHANGED <<diskVars, found, started>>,
         lock' = lock \/ (lock = p /\ lock' = NoProc)
  PROVE  UpdateInv'
<1>1. Idle \in UpdateState
  BY IdleState
<1>2. /\ cmd' \in [Proc -> UpdateState]
      /\ cmd'[p] = Idle
      /\ \A q \in Proc \ {p} : cmd'[q] = cmd[q]
  BY <1>1, Becomes DEF Finish
<1>3. cmd'[p].pc = "idle"
  BY <1>2 DEF Idle
<1>4. Holds(p)'
  BY <1>3 DEF Holds, LockedStep, ActivationStep, RollbackStep
<1>5. Phase(p)'
  BY <1>3 DEF Phase, Untouched, UntouchedStep, Apart, Checked, CanGoBack, GoingBack
<1>6. started' \in Nat
  BY DEF UpdateInv, TypeOK
<1> QED
  BY <1>2, <1>4, <1>5, <1>6, Aside

LEMMA StartKeeps == ASSUME UpdateInv, NEW p \in Proc, Start(p) PROVE UpdateInv'
<1>1. PICK v \in Version : Become(p, [Idle EXCEPT !.pc = "chosen", !.target = v])
  BY DEF Start
<1> DEFINE c == [Idle EXCEPT !.pc = "chosen", !.target = v]
<1>2. c \in UpdateState
  BY IdleState DEF UpdateState, UnlockedStep, MaybeVersion
<1>3. /\ cmd' \in [Proc -> UpdateState]
      /\ cmd'[p] = c
      /\ \A q \in Proc \ {p} : cmd'[q] = cmd[q]
  BY <1>1, <1>2, Becomes
<1>4. /\ cmd'[p].pc = "chosen"
      /\ cmd'[p].target = v
      /\ cmd'[p].switched = FALSE
      /\ cmd'[p].oldLink = Unread
  BY <1>3 DEF Idle
<1>5. Holds(p)'
  BY <1>4 DEF Holds, LockedStep, ActivationStep, RollbackStep
<1>6. Phase(p)'
  BY <1>4 DEF Phase, Untouched, UntouchedStep, Apart, Checked, CanGoBack, GoingBack, Unread
<1>7. started' \in Nat
  BY DEF Start, UpdateInv, TypeOK
<1>8. lock' = lock /\ UNCHANGED <<diskVars, found>>
  BY DEF Start
<1> QED
  BY <1>3, <1>5, <1>6, <1>7, <1>8, Aside

(* A step that only moves p on, as Goto does. *)
LEMMA Moves ==
  ASSUME UpdateInv, NEW p \in Proc, NEW s \in UnlockedStep \union LockedStep, Goto(p, s)
  PROVE  /\ cmd' \in [Proc -> UpdateState]
         /\ \A q \in Proc \ {p} : cmd'[q] = cmd[q]
         /\ cmd'[p].pc = s
         /\ cmd'[p].target = cmd[p].target
         /\ cmd'[p].switched = cmd[p].switched
         /\ cmd'[p].old = cmd[p].old
         /\ cmd'[p].oldLink = cmd[p].oldLink
         /\ cmd'[p].next = cmd[p].next
<1> DEFINE c == [cmd[p] EXCEPT !.pc = s]
<1>1. cmd[p] \in UpdateState
  BY Facts
<1>2. c \in UpdateState
  BY <1>1 DEF UpdateState
<1>3. Become(p, c)
  BY DEF Goto
<1>4. /\ cmd' \in [Proc -> UpdateState]
      /\ cmd'[p] = c
      /\ \A q \in Proc \ {p} : cmd'[q] = cmd[q]
  BY <1>2, <1>3, Becomes
<1> QED
  BY <1>1, <1>4 DEF UpdateState

(* A step of the lock holder that moves it on and touches nothing else. *)
LEMMA MovesAside ==
  ASSUME UpdateInv, NEW p \in Proc, NEW s \in LockedStep, Goto(p, s),
         cmd[p].pc \in LockedStep, Phase(p)',
         UNCHANGED <<diskVars, lock, started, found>>
  PROVE  UpdateInv'
<1>1. /\ cmd' \in [Proc -> UpdateState]
      /\ \A q \in Proc \ {p} : cmd'[q] = cmd[q]
      /\ cmd'[p].pc = s
      /\ cmd'[p].target = cmd[p].target
  BY Moves
<1>2. Holds(p)
  BY Facts
<1>3. Holds(p)'
  BY <1>1, <1>2 DEF Holds, LockedStep, ActivationStep, RollbackStep
<1>4. started' \in Nat
  BY DEF UpdateInv, TypeOK
<1>5. lock' = lock
  OBVIOUS
<1> QED
  BY <1>1, <1>3, <1>4, <1>5, Aside

(* Taking the free lock: what is found is what is there. *)
LEMMA AcquireKeeps == ASSUME UpdateInv, NEW p \in Proc, Acquire(p) PROVE UpdateInv'
<1> USE DEF diskVars
<1>1. /\ cmd' \in [Proc -> UpdateState]
      /\ \A q \in Proc \ {p} : cmd'[q] = cmd[q]
      /\ cmd'[p].pc = "download"
      /\ cmd'[p].target = cmd[p].target
      /\ cmd'[p].switched = cmd[p].switched
      /\ cmd'[p].oldLink = cmd[p].oldLink
  BY Moves DEF Acquire, LockedStep
<1>2. cmd[p].pc = "chosen"
  BY DEF Acquire, At
<1>3. Holds(p) /\ Untouched(p) /\ DiskTypes
  BY Facts
<1>4. Holds(p)'
  BY <1>1, <1>2, <1>3 DEF Holds, Acquire
<1>5. Phase(p)'
  BY <1>1, <1>2, <1>3 DEF Acquire, Phase, Untouched, UntouchedStep, Apart, Checked,
                          CanGoBack, GoingBack, Unread
<1>6. DiskTypes'
  BY <1>3 DEF Acquire, DiskTypes
<1>7. ActiveRuns'
  BY DEF Acquire, UpdateInv, ActiveRuns
<1>8. lock \in {p, NoProc}
  BY DEF Acquire
<1> QED
  BY <1>1, <1>4, <1>5, <1>6, <1>7, <1>8, Alone

LEMMA DownloadKeeps == ASSUME UpdateInv, NEW p \in Proc, Download(p) PROVE UpdateInv'
<1>1. Goto(p, "place") /\ cmd[p].pc = "download" /\ UNCHANGED <<diskVars, lock, started, found>>
  BY DEF Download, At
<1>2. /\ cmd'[p].pc = "place"
      /\ cmd'[p].switched = cmd[p].switched
      /\ cmd'[p].oldLink = cmd[p].oldLink
  BY <1>1, Moves DEF LockedStep
<1>3. Untouched(p)
  BY Facts
<1>4. Phase(p)'
  BY <1>1, <1>2, <1>3 DEF Phase, Untouched, UntouchedStep, Apart, Checked, CanGoBack,
                          GoingBack, Unread, diskVars
<1> QED
  BY <1>1, <1>4, MovesAside DEF LockedStep

(* Nothing is said of an update that is about to release its lock. *)
LEMMA ReleasingKeeps ==
  ASSUME UpdateInv, NEW p \in Proc, Goto(p, "release"), cmd[p].pc \in LockedStep,
         UNCHANGED <<diskVars, lock, started, found>>
  PROVE  UpdateInv'
<1>1. cmd'[p].pc = "release"
  BY Moves DEF LockedStep
<1>2. Phase(p)'
  BY <1>1 DEF Phase, Untouched, UntouchedStep, Apart, Checked, CanGoBack, GoingBack
<1> QED
  BY <1>2, MovesAside DEF LockedStep

-----------------------------------------------------------------------------
(* The directory the new version goes to was absent, so it is not the active
   one. *)
LEMMA MoveBeginsKeeps == ASSUME UpdateInv, NEW p \in Proc, MoveBegins(p) PROVE UpdateInv'
<1> DEFINE v == cmd[p].target
<1>1. /\ cmd' \in [Proc -> UpdateState]
      /\ \A q \in Proc \ {p} : cmd'[q] = cmd[q]
      /\ cmd'[p].pc = "moving"
      /\ cmd'[p].target = v
      /\ cmd'[p].switched = cmd[p].switched
      /\ cmd'[p].oldLink = cmd[p].oldLink
  BY Moves DEF MoveBegins, LockedStep
<1>2. cmd[p].pc = "place"
  BY DEF MoveBegins, At
<1>3. /\ Holds(p) /\ Untouched(p) /\ DiskTypes
      /\ current \in Version /\ current \in passed /\ dir[current] = "whole"
  BY Facts
<1>4. lock = p /\ v \in Version
  BY <1>2, <1>3 DEF Holds, LockedStep
<1>5. v # current
  BY <1>3 DEF MoveBegins
<1>6. /\ dir' = [dir EXCEPT ![v] = "partial"]
      /\ UNCHANGED <<passed, current, link, lock, started, found>>
  BY DEF MoveBegins
<1>7. DiskTypes'
  BY <1>3, <1>6 DEF DiskTypes, DirState
<1>8. ActiveRuns'
  BY <1>3, <1>4, <1>5, <1>6 DEF ActiveRuns, DiskTypes
<1>9. Holds(p)'
  BY <1>1, <1>4, <1>6 DEF Holds
<1>10. Phase(p)'
  BY <1>1, <1>2, <1>3, <1>5, <1>6 DEF Phase, Untouched, UntouchedStep, Apart, Checked,
                                      CanGoBack, GoingBack, Unread
<1> QED
  BY <1>1, <1>4, <1>7, <1>8, <1>9, <1>10, Alone

LEMMA MoveEndsKeeps == ASSUME UpdateInv, NEW p \in Proc, MoveEnds(p) PROVE UpdateInv'
<1> DEFINE v == cmd[p].target
<1>1. /\ cmd' \in [Proc -> UpdateState]
      /\ \A q \in Proc \ {p} : cmd'[q] = cmd[q]
      /\ cmd'[p].pc = "smoke"
      /\ cmd'[p].target = v
      /\ cmd'[p].switched = cmd[p].switched
      /\ cmd'[p].oldLink = cmd[p].oldLink
  BY Moves DEF MoveEnds, LockedStep, ActivationStep
<1>2. cmd[p].pc = "moving"
  BY DEF MoveEnds, At
<1>3. /\ Holds(p) /\ Untouched(p) /\ Apart(p) /\ DiskTypes
      /\ current \in Version /\ current \in passed /\ dir[current] = "whole"
  BY Facts
<1>4. lock = p /\ v \in Version /\ v # current
  BY <1>2, <1>3 DEF Holds, Apart, LockedStep
<1>5. /\ dir' = [dir EXCEPT ![v] = "whole"]
      /\ UNCHANGED <<passed, current, link, lock, started, found>>
  BY DEF MoveEnds
<1>6. DiskTypes' /\ dir'[v] = "whole"
  BY <1>3, <1>4, <1>5 DEF DiskTypes, DirState
<1>7. ActiveRuns'
  BY <1>3, <1>4, <1>5 DEF ActiveRuns, DiskTypes
<1>8. Holds(p)'
  BY <1>1, <1>4, <1>5 DEF Holds
<1>9. Phase(p)'
  BY <1>1, <1>2, <1>3, <1>4, <1>5, <1>6 DEF Phase, Untouched, UntouchedStep, Apart,
                                      Checked, CanGoBack, GoingBack, Unread
<1> QED
  BY <1>1, <1>4, <1>6, <1>7, <1>8, <1>9, Alone

LEMMA SmokeKeeps == ASSUME UpdateInv, NEW p \in Proc, Smoke(p) PROVE UpdateInv'
<1> DEFINE v == cmd[p].target
<1>1. /\ cmd' \in [Proc -> UpdateState]
      /\ \A q \in Proc \ {p} : cmd'[q] = cmd[q]
      /\ cmd'[p].pc = "readOld"
      /\ cmd'[p].target = v
      /\ cmd'[p].switched = cmd[p].switched
      /\ cmd'[p].oldLink = cmd[p].oldLink
  BY Moves DEF Smoke, LockedStep, ActivationStep
<1>2. cmd[p].pc = "smoke"
  BY DEF Smoke, At
<1>3. /\ Holds(p) /\ Untouched(p) /\ Apart(p) /\ Checked(p) /\ DiskTypes
      /\ current \in Version /\ current \in passed /\ dir[current] = "whole"
  BY Facts
<1>4. lock = p /\ v \in Version
  BY <1>2, <1>3 DEF Holds, LockedStep, ActivationStep
<1>5. /\ passed' = passed \union {v}
      /\ UNCHANGED <<dir, current, link, lock, started, found>>
  BY DEF Smoke
<1>6. DiskTypes'
  BY <1>3, <1>4, <1>5 DEF DiskTypes
<1>7. ActiveRuns'
  BY <1>3, <1>5 DEF ActiveRuns
<1>8. Holds(p)'
  BY <1>1, <1>4, <1>5 DEF Holds
<1>9. Phase(p)'
  BY <1>1, <1>2, <1>3, <1>5 DEF Phase, Untouched, UntouchedStep, Apart,
                                Checked, CanGoBack, GoingBack, Unread
<1> QED
  BY <1>1, <1>4, <1>6, <1>7, <1>8, <1>9, Alone

-----------------------------------------------------------------------------
(* A step of the lock holder that gives it the locals c and touches nothing
   else. *)
LEMMA BecomesAside ==
  ASSUME UpdateInv, NEW p \in Proc, NEW c \in UpdateState, Become(p, c),
         cmd[p].pc \in LockedStep, c.pc \in LockedStep, c.target = cmd[p].target,
         Phase(p)', UNCHANGED <<diskVars, lock, started, found>>
  PROVE  UpdateInv'
<1>1. /\ cmd' \in [Proc -> UpdateState]
      /\ cmd'[p] = c
      /\ \A q \in Proc \ {p} : cmd'[q] = cmd[q]
  BY Becomes
<1>2. Holds(p)
  BY Facts
<1>3. lock' = lock
  OBVIOUS
<1>4. Holds(p)'
  BY <1>1, <1>2, <1>3 DEF Holds, LockedStep, ActivationStep, RollbackStep
<1>5. started' \in Nat
  BY DEF UpdateInv, TypeOK
<1> QED
  BY <1>1, <1>3, <1>4, <1>5, Aside

(* What is read is what was found when the lock was taken. *)
LEMMA ReadOldKeeps == ASSUME UpdateInv, NEW p \in Proc, ReadOld(p) PROVE UpdateInv'
<1> DEFINE c == [cmd[p] EXCEPT !.pc = "switch", !.old = current, !.oldLink = link]
<1>1. /\ Become(p, c)
      /\ cmd[p].pc = "readOld"
      /\ UNCHANGED <<diskVars, lock, started, found>>
  BY DEF ReadOld, At
<1>2. /\ cmd[p] \in UpdateState /\ DiskTypes
      /\ Untouched(p) /\ Apart(p) /\ Checked(p)
  BY Facts
<1>3. c \in UpdateState
  BY <1>2 DEF UpdateState, DiskTypes, LockedStep, ActivationStep
<1>4. /\ c.pc = "switch" /\ c.old = current /\ c.oldLink = link
      /\ c.target = cmd[p].target /\ c.switched = cmd[p].switched
  BY <1>2 DEF UpdateState
<1>5. cmd'[p] = c
  BY <1>1, <1>3, Becomes
<1>6. Phase(p)'
  BY <1>1, <1>2, <1>4, <1>5 DEF Phase, Untouched, UntouchedStep, Apart, Checked,
                                CanGoBack, GoingBack, diskVars
<1> HIDE DEF c
<1> QED
  BY <1>1, <1>3, <1>4, <1>6, BecomesAside DEF LockedStep, ActivationStep

(* The rollback starts with everything on record that it has to restore. *)
LEMMA ActivationFailsKeeps ==
  ASSUME UpdateInv, NEW p \in Proc, ActivationFails(p) PROVE UpdateInv'
<1>1. PICK i \in Command :
        Become(p, [cmd[p] EXCEPT !.pc = IF @ = "readOld" \/ ~cmd[p].switched
                                          THEN "restoreLinks" ELSE "restoreCurrent",
                                 !.oldLink = IF At(p, "readOld") THEN ReadUpTo(i) ELSE @,
                                 !.next = 1])
  BY DEF ActivationFails
<1> DEFINE step == IF cmd[p].pc = "readOld" \/ ~cmd[p].switched
                     THEN "restoreLinks" ELSE "restoreCurrent"
           known == IF cmd[p].pc = "readOld" THEN ReadUpTo(i) ELSE cmd[p].oldLink
           c == [cmd[p] EXCEPT !.pc = step, !.oldLink = known, !.next = 1]
<1>2. /\ Become(p, c)
      /\ cmd[p].pc \in ActivationStep
      /\ UNCHANGED <<diskVars, lock, started, found>>
  BY <1>1 DEF ActivationFails, At
<1>3. /\ cmd[p] \in UpdateState /\ DiskTypes
      /\ Untouched(p) /\ Apart(p) /\ Checked(p) /\ CanGoBack(p)
  BY Facts
<1>4. known \in [Command -> Link \union {"unread"}]
  BY <1>3 DEF UpdateState, ReadUpTo, DiskTypes
<1>5. step \in RollbackStep
  BY DEF RollbackStep
<1>6. c \in UpdateState
  <2>1. step \in LockedStep /\ 1 \in Command
    BY <1>5 DEF LockedStep, Command
  <2> HIDE DEF step, known
  <2> QED
    BY <1>3, <1>4, <2>1 DEF UpdateState
<1>7. /\ c.pc = step /\ c.oldLink = known /\ c.next = 1 /\ c.old = cmd[p].old
      /\ c.target = cmd[p].target /\ c.switched = cmd[p].switched
  BY <1>3 DEF UpdateState
<1>8. cmd'[p] = c
  BY <1>2, <1>6, Becomes
<1>9. ASSUME cmd[p].pc \in {"smoke", "readOld", "switch"}
      PROVE  Phase(p)'
  <2>1. step = "restoreLinks"
    BY <1>3, <1>9 DEF Untouched, UntouchedStep
  <2>2. found = [current |-> current, link |-> link] /\ cmd[p].target # current
    BY <1>3, <1>9 DEF Untouched, UntouchedStep, Apart
  <2>3. \A j \in Command : known[j] \in {"unread", link[j]}
    BY <1>3, <1>9 DEF Untouched, UntouchedStep, Unread, CanGoBack, ReadUpTo
  <2>4. /\ cmd'[p].pc = "restoreLinks" /\ cmd'[p].oldLink = known /\ cmd'[p].next = 1
        /\ cmd'[p].target = cmd[p].target
    BY <2>1, <1>7, <1>8
  <2> HIDE DEF known
  <2>5. Untouched(p)' /\ Apart(p)' /\ Checked(p)' /\ CanGoBack(p)'
    BY <2>2, <2>4, <1>2 DEF Untouched, UntouchedStep, Apart, Checked, CanGoBack, diskVars
  <2>6. GoingBack(p)'
    BY <2>2, <2>3, <2>4, <1>2 DEF GoingBack, diskVars, Command
  <2> QED
    BY <2>5, <2>6 DEF Phase
<1>10. ASSUME cmd[p].pc \in {"relink", "finalSmoke"}
       PROVE  Phase(p)'
  <2>1. cmd[p].switched
    BY <1>3, <1>10 DEF CanGoBack
  <2>2. step = "restoreCurrent" /\ known = cmd[p].oldLink
    BY <2>1, <1>10
  <2>3. /\ cmd'[p].pc = "restoreCurrent" /\ cmd'[p].oldLink = cmd[p].oldLink
        /\ cmd'[p].target = cmd[p].target /\ cmd'[p].old = cmd[p].old
        /\ cmd'[p].switched = cmd[p].switched /\ cmd'[p].next = 1
    BY <2>2, <1>7, <1>8
  <2> QED
    BY <2>3, <1>2, <1>3, <1>10 DEF Phase, Untouched, UntouchedStep, Apart, Checked,
                                   CanGoBack, GoingBack, diskVars
<1>11. Phase(p)'
  BY <1>2, <1>9, <1>10 DEF ActivationStep
<1>12. c.pc \in LockedStep /\ cmd[p].pc \in LockedStep
  BY <1>2, <1>5, <1>7 DEF LockedStep
<1> HIDE DEF c
<1> QED
  BY <1>2, <1>6, <1>7, <1>11, <1>12, BecomesAside

-----------------------------------------------------------------------------
(* The version that becomes active is whole and has passed its check; the one
   it replaces stays so, and is on record. *)
LEMMA SwitchKeeps == ASSUME UpdateInv, NEW p \in Proc, Switch(p) PROVE UpdateInv'
<1> DEFINE c == [cmd[p] EXCEPT !.pc = "relink", !.switched = TRUE, !.next = 1]
<1>1. /\ Become(p, c)
      /\ cmd[p].pc = "switch"
      /\ current' = cmd[p].target
      /\ UNCHANGED <<dir, passed, link, lock, started, found>>
  BY DEF Switch, At
<1>2. /\ cmd[p] \in UpdateState /\ DiskTypes /\ Holds(p)
      /\ Untouched(p) /\ Apart(p) /\ Checked(p) /\ CanGoBack(p)
      /\ current \in passed /\ dir[current] = "whole"
  BY Facts
<1>3. c \in UpdateState
  <2>1. "relink" \in LockedStep /\ 1 \in Command
    BY DEF LockedStep, ActivationStep, Command
  <2> QED
    BY <1>2, <2>1 DEF UpdateState
<1>4. /\ c.pc = "relink" /\ c.switched /\ c.old = cmd[p].old
      /\ c.oldLink = cmd[p].oldLink /\ c.target = cmd[p].target
  BY <1>2 DEF UpdateState
<1>5. /\ cmd' \in [Proc -> UpdateState]
      /\ cmd'[p] = c
      /\ \A q \in Proc \ {p} : cmd'[q] = cmd[q]
  BY <1>1, <1>3, Becomes
<1> HIDE DEF c
<1>6. lock = p /\ cmd[p].target \in Version
  BY <1>1, <1>2 DEF Holds, LockedStep, ActivationStep
<1>7. DiskTypes'
  BY <1>1, <1>2, <1>6 DEF DiskTypes, MaybeVersion
<1>8. ActiveRuns'
  BY <1>1, <1>2 DEF ActiveRuns, Checked
<1>9. Holds(p)'
  BY <1>1, <1>4, <1>5, <1>6 DEF Holds
<1>10. Phase(p)'
  BY <1>1, <1>2, <1>4, <1>5 DEF Phase, Untouched, UntouchedStep, Apart, Checked,
                                CanGoBack, GoingBack
<1> QED
  BY <1>5, <1>6, <1>7, <1>8, <1>9, <1>10, Alone

(* Moving on to the next command, or past the last one. *)
LEMMA FollowingFacts ==
  ASSUME UpdateInv, NEW p \in Proc, NEW last \in LockedStep, cmd[p].pc \in LockedStep
  PROVE  LET c == Following(p, last) IN
         /\ c \in UpdateState
         /\ c.pc \in LockedStep
         /\ \/ c.pc = cmd[p].pc /\ cmd[p].next < 3 /\ c.next = cmd[p].next + 1
            \/ c.pc = last /\ cmd[p].next = 3 /\ c.next = cmd[p].next
         /\ c.target = cmd[p].target /\ c.switched = cmd[p].switched
         /\ c.old = cmd[p].old /\ c.oldLink = cmd[p].oldLink
<1>1. cmd[p] \in UpdateState /\ cmd[p].next \in {1, 2, 3}
  BY Facts DEF UpdateState, Command
<1>2. CASE cmd[p].next < 3
  BY <1>1, <1>2 DEF Following, UpdateState, Command
<1>3. CASE cmd[p].next = 3
  BY <1>1, <1>3 DEF Following, UpdateState, Command
<1> QED
  BY <1>1, <1>2, <1>3

LEMMA RelinkKeeps == ASSUME UpdateInv, NEW p \in Proc, Relink(p) PROVE UpdateInv'
<1> DEFINE c == Following(p, "finalSmoke")
<1>1. /\ Become(p, c)
      /\ cmd[p].pc = "relink"
      /\ link' = [link EXCEPT ![cmd[p].next] = "current"]
      /\ UNCHANGED <<dir, passed, current, lock, started, found>>
  BY DEF Relink, At
<1>2. /\ DiskTypes /\ Holds(p) /\ CanGoBack(p)
      /\ current \in passed /\ dir[current] = "whole"
  BY Facts
<1>3. /\ c \in UpdateState
      /\ c.pc \in {"relink", "finalSmoke"}
      /\ c.target = cmd[p].target /\ c.switched = cmd[p].switched
      /\ c.old = cmd[p].old /\ c.oldLink = cmd[p].oldLink
  BY <1>1, FollowingFacts DEF LockedStep, ActivationStep
<1> HIDE DEF c
<1>4. /\ cmd' \in [Proc -> UpdateState]
      /\ cmd'[p] = c
      /\ \A q \in Proc \ {p} : cmd'[q] = cmd[q]
  BY <1>1, <1>3, Becomes
<1>5. lock = p /\ cmd[p].target \in Version
  BY <1>1, <1>2 DEF Holds, LockedStep, ActivationStep
<1>6. DiskTypes'
  BY <1>1, <1>2 DEF DiskTypes, Link
<1>7. ActiveRuns'
  BY <1>1, <1>2 DEF ActiveRuns
<1>8. Holds(p)'
  BY <1>1, <1>3, <1>4, <1>5 DEF Holds
<1>9. Phase(p)'
  BY <1>1, <1>2, <1>3, <1>4 DEF Phase, Untouched, UntouchedStep, Apart, Checked,
                                CanGoBack, GoingBack
<1> QED
  BY <1>4, <1>5, <1>6, <1>7, <1>8, <1>9, Alone

-----------------------------------------------------------------------------
LEMMA RestoreCurrentKeeps ==
  ASSUME UpdateInv, NEW p \in Proc, RestoreCurrent(p) PROVE UpdateInv'
<1>1. /\ cmd' \in [Proc -> UpdateState]
      /\ \A q \in Proc \ {p} : cmd'[q] = cmd[q]
      /\ cmd'[p].pc = "restoreLinks"
      /\ cmd'[p].target = cmd[p].target
      /\ cmd'[p].oldLink = cmd[p].oldLink
      /\ cmd'[p].next = cmd[p].next
  BY Moves DEF RestoreCurrent, LockedStep, RollbackStep
<1>2. /\ cmd[p].pc = "restoreCurrent"
      /\ current' = cmd[p].old
      /\ UNCHANGED <<dir, passed, link, lock, started, found>>
  BY DEF RestoreCurrent, At
<1>3. cmd[p] \in UpdateState /\ DiskTypes /\ Holds(p) /\ CanGoBack(p)
  BY Facts
<1>4. lock = p /\ cmd[p].target \in Version
  BY <1>2, <1>3 DEF Holds, LockedStep, RollbackStep
<1>5. DiskTypes'
  BY <1>2, <1>3 DEF DiskTypes, UpdateState
<1>6. ActiveRuns'
  BY <1>2, <1>3 DEF ActiveRuns, CanGoBack
<1>7. Holds(p)'
  BY <1>1, <1>2, <1>4 DEF Holds
<1>8. Untouched(p)' /\ Apart(p)' /\ Checked(p)' /\ CanGoBack(p)'
  BY <1>1, <1>2, <1>3 DEF Untouched, UntouchedStep, Apart, Checked, CanGoBack
<1>9. GoingBack(p)'
  <2>1. \A i \in Command : found.link[i] # "unread" /\ ~(i < 1)
    BY <1>3 DEF DiskTypes, Link, Command
  <2> QED
    BY <1>1, <1>2, <1>3, <2>1 DEF GoingBack, CanGoBack
<1> QED
  BY <1>1, <1>4, <1>5, <1>6, <1>7, <1>8, <1>9, Alone DEF Phase

LEMMA RestoreLinkKeeps ==
  ASSUME UpdateInv, NEW p \in Proc, RestoreLink(p) PROVE UpdateInv'
<1> DEFINE c == Following(p, "remove")
           i == cmd[p].next
<1>1. /\ Become(p, c)
      /\ cmd[p].pc = "restoreLinks"
      /\ link' = IF cmd[p].oldLink[i] = "unread" THEN link
                 ELSE [link EXCEPT ![i] = cmd[p].oldLink[i]]
      /\ UNCHANGED <<dir, passed, current, lock, started, found>>
  BY DEF RestoreLink, At
<1>2. /\ cmd[p] \in UpdateState /\ DiskTypes /\ Holds(p) /\ Apart(p) /\ GoingBack(p)
      /\ current \in passed /\ dir[current] = "whole"
  BY Facts
<1>3. /\ c \in UpdateState
      /\ c.target = cmd[p].target /\ c.oldLink = cmd[p].oldLink
      /\ \/ c.pc = "restoreLinks" /\ i < 3 /\ c.next = i + 1
         \/ c.pc = "remove" /\ i = 3
  BY <1>1, FollowingFacts DEF LockedStep, RollbackStep
<1> HIDE DEF c
<1>4. /\ cmd' \in [Proc -> UpdateState]
      /\ cmd'[p] = c
      /\ \A q \in Proc \ {p} : cmd'[q] = cmd[q]
  BY <1>1, <1>3, Becomes
<1>5. lock = p /\ cmd[p].target \in Version
  BY <1>1, <1>2 DEF Holds, LockedStep, RollbackStep
<1>6. i \in Command /\ cmd[p].oldLink[i] \in Link \union {"unread"}
  BY <1>2 DEF UpdateState
<1>7. link' \in [Command -> Link]
  BY <1>1, <1>2, <1>6 DEF DiskTypes
<1>8. link'[i] = found.link[i] /\ \A j \in Command \ {i} : link'[j] = link[j]
  BY <1>1, <1>2, <1>6 DEF DiskTypes, GoingBack
<1>9. \A j \in Command : link[j] = found.link[j] => link'[j] = found.link[j]
  BY <1>8
<1>10. DiskTypes'
  BY <1>1, <1>2, <1>7 DEF DiskTypes
<1>11. ActiveRuns'
  BY <1>1, <1>2 DEF ActiveRuns
<1>12. Holds(p)'
  BY <1>1, <1>3, <1>4, <1>5 DEF Holds
<1>13. Untouched(p)' /\ Apart(p)' /\ Checked(p)' /\ CanGoBack(p)'
  BY <1>1, <1>2, <1>3, <1>4 DEF Untouched, UntouchedStep, Apart, Checked, CanGoBack
<1>14. GoingBack(p)'
  <2>1. CASE c.pc = "restoreLinks" /\ c.next = i + 1
    <3>1. ASSUME NEW j \in Command, j < i + 1
          PROVE  link'[j] = found.link[j]
      <4>1. j = i \/ j < i
        BY <1>6, <3>1 DEF Command
      <4> QED
        BY <4>1, <1>1, <1>2, <1>8, <1>9 DEF GoingBack
    <3> QED
      BY <2>1, <3>1, <1>1, <1>2, <1>3, <1>4, <1>9 DEF GoingBack
  <2>2. CASE c.pc = "remove" /\ i = 3
    <3>1. ASSUME NEW j \in Command
          PROVE  link'[j] = found.link[j]
      <4>1. j = i \/ j < i
        BY <2>2 DEF Command
      <4> QED
        BY <4>1, <1>1, <1>2, <1>8, <1>9 DEF GoingBack
    <3>2. link' = found.link
      BY <3>1, <1>2, <1>7 DEF DiskTypes
    <3>3. found = [current |-> current', link |-> link']
      BY <3>2, <1>1, <1>2 DEF DiskTypes, GoingBack
    <3> QED
      BY <2>2, <3>3, <1>1, <1>4 DEF GoingBack
  <2> QED
    BY <1>3, <2>1, <2>2
<1> QED
  BY <1>4, <1>5, <1>10, <1>11, <1>12, <1>13, <1>14, Alone DEF Phase

(* The version that is removed is not the active one. *)
LEMMA RemoveKeeps == ASSUME UpdateInv, NEW p \in Proc, Remove(p) PROVE UpdateInv'
<1> DEFINE v == cmd[p].target
<1>1. /\ cmd' \in [Proc -> UpdateState]
      /\ \A q \in Proc \ {p} : cmd'[q] = cmd[q]
      /\ cmd'[p].pc = "release"
      /\ cmd'[p].target = v
  BY Moves DEF Remove, LockedStep
<1>2. PICK left \in {"absent", "partial"} : dir' = [dir EXCEPT ![v] = left]
  BY DEF Remove
<1>3. /\ cmd[p].pc = "remove"
      /\ passed' = passed \ {v}
      /\ UNCHANGED <<current, link, lock, started, found>>
  BY DEF Remove, At
<1>4. /\ DiskTypes /\ Holds(p) /\ Apart(p)
      /\ current \in Version /\ current \in passed /\ dir[current] = "whole"
  BY Facts
<1>5. lock = p /\ v \in Version /\ v # current
  BY <1>3, <1>4 DEF Holds, Apart, LockedStep, RollbackStep
<1>6. DiskTypes'
  BY <1>2, <1>3, <1>4 DEF DiskTypes, DirState
<1>7. ActiveRuns'
  BY <1>2, <1>3, <1>4, <1>5 DEF ActiveRuns, DiskTypes
<1>8. Holds(p)'
  BY <1>1, <1>3, <1>5 DEF Holds
<1>9. Phase(p)'
  BY <1>1 DEF Phase, Untouched, UntouchedStep, Apart, Checked, CanGoBack, GoingBack
<1> QED
  BY <1>1, <1>5, <1>6, <1>7, <1>8, <1>9, Alone

-----------------------------------------------------------------------------
(* Steps after which p only has its lock to give back. *)
LEMMA EndingKeeps ==
  ASSUME UpdateInv, NEW p \in Proc, PlacingFails(p) \/ FinalSmoke(p) \/ RollbackFails(p)
  PROVE  UpdateInv'
<1>1. /\ Goto(p, "release")
      /\ UNCHANGED <<diskVars, lock, started, found>>
  BY DEF PlacingFails, FinalSmoke, RollbackFails
<1>2. cmd[p].pc \in LockedStep
  BY DEF PlacingFails, FinalSmoke, RollbackFails, At, LockedStep, ActivationStep, RollbackStep
<1> QED
  BY <1>1, <1>2, ReleasingKeeps

(* Steps that end the process; a killed one loses its lock. *)
LEMMA FinishingKeeps ==
  ASSUME UpdateInv, NEW p \in Proc, Stop(p) \/ Release(p) \/ Crash(p)
  PROVE  UpdateInv'
<1>1. Finish(p) /\ UNCHANGED <<diskVars, found, started>>
  BY DEF Stop, Release, Crash
<1>2. CASE Stop(p)
  BY <1>1, <1>2, Finishes DEF Stop
<1>3. CASE Release(p)
  <2>1. lock = p
    BY <1>3, Facts DEF Release, At, Holds, LockedStep
  <2> QED
    BY <1>1, <1>3, <2>1, Finishes DEF Release
<1>4. CASE Crash(p)
  BY <1>1, <1>4, Finishes DEF Crash
<1> QED
  BY <1>2, <1>3, <1>4

LEMMA NextKeeps == UpdateInv /\ [Next]_vars => UpdateInv'
<1> SUFFICES ASSUME UpdateInv, [Next]_vars PROVE UpdateInv'
  OBVIOUS
<1>1. CASE UNCHANGED vars
  BY <1>1 DEF vars, UpdateInv, TypeOK, LockHeld, ActiveRuns, Phase, Untouched, Apart,
              Checked, CanGoBack, GoingBack, Unread
<1>2. CASE Next
  <2>1. PICK p \in Proc : \/ Start(p) \/ Stop(p) \/ Activating(p)
                           \/ RollingBack(p) \/ Release(p) \/ Crash(p)
    BY <1>2 DEF Next
  <2>2. CASE Start(p)
    BY <2>2, StartKeeps
  <2>3. CASE Stop(p) \/ Release(p) \/ Crash(p)
    BY <2>3, FinishingKeeps
  <2>4. CASE Activating(p)
    BY <2>4, AcquireKeeps, DownloadKeeps, MoveBeginsKeeps, MoveEndsKeeps, SmokeKeeps,
       ReadOldKeeps, SwitchKeeps, RelinkKeeps, EndingKeeps DEF Activating
  <2>5. CASE RollingBack(p)
    BY <2>5, ActivationFailsKeeps, RestoreCurrentKeeps, RestoreLinkKeeps, RemoveKeeps,
       EndingKeeps DEF RollingBack
  <2> QED
    BY <2>1, <2>2, <2>3, <2>4, <2>5
<1> QED
  BY <1>1, <1>2

-----------------------------------------------------------------------------
(* activate_posix under update_lock, with kills and failures anywhere, keeps
   UpdateInv: this is the induction all that follows rests on. *)
THEOREM UpdateCorrect == Spec => []UpdateInv
<1>1. Init => UpdateInv
  BY InitInv
<1>2. UpdateInv /\ [Next]_vars => UpdateInv'
  BY NextKeeps
<1> QED
  BY <1>1, <1>2, PTL DEF Spec

(* Every variable of a portable update keeps its type, for every set of processes
   and releases: the locals activate_posix uses are there when it uses them. *)
THEOREM TypeCorrect == Spec => []TypeOK
<1>1. UpdateInv => TypeOK
  BY DEF UpdateInv
<1> QED
  BY <1>1, UpdateCorrect, PTL

(* For every set of processes and releases, the active version is always whole
   and has passed its health check: no kill or failure of an update leaves an
   rvs that does not start. *)
THEOREM AlwaysRuns == Spec => []ActiveRuns
<1>1. UpdateInv => ActiveRuns
  BY DEF UpdateInv
<1> QED
  BY <1>1, UpdateCorrect, PTL

(* For every set of processes and releases, a rollback that has run through
   leaves the active version and all commands as its update found them. *)
THEOREM RollbackRestores == Spec => []FailureRestores
<1>1. UpdateInv => FailureRestores
  BY DEF UpdateInv, Phase, GoingBack, FailureRestores, At
<1> QED
  BY <1>1, UpdateCorrect, PTL

-----------------------------------------------------------------------------
(* What UpdateAsSwitch reads off the state. *)
Seen == <<current, Whole, ReturnsTo>>

(* One step, seen through the mapping. *)
SwitchingStep == [Switching!Next]_(Switching!vars)

(* The lock makes the process with an unsettled switch the only one. *)
LEMMA OneUnsettled ==
  ASSUME UpdateInv, NEW p \in Proc, NEW q \in Proc, Unsettled(p), cmd[q].pc \in LockedStep
  PROVE  p = q
<1>1. cmd[p].pc \in LockedStep
  BY DEF Unsettled, UnsettledStep, LockedStep, ActivationStep, RollbackStep
<1> QED
  BY <1>1 DEF UpdateInv, LockHeld

LEMMA ReturnsToOld ==
  ASSUME UpdateInv, NEW p \in Proc, Unsettled(p)
  PROVE  ReturnsTo = cmd[p].old
<1>1. \A q \in Proc : Unsettled(q) => q = p
  BY OneUnsettled DEF Unsettled, UnsettledStep, LockedStep, ActivationStep, RollbackStep
<1> DEFINE c == CHOOSE q \in Proc : Unsettled(q)
<1>2. c \in Proc /\ Unsettled(c)
  OBVIOUS
<1>3. c = p
  BY <1>1, <1>2
<1> QED
  BY <1>3 DEF ReturnsTo

LEMMA NothingToReturnTo ==
  ASSUME \A q \in Proc : ~Unsettled(q)
  PROVE  ReturnsTo = NoVersion
BY DEF ReturnsTo

(* The same of the next state. *)
LEMMA NextReturnsToOld ==
  ASSUME UpdateInv', NEW p \in Proc, Unsettled(p)'
  PROVE  ReturnsTo' = cmd'[p].old
<1>1. ASSUME NEW q \in Proc, Unsettled(q)' PROVE q = p
  BY <1>1 DEF UpdateInv, LockHeld, Unsettled, UnsettledStep, LockedStep, ActivationStep,
              RollbackStep
<1> DEFINE c == CHOOSE q \in Proc : cmd'[q].pc \in UnsettledStep
<1>2. c \in Proc /\ cmd'[c].pc \in UnsettledStep
  BY DEF Unsettled
<1>3. c = p
  BY <1>1, <1>2 DEF Unsettled
<1> QED
  BY <1>3 DEF ReturnsTo, Unsettled

LEMMA NextNothingToReturnTo ==
  ASSUME \A q \in Proc : ~Unsettled(q)'
  PROVE  ReturnsTo' = NoVersion
BY DEF ReturnsTo

(* Whatever p's next locals are, those of the others stay. *)
LEMMA Became ==
  ASSUME UpdateInv, NEW p \in Proc, NEW c, Become(p, c)
  PROVE  cmd'[p] = c /\ \A q \in Proc \ {p} : cmd'[q] = cmd[q]
BY DEF UpdateInv, TypeOK, Become

(* A step of p that leaves it where it was, as far as going back is concerned. *)
LEMMA ReturnKept ==
  ASSUME UpdateInv, UpdateInv', NEW p \in Proc,
         \A q \in Proc \ {p} : cmd'[q] = cmd[q],
         Unsettled(p)' <=> Unsettled(p),
         Unsettled(p) => cmd'[p].old = cmd[p].old
  PROVE  ReturnsTo' = ReturnsTo
<1>1. \A q \in Proc \ {p} : Unsettled(q)' <=> Unsettled(q)
  BY DEF Unsettled
<1>2. CASE \E q \in Proc : Unsettled(q)
  <2>1. PICK q \in Proc : Unsettled(q)
    BY <1>2
  <2>2. Unsettled(q)' /\ cmd'[q].old = cmd[q].old
    BY <1>1, <2>1
  <2>3. ReturnsTo = cmd[q].old
    BY <2>1, ReturnsToOld
  <2>4. ReturnsTo' = cmd'[q].old
    BY <2>2, NextReturnsToOld
  <2> QED
    BY <2>2, <2>3, <2>4
<1>3. CASE \A q \in Proc : ~Unsettled(q)
  <2>1. \A q \in Proc : ~Unsettled(q)'
    BY <1>1, <1>3
  <2>2. ReturnsTo' = NoVersion
    BY <2>1, NextNothingToReturnTo
  <2>3. ReturnsTo = NoVersion
    BY <1>3, NothingToReturnTo
  <2> QED
    BY <2>2, <2>3
<1> QED
  BY <1>2, <1>3

(* The lock holder settles its switch: nothing is left to return to. *)
LEMMA ReturnGone ==
  ASSUME UpdateInv, UpdateInv', NEW p \in Proc,
         \A q \in Proc \ {p} : cmd'[q] = cmd[q],
         cmd[p].pc \in LockedStep, ~Unsettled(p)'
  PROVE  ReturnsTo' = NoVersion
<1>1. \A q \in Proc : Unsettled(q) => q = p
  BY OneUnsettled
<1>2. \A q \in Proc : ~Unsettled(q)'
  BY <1>1 DEF Unsettled
<1> QED
  BY <1>2, NextNothingToReturnTo

LEMMA WholeKept ==
  ASSUME dir' = dir, passed' = passed
  PROVE  Whole' = Whole
BY DEF Whole

(* A step of p that changes neither version directories nor "current", and
   starts no switch: it settles p's switch or is not seen at all. *)
LEMMA SettlesOrStutters ==
  ASSUME UpdateInv, UpdateInv', NEW p \in Proc,
         \A q \in Proc \ {p} : cmd'[q] = cmd[q],
         UNCHANGED <<dir, passed, current>>,
         Unsettled(p)' => Unsettled(p) /\ cmd'[p].old = cmd[p].old
  PROVE  SwitchingStep
<1>1. Whole' = Whole
  BY WholeKept
<1>2. CASE Unsettled(p) /\ ~Unsettled(p)'
  <2>1. cmd[p].pc \in LockedStep
    BY <1>2 DEF Unsettled, UnsettledStep, LockedStep, ActivationStep, RollbackStep
  <2>2. ReturnsTo' = NoVersion
    BY <1>2, <2>1, ReturnGone
  <2>3. Switching!Settle
    BY <1>1, <2>2 DEF Switching!Settle
  <2> QED
    BY <2>3 DEF SwitchingStep, Switching!Next
<1>3. CASE Unsettled(p)' <=> Unsettled(p)
  <2>1. Unsettled(p) => cmd'[p].old = cmd[p].old
    BY <1>3
  <2>2. ReturnsTo' = ReturnsTo
    BY <1>3, <2>1, ReturnKept
  <2> QED
    BY <1>1, <2>2 DEF SwitchingStep, Switching!vars
<1> QED
  BY <1>2, <1>3

(* Steps that move on, wait or fail: chosen or declined, locked, downloaded,
   read, relinked, checked, given up, released or killed. *)
LEMMA LinkStepsAsSwitch ==
  ASSUME UpdateInv, UpdateInv', NEW p \in Proc,
         \/ Start(p) \/ Stop(p) \/ Acquire(p) \/ Download(p) \/ PlacingFails(p)
         \/ ReadOld(p) \/ Relink(p) \/ FinalSmoke(p) \/ ActivationFails(p)
         \/ RestoreLink(p) \/ RollbackFails(p) \/ Release(p) \/ Crash(p)
  PROVE  SwitchingStep
<1> USE DEF Unsettled, UnsettledStep
<1>1. cmd[p] \in UpdateState
  BY Facts
<1>2. UNCHANGED <<dir, passed, current>>
  BY DEF Start, Stop, Acquire, Download, PlacingFails, ReadOld, Relink, FinalSmoke,
         ActivationFails, RestoreLink, RollbackFails, Release, Crash, diskVars
<1>3. CASE Stop(p) \/ Release(p) \/ Crash(p)
  <2>1. Become(p, Idle)
    BY <1>3 DEF Stop, Release, Crash, Finish
  <2>2. cmd'[p] = Idle /\ \A q \in Proc \ {p} : cmd'[q] = cmd[q]
    BY <2>1, Became
  <2>3. ~Unsettled(p)'
    BY <2>2 DEF Idle
  <2> QED
    BY <1>2, <2>2, <2>3, SettlesOrStutters
<1>4. CASE Start(p)
  <2>1. PICK v \in Version : Become(p, [Idle EXCEPT !.pc = "chosen", !.target = v])
    BY <1>4 DEF Start
  <2> DEFINE c == [Idle EXCEPT !.pc = "chosen", !.target = v]
  <2>2. cmd'[p] = c /\ \A q \in Proc \ {p} : cmd'[q] = cmd[q]
    BY <2>1, Became
  <2>3. ~Unsettled(p)'
    BY <2>2 DEF Idle
  <2> QED
    BY <1>2, <2>2, <2>3, SettlesOrStutters
<1>5. CASE \/ Acquire(p) \/ Download(p) \/ PlacingFails(p) \/ FinalSmoke(p) \/ RollbackFails(p)
  <2>1. PICK s \in {"download", "place", "release"} : Goto(p, s)
    BY <1>5 DEF Acquire, Download, PlacingFails, FinalSmoke, RollbackFails
  <2>2. s \in UnlockedStep \union LockedStep
    BY DEF LockedStep
  <2>3. cmd'[p].pc = s /\ \A q \in Proc \ {p} : cmd'[q] = cmd[q]
    BY <2>1, <2>2, Moves
  <2>4. ~Unsettled(p)'
    BY <2>3
  <2> QED
    BY <1>2, <2>3, <2>4, SettlesOrStutters
<1>6. CASE ReadOld(p)
  <2> DEFINE c == [cmd[p] EXCEPT !.pc = "switch", !.old = current, !.oldLink = link]
  <2>1. cmd'[p] = c /\ \A q \in Proc \ {p} : cmd'[q] = cmd[q]
    BY <1>6, Became DEF ReadOld
  <2>2. ~Unsettled(p)'
    BY <1>1, <2>1 DEF UpdateState
  <2> QED
    BY <1>2, <2>1, <2>2, SettlesOrStutters
<1>7. CASE Relink(p) \/ RestoreLink(p)
  <2>1. PICK s \in {"finalSmoke", "remove"} :
          /\ Become(p, Following(p, s))
          /\ s = "finalSmoke" => At(p, "relink")
          /\ s = "remove" => At(p, "restoreLinks")
    BY <1>7 DEF Relink, RestoreLink
  <2>2. cmd'[p] = Following(p, s) /\ \A q \in Proc \ {p} : cmd'[q] = cmd[q]
    BY <2>1, Became
  <2>3. cmd'[p].old = cmd[p].old /\ cmd'[p].pc \in {cmd[p].pc, s}
    BY <1>1, <2>2 DEF Following, UpdateState
  <2>4. Unsettled(p)' => Unsettled(p)
    BY <2>1, <2>3 DEF At
  <2> QED
    BY <1>2, <2>2, <2>3, <2>4, SettlesOrStutters
<1>8. CASE ActivationFails(p)
  <2> DEFINE Undo(i) ==
        [cmd[p] EXCEPT !.pc = IF @ = "readOld" \/ ~cmd[p].switched
                                THEN "restoreLinks" ELSE "restoreCurrent",
                       !.oldLink = IF At(p, "readOld") THEN ReadUpTo(i) ELSE @,
                       !.next = 1]
  <2>1. PICK i \in Command : Become(p, Undo(i))
    BY <1>8 DEF ActivationFails
  <2>2. cmd'[p] = Undo(i) /\ \A q \in Proc \ {p} : cmd'[q] = cmd[q]
    BY <2>1, Became
  <2>3. /\ cmd'[p].old = cmd[p].old
        /\ cmd'[p].pc = IF cmd[p].pc = "readOld" \/ ~cmd[p].switched
                           THEN "restoreLinks" ELSE "restoreCurrent"
    BY <1>1, <2>2 DEF UpdateState
  <2>4. cmd[p].pc \in {"smoke", "switch"} => ~cmd[p].switched
    BY Facts DEF Untouched, UntouchedStep
  <2>5. cmd[p].pc \in ActivationStep
    BY <1>8 DEF ActivationFails
  <2>6. Unsettled(p)' => Unsettled(p)
    BY <2>3, <2>4, <2>5 DEF ActivationStep
  <2> QED
    BY <1>2, <2>2, <2>3, <2>6, SettlesOrStutters
<1> QED
  BY <1>3, <1>4, <1>5, <1>6, <1>7, <1>8

(* Steps on version directories: a move begins or ends, a version passes its
   check, or what was put in place is removed. *)
LEMMA MoveBeginsAsSwitch ==
  ASSUME UpdateInv, UpdateInv', NEW p \in Proc, MoveBegins(p)
  PROVE  SwitchingStep
<1>1. /\ cmd'[p].pc = "moving" /\ \A q \in Proc \ {p} : cmd'[q] = cmd[q]
      /\ cmd[p].pc = "place"
  BY Moves DEF MoveBegins, LockedStep, At
<1>2. ReturnsTo' = ReturnsTo
  BY <1>1, ReturnKept DEF Unsettled, UnsettledStep
<1>3. dir \in [Version -> DirState]
  BY DEF UpdateInv, TypeOK
<1>4. passed' = passed /\ passed \subseteq Version
  BY DEF MoveBegins, UpdateInv, TypeOK
<1>5. \A v \in Version : dir'[v] = "whole" <=> dir[v] = "whole"
  BY <1>3 DEF MoveBegins
<1>6. Whole' = Whole
  BY <1>4, <1>5 DEF Whole
<1> QED
  BY <1>2, <1>6 DEF SwitchingStep, Switching!vars, MoveBegins

LEMMA VerifiedAsSwitch ==
  ASSUME UpdateInv, UpdateInv', NEW p \in Proc, MoveEnds(p) \/ Smoke(p)
  PROVE  SwitchingStep
<1> DEFINE t == cmd[p].target
<1>1. PICK s \in {"smoke", "readOld"} : Goto(p, s)
  BY DEF MoveEnds, Smoke
<1>2. cmd'[p].pc = s /\ \A q \in Proc \ {p} : cmd'[q] = cmd[q]
  BY <1>1, Moves DEF LockedStep, ActivationStep
<1>3. cmd[p].pc \in {"moving", "smoke"}
  BY DEF MoveEnds, Smoke, At
<1>4. ReturnsTo' = ReturnsTo
  BY <1>2, <1>3, ReturnKept DEF Unsettled, UnsettledStep
<1>5. t \in Version /\ dir \in [Version -> DirState] /\ passed \subseteq Version
  BY <1>3 DEF UpdateInv, LockHeld, TypeOK
<1>6. /\ passed \subseteq passed' /\ passed' \subseteq passed \union {t}
      /\ \A v \in Version \ {t} : dir'[v] = dir[v]
      /\ dir[t] = "whole" => dir'[t] = "whole"
  BY <1>5 DEF MoveEnds, Smoke
<1>7. Whole' \in {Whole, Whole \union {t}}
  BY <1>5, <1>6 DEF Whole
<1>8. current' = current
  BY DEF MoveEnds, Smoke
<1>9. CASE Whole' = Whole
  BY <1>4, <1>8, <1>9 DEF SwitchingStep, Switching!vars
<1>10. CASE Whole' = Whole \union {t}
  <2>1. Switching!Verify(t)
    BY <1>4, <1>8, <1>10 DEF Switching!Verify
  <2> QED
    BY <1>5, <2>1 DEF SwitchingStep, Switching!Next
<1> QED
  BY <1>7, <1>9, <1>10

LEMMA RemoveAsSwitch ==
  ASSUME UpdateInv, UpdateInv', NEW p \in Proc, Remove(p)
  PROVE  SwitchingStep
<1> DEFINE t == cmd[p].target
<1>1. /\ cmd'[p].pc = "release" /\ \A q \in Proc \ {p} : cmd'[q] = cmd[q]
      /\ cmd[p].pc = "remove"
  BY Moves DEF Remove, LockedStep, At
<1>2. cmd[p].pc \in LockedStep
  BY <1>1 DEF LockedStep, RollbackStep
<1>3. \A q \in Proc : ~Unsettled(q)
  BY <1>1, <1>2, OneUnsettled DEF Unsettled, UnsettledStep
<1>4. ReturnsTo = NoVersion
  BY <1>3, NothingToReturnTo
<1>5. ReturnsTo' = NoVersion
  BY <1>1, <1>2, ReturnGone DEF Unsettled, UnsettledStep
<1>6. t \in Version /\ t # current /\ dir \in [Version -> DirState] /\ passed \subseteq Version
  BY <1>1, Facts DEF UpdateInv, TypeOK, LockHeld, Apart
<1>7. passed' = passed \ {t} /\ \A v \in Version \ {t} : dir'[v] = dir[v]
  BY <1>6 DEF Remove
<1>8. Whole' = Whole \ {t}
  BY <1>6, <1>7 DEF Whole
<1>9. t # NoVersion
  BY <1>6, NoVersionAssumption
<1>10. Switching!Discard(t)
  BY <1>4, <1>5, <1>6, <1>8, <1>9 DEF Switching!Discard, Remove
<1> QED
  BY <1>6, <1>10 DEF SwitchingStep, Switching!Next

(* The link "current" is replaced: forth or back. *)
LEMMA SwitchAsSwitch ==
  ASSUME UpdateInv, UpdateInv', NEW p \in Proc, Switch(p)
  PROVE  SwitchingStep
<1> DEFINE t == cmd[p].target
           c == [cmd[p] EXCEPT !.pc = "relink", !.switched = TRUE, !.next = 1]
<1>1. cmd[p].pc = "switch" /\ cmd[p] \in UpdateState
  BY Facts DEF Switch, At
<1>2. cmd[p].pc \in LockedStep
  BY <1>1 DEF LockedStep, ActivationStep
<1>3. \A q \in Proc : ~Unsettled(q)
  BY <1>1, <1>2, OneUnsettled DEF Unsettled, UnsettledStep
<1>4. ReturnsTo = NoVersion
  BY <1>3, NothingToReturnTo
<1>5. cmd'[p] = c
  BY Became DEF Switch
<1>6. cmd'[p].pc = "relink" /\ cmd'[p].old = cmd[p].old
  BY <1>1, <1>5 DEF UpdateState
<1>7. ReturnsTo' = cmd[p].old
  BY <1>6, NextReturnsToOld DEF Unsettled, UnsettledStep
<1>8. cmd[p].old = current /\ t \in passed /\ dir[t] = "whole" /\ t # current
  BY <1>1, Facts DEF CanGoBack, Checked, Apart
<1>9. Whole' = Whole
  BY WholeKept DEF Switch
<1>10. t \in Version
  BY <1>1 DEF UpdateInv, LockHeld
<1>11. Switching!SwitchTo(t)
  BY <1>4, <1>7, <1>8, <1>9 DEF Switching!SwitchTo, Switch, Whole
<1> QED
  BY <1>10, <1>11 DEF SwitchingStep, Switching!Next

LEMMA RestoreCurrentAsSwitch ==
  ASSUME UpdateInv, UpdateInv', NEW p \in Proc, RestoreCurrent(p)
  PROVE  SwitchingStep
<1>1. cmd'[p].pc = "restoreLinks" /\ \A q \in Proc \ {p} : cmd'[q] = cmd[q]
  BY Moves DEF RestoreCurrent, LockedStep, RollbackStep
<1>2. cmd[p].pc = "restoreCurrent"
  BY DEF RestoreCurrent, At
<1>3. cmd[p].pc \in LockedStep
  BY <1>2 DEF LockedStep, RollbackStep
<1>4. ReturnsTo = cmd[p].old
  BY <1>2, ReturnsToOld DEF Unsettled, UnsettledStep
<1>5. ReturnsTo' = NoVersion
  BY <1>1, <1>3, ReturnGone DEF Unsettled, UnsettledStep
<1>6. cmd[p].old \in Version
  BY <1>2, Facts DEF CanGoBack, UpdateInv, TypeOK
<1>7. Whole' = Whole
  BY WholeKept DEF RestoreCurrent
<1>8. Switching!GoBack
  BY <1>4, <1>5, <1>6, <1>7, NoVersionAssumption DEF Switching!GoBack, RestoreCurrent
<1> QED
  BY <1>8 DEF SwitchingStep, Switching!Next

LEMMA UpdateStepsAsSwitch ==
  ASSUME UpdateInv, UpdateInv', [Next]_vars
  PROVE  SwitchingStep
<1>1. CASE UNCHANGED vars
  <2>1. Whole' = Whole /\ ReturnsTo' = ReturnsTo /\ current' = current
    BY <1>1 DEF vars, Whole, ReturnsTo, Unsettled
  <2> QED
    BY <2>1 DEF SwitchingStep, Switching!vars
<1>2. CASE Next
  <2>1. PICK p \in Proc : \/ Start(p) \/ Stop(p) \/ Activating(p)
                           \/ RollingBack(p) \/ Release(p) \/ Crash(p)
    BY <1>2 DEF Next
  <2>2. CASE MoveBegins(p) \/ MoveEnds(p) \/ Smoke(p) \/ Remove(p)
    BY <2>2, MoveBeginsAsSwitch, VerifiedAsSwitch, RemoveAsSwitch
  <2>3. CASE Switch(p) \/ RestoreCurrent(p)
    BY <2>3, SwitchAsSwitch, RestoreCurrentAsSwitch
  <2> QED
    BY <2>1, <2>2, <2>3, LinkStepsAsSwitch DEF Activating, RollingBack
<1> QED
  BY <1>1, <1>2

LEMMA InitAsSwitch == Init => Switching!Init
<1> SUFFICES ASSUME Init PROVE Switching!Init
  OBVIOUS
<1>1. \A q \in Proc : ~Unsettled(q)
  BY DEF Init, Idle, Unsettled, UnsettledStep
<1>2. ReturnsTo = NoVersion
  BY <1>1, NothingToReturnTo
<1>3. Whole = {First}
  BY VersionAssumption DEF Init, Whole
<1> QED
  BY <1>2, <1>3 DEF Switching!Init, Init

(* For every set of processes and releases, portable updates implement
   VersionSwitch: with kills and failures at every step of activate_posix and
   its rollback, "current" only ever moves to a verified version while no other
   switch is unsettled, or back to the version it came from. *)
THEOREM UpdateImplementsSwitch == Spec => ImplementsVersionSwitch
<1>1. Init => Switching!Init
  BY InitAsSwitch
<1>2. UpdateInv /\ UpdateInv' /\ [Next]_vars => [Switching!Next]_(Switching!vars)
  BY UpdateStepsAsSwitch DEF SwitchingStep
<1> QED
  BY <1>1, <1>2, UpdateCorrect, PTL DEF Spec, ImplementsVersionSwitch, Switching!Spec

(* What VersionSwitch promises of itself. *)
LEMMA SwitchKeepsGood == Switching!Spec => []Switching!StaysGood
<1>1. Switching!Init => Switching!StaysGood
  BY DEF Switching!Init, Switching!StaysGood
<1>2. Switching!StaysGood /\ [Switching!Next]_(Switching!vars) => Switching!StaysGood'
  BY DEF Switching!StaysGood, Switching!Next, Switching!vars, Switching!Verify,
         Switching!SwitchTo, Switching!Settle, Switching!GoBack, Switching!Discard
<1> QED
  BY <1>1, <1>2, PTL DEF Switching!Spec

(* While an update has replaced "current" and is not settled, the version it
   would return to is another one, still whole, which passed its check: no
   rollback of activate_posix, at whatever step it starts, leads nowhere. *)
THEOREM RollbackHasWayBack == Spec => []Switching!StaysGood
BY UpdateImplementsSwitch, SwitchKeepsGood, PTL DEF ImplementsVersionSwitch
=============================================================================
