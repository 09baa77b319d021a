--------------------------- MODULE WindowsUpdate ---------------------------
(***************************************************************************)
(* The portable update on Windows (rvs/portable_update.py): rvs stages the *)
(* new version and leaves; a detached helper waits for it to exit, swaps   *)
(* the directories and checks the result.  rvs and the helper can be       *)
(* killed, and every step that touches the disk can fail.                  *)
(***************************************************************************)
EXTENDS Naturals, FiniteSets

CONSTANTS
    Updates,        \* bound: updates in all; version 0 is installed at first
    NoVersion       \* no directory, or one that is not a whole version

ASSUME WindowsAssumption == Updates \in Nat /\ NoVersion \notin 0..Updates

VARIABLE windows    \* the installation directory, rvs, its helper, and history

Installed == 0..Updates
NoWindows == [bin |-> 0, whole |-> TRUE, previous |-> {}, staged |-> {}, pending |-> FALSE,
              rvs |-> "idle", helper |-> "none", version |-> 0, handed |-> NoVersion,
              backup |-> NoVersion, disturbed |-> FALSE]

WindowsInit == windows = NoWindows

Runnable == windows.bin # NoVersion /\ windows.whole
Staged == [windows EXCEPT !.staged = @ \cup {windows.version}]
Unstaged(w) == [w EXCEPT !.staged = @ \ {w.version}]

\* apply_portable_update under its lock; a staged update that is pending is refused.  The
\* bundle has been downloaded and verified.
WindowsBegin ==
    /\ windows.rvs \in {"idle", "exited"} /\ Runnable
    /\ ~windows.pending
    /\ windows.version < Updates
    /\ windows' = [windows EXCEPT !.rvs = "stage", !.version = @ + 1]

\* stage_windows: the bundle is moved beside bin - a move to another drive that fails may
\* leave a part there -, must answer --version, is marked pending and handed to the helper.
Stage ==
    /\ windows.rvs = "stage"
    /\ \/ windows' = [Staged EXCEPT !.rvs = "mark"]
       \/ \E left \in {windows, Staged} : windows' = [left EXCEPT !.rvs = "exited"]

\* Its except clause removes the mark and, as far as it can, what is staged; with a mark that
\* cannot be removed both stay.
Withdraw ==
    \/ \E left \in {windows, Unstaged(windows)} :
          windows' = [left EXCEPT !.pending = FALSE, !.rvs = "exited"]
    \/ windows' = [windows EXCEPT !.pending = TRUE, !.rvs = "exited", !.disturbed = TRUE]
Mark ==
    /\ windows.rvs = "mark"
    /\ windows' = [windows EXCEPT !.pending = TRUE, !.rvs = "spawn"] \/ Withdraw
Spawn ==
    /\ windows.rvs = "spawn"
    /\ \/ windows' = [windows EXCEPT !.rvs = "leave", !.helper = "wait", !.handed = windows.version]
       \/ Withdraw
Leave == windows.rvs = "leave" /\ windows' = [windows EXCEPT !.rvs = "exited"]

\* The helper: it waits for rvs at most two minutes; then three moves and a check, and what
\* fails leads to the catch block.
Throw(w) == [w EXCEPT !.helper = "undo"]
WaitForExit ==
    /\ windows.helper = "wait"
    /\ \/ windows.rvs = "exited" /\ windows' = [windows EXCEPT !.helper = "backup"]
       \/ windows.rvs # "exited" /\ windows' = Throw(windows)
MoveOld ==
    /\ windows.helper = "backup"
    /\ \/ windows' = [windows EXCEPT !.backup = windows.bin, !.bin = NoVersion,
                !.previous = @ \cup {windows.bin}, !.helper = "move"]
       \/ windows' = Throw(windows)
MoveNew ==
    /\ windows.helper = "move"
    /\ \/ windows' = [Unstaged(windows) EXCEPT !.bin = windows.version, !.whole = TRUE,
                !.helper = "check"]
       \/ windows' = Throw(windows)

\* Older versions go, but the one just replaced is kept.
Check ==
    /\ windows.helper = "check"
    /\ \/ windows' = [windows EXCEPT !.previous = {windows.backup}, !.helper = "finally"]
       \/ windows' = Throw(windows)

\* Mutant: returns the backup only where a new bin is in its place.
UndoOver ==
    /\ windows.helper = "undo"
    /\ windows' = [windows EXCEPT !.helper = IF windows.backup = NoVersion \/ windows.bin = NoVersion
                                            THEN "unstage" ELSE "clear"]

\* The catch block: bin is removed, perhaps not wholly, and the backup moved into its place.
Undo ==
    /\ windows.helper = "undo"
    /\ windows' = [windows EXCEPT
            !.helper = IF windows.backup = NoVersion THEN "unstage"
                       ELSE IF windows.bin = NoVersion THEN "return" ELSE "clear"]
Clear ==
    /\ windows.helper = "clear"
    /\ \/ windows' = [windows EXCEPT !.bin = NoVersion, !.helper = "return"]
       \/ windows' = [windows EXCEPT !.whole = FALSE, !.disturbed = TRUE, !.helper = "finally"]

Return ==
    /\ windows.helper = "return"
    /\ \/ windows' = [windows EXCEPT !.bin = windows.backup, !.whole = TRUE,
                !.previous = @ \ {windows.backup}, !.helper = "unstage"]
       \/ windows' = [windows EXCEPT !.disturbed = TRUE, !.helper = "finally"]
Unstage ==
    /\ windows.helper = "unstage"
    /\ \/ windows' = [Unstaged(windows) EXCEPT !.helper = "finally"]
       \/ windows' = [windows EXCEPT !.helper = "finally", !.disturbed = TRUE]

\* The finally block, which ignores failures.
Finally ==
    /\ windows.helper = "finally"
    /\ \/ windows' = [windows EXCEPT !.pending = FALSE, !.helper = "none", !.backup = NoVersion]
       \/ windows' = [windows EXCEPT !.helper = "none", !.backup = NoVersion, !.disturbed = TRUE]

\* rvs is killed or interrupted, which its except clause does not catch either; the helper
\* with the machine.
WindowsKilled ==
    /\ windows.rvs \notin {"idle", "exited"}
    /\ windows' = [windows EXCEPT !.rvs = "exited", !.disturbed = TRUE]
HelperKilled ==
    /\ windows.helper # "none"
    /\ windows' = [windows EXCEPT !.helper = "none", !.backup = NoVersion, !.disturbed = TRUE]

Helper == \/ WaitForExit \/ MoveOld \/ MoveNew \/ Check \/ Undo \/ Clear \/ Return
          \/ Unstage \/ Finally
WindowsStep == Stage \/ Mark \/ Spawn \/ Leave \/ Helper
WindowsNext == WindowsBegin \/ WindowsStep \/ WindowsKilled \/ HelperKilled
WindowsSpec == WindowsInit /\ [][WindowsNext]_windows

-----------------------------------------------------------------------------
\* Every field has its type.
WindowsTypeOK ==
    LET maybe == Installed \cup {NoVersion}
    IN windows \in [bin : maybe, whole : BOOLEAN, previous : SUBSET Installed,
                    staged : SUBSET Installed, pending : BOOLEAN,
                    rvs : {"idle", "stage", "mark", "spawn", "leave", "exited"},
                    helper : {"none", "wait", "backup", "move", "check", "undo", "clear",
                              "return", "unstage", "finally"},
                    version : Installed, handed : maybe, backup : maybe, disturbed : BOOLEAN]

\* Whatever fails or is killed, a whole version that has run before is on disk: in bin or
\* beside it; and once rvs and its helper are gone, an update that was not killed and could
\* undo what it had done has left a runnable bin and no pending mark, which would refuse
\* every later update, nor what it handed to the helper (portable_update.py 345-378 and
\* 458-545).
WindowsKept ==
    /\ Runnable \/ windows.previous # {}
    /\ windows.rvs \in {"idle", "exited"} /\ windows.helper = "none" /\ ~windows.disturbed =>
            /\ Runnable /\ ~windows.pending
            /\ windows.handed = windows.version => windows.version \notin windows.staged
=============================================================================
