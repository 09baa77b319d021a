--------------------------- MODULE ManagedUpdate ---------------------------
(***************************************************************************)
(* rvs update where a package manager owns the installation (rvs/update.py)*)
(* - APT, Nix, and the series packages of Homebrew and WinGet - while      *)
(* another program may change the package, a manager's steps fail, and rvs *)
(* is killed.  Versions are numbers; a series is the versions it has, and  *)
(* all that Homebrew and WinGet are told.                                  *)
(***************************************************************************)
EXTENDS Naturals

CONSTANTS
    Releases,       \* bound: versions are 1..Releases
    NextSeries,     \* the first version of the next major channel
    NoPackage       \* nothing is installed, nothing is asked for

ASSUME ManagedAssumption ==
    {Releases, NextSeries} \subseteq Nat \ {0} /\ NoPackage \notin 1..Releases

VARIABLE managed    \* the installed package, the command, and history: found, raced, ...

Version == 1..Releases
Package == Version \cup {NoPackage}
Series(v) == IF v < NextSeries THEN "v0" ELSE "v1"
\* The forms of the command: apt, with --to and with --candidate, nix, and brew or winget.
Form == {"apt", "apt-to", "candidate", "nix", "series"}
NoUpdate == [at |-> "idle", form |-> "apt", installed |-> 1, read |-> 1, chosen |-> 1,
             found |-> NoPackage, raced |-> FALSE, failed |-> {}]

ManagedInit == managed = NoUpdate

Newer(v, w) == v # NoPackage /\ (w = NoPackage \/ v > w)

\* The installed and the chosen version are compared before the user is asked: without
\* --to a release of the same channel, with it never one of an earlier channel; an
\* exact minor line may name any version, but not for brew and winget.
ManagedBegin ==
    /\ managed = NoUpdate
    /\ \E form \in Form, v, installed \in Version :
        /\ Newer(v, installed)
        /\ form = "apt" => Series(v) = Series(installed)
        /\ managed' = [managed EXCEPT !.at = "confirm", !.form = form, !.chosen = v,
                                      !.installed = installed, !.read = installed]

\* The user agrees, or has passed --yes; or the command ends.
Agree ==
    /\ managed.at = "confirm"
    /\ \/ managed' = [managed EXCEPT
                !.at = CASE managed.form \in {"apt", "apt-to"} -> "refresh"
                         [] managed.form = "candidate" -> "install"
                         [] managed.form = "series" /\ Series(managed.chosen) = Series(managed.read)
                                -> "install"
                         [] OTHER -> "remove"]
       \/ managed' = [managed EXCEPT !.at = "ended"]

\* _refresh_ravenstash_source and the second look at what is installed and offered.
Refresh ==
    /\ managed.at = "refresh"
    /\ \/ managed.installed = managed.read /\ managed' = [managed EXCEPT !.at = "install"]
       \/ managed' = [managed EXCEPT !.at = "ended"]

Changing == [managed EXCEPT !.found = IF @ = NoPackage THEN managed.installed ELSE @]
Fails(m, step) == [m EXCEPT !.failed = @ \cup {step}]

\* brew and winget remove the old series, nix its profile element; a removal that fails may
\* have removed it, or a part that it needs.
RemoveOld ==
    /\ managed.at = "remove"
    /\ \/ managed' = [Changing EXCEPT !.at = "install", !.installed = NoPackage]
       \/ \E left \in {managed.installed, NoPackage} :
            managed' = [Fails(Changing, "remove") EXCEPT !.at = "ended", !.installed = left]

Restores ==
    \/ managed.form \in {"apt-to", "nix"}
    \/ managed.form = "series" /\ Series(managed.chosen) # Series(managed.read)

\* The releases a manager may install when rvs asks for v, and when it asks for the chosen
\* one: of brew and winget it names only the series.  No manager but nix, which has the
\* profile element removed before, goes back by itself.
Offered(v) == IF managed.form = "series" THEN {w \in Version : Series(w) = Series(v)} ELSE {v}
Installs == {v \in Offered(managed.chosen) : managed.form = "nix" \/ ~Newer(managed.installed, v)}

\* Mutant: reports the failure and leaves it there.
InstallFailsForGood ==
    \E left \in {managed.installed, NoPackage} \cup Installs :
        managed' = [Fails(Changing, "install") EXCEPT !.installed = left, !.at = "ended"]

\* A failing manager may have changed nothing, half of the package, or everything.  APT
\* restores only what it finds changed.
InstallFails ==
    \E left \in {managed.installed, NoPackage} \cup Installs :
        managed' = [Fails(Changing, "install") EXCEPT !.installed = left,
            !.at = IF Restores /\ ~(managed.form = "apt-to" /\ left = managed.read)
                   THEN "restore" ELSE "ended"]

\* apt-get install rvs=chosen --only-upgrade, the candidate's file, nix profile install of
\* the tag, brew or winget install or upgrade of the series.
InstallChosen ==
    /\ managed.at = "install"
    /\ \/ \E v \in Installs : managed' = [Changing EXCEPT !.installed = v, !.at = "ended"]
       \/ InstallFails

\* The version that was read before is installed again, downgrades allowed; with brew and
\* winget a release of its series.
Restore ==
    /\ managed.at = "restore"
    /\ \/ \E v \in Offered(managed.read) :
            managed' = [managed EXCEPT !.installed = v, !.at = "ended"]
       \/ \E left \in {managed.installed, NoPackage} \cup Offered(managed.read) :
            managed' = [Fails(managed, "restore") EXCEPT !.installed = left, !.at = "ended"]

Active == managed.at \notin {"idle", "ended"}
ManagedKilled == Active /\ managed' = [Fails(managed, "killed") EXCEPT !.at = "ended"]

\* Another program upgrades the package: after rvs has looked, it is a race.
UpgradedElsewhere ==
    /\ Active
    /\ \E v \in Version :
        /\ managed.installed # NoPackage /\ Newer(v, managed.installed)
        /\ managed' = [managed EXCEPT !.installed = v,
                !.raced = managed.form \notin {"apt", "apt-to"}
                          \/ managed.at \in {"install", "restore"}]

ManagedStep == Refresh \/ RemoveOld \/ InstallChosen \/ Restore
ManagedNext == ManagedBegin \/ Agree \/ ManagedStep \/ ManagedKilled \/ UpgradedElsewhere
ManagedSpec == ManagedInit /\ [][ManagedNext]_managed

-----------------------------------------------------------------------------
\* Every field of an update has its type.
ManagedTypeOK ==
    managed \in [at : {"idle", "confirm", "refresh", "remove", "install", "restore", "ended"},
                 form : Form, installed : Package, read : Version, chosen : Version,
                 found : Package, raced : BOOLEAN,
                 failed : SUBSET {"remove", "install", "restore", "killed"}]

\* An update whose manager has done its part leaves the release the user agreed to, and one
\* that could not install it restores the one it found - a plain APT update, a candidate
\* and an upgrade within a series do not restore; with brew and winget it is only a release
\* of the series that was agreed to or found.  Nothing older than what was found is left,
\* but by a restoration with brew or winget, one that fails, or a kill: not even if the
\* package changed while rvs was asking (update.py 475-585 and 667-765).
ManagedKept ==
    managed.at = "ended" /\ ~managed.raced /\ managed.found # NoPackage =>
        /\ managed.failed = {} => managed.installed \in Offered(managed.chosen)
        /\ managed.failed = {"install"} /\ Restores => managed.installed \in Offered(managed.found)
        /\ /\ managed.failed \cap {"restore", "killed"} = {} /\ managed.installed # NoPackage
           /\ ~(managed.form = "series" /\ Restores /\ "install" \in managed.failed)
           => ~Newer(managed.found, managed.installed)
=============================================================================
