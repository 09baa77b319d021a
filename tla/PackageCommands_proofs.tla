----------------------- MODULE PackageCommands_proofs -----------------------
(***************************************************************************)
(* Proofs about what changes installed programs: updates through a package *)
(* manager and on Windows, and the runtimes; for every number of releases, *)
(* updates, versions and commands, wherever they fail or are killed.       *)
(***************************************************************************)
EXTENDS ManagedUpdate, WindowsUpdate, RuntimeInstall, ReleaseChoice, TLAPS

-----------------------------------------------------------------------------
(* Updates through a package manager *)

ManagedRecord ==
    [at : {"idle", "confirm", "refresh", "remove", "install", "restore", "ended"},
     form : Form, installed : Package, read : Version, chosen : Version, found : Package,
     raced : BOOLEAN, failed : SUBSET {"remove", "install", "restore", "killed"}]

\* A series that is removed first is replaced by a later one.
Apart == managed.form = "series" => Series(managed.chosen) # Series(managed.read)

\* What a step leaves depends on what has been done so far: nothing, the removal, or an
\* installation that failed; and on what was there when rvs looked.
Before ==
    managed.at \in {"idle", "confirm", "refresh", "remove"} =>
        /\ managed.failed = {} /\ managed.found = NoPackage
        /\ managed.at = "refresh" => managed.form \in {"apt", "apt-to"}
        /\ managed.at = "remove" => managed.form \notin {"apt", "apt-to"} /\ Apart
        /\ ~managed.raced /\ managed.form \notin {"apt", "apt-to"} => managed.installed = managed.read
Installing ==
    managed.at = "install" =>
        /\ managed.failed = {}
        /\ ~managed.raced /\ managed.found = NoPackage =>
                managed.installed = managed.read /\ managed.form # "nix"
        /\ ~managed.raced /\ managed.found # NoPackage =>
                managed.found = managed.read /\ managed.installed = NoPackage /\ Apart
Restoring ==
    managed.at = "restore" =>
        /\ managed.failed = {"install"} /\ Restores
        /\ ~managed.raced => managed.found = managed.read
ManagedInv ==
    /\ managed \in ManagedRecord
    /\ managed.at # "idle" => managed.chosen > managed.read
    /\ Before /\ Installing /\ Restoring /\ ManagedKept

\* The fields of an update.
LEMMA ManagedTyped ==
    ASSUME NEW m \in ManagedRecord
    PROVE  /\ m.form \in Form /\ m.installed \in Package /\ m.read \in Version /\ m.chosen \in Version
           /\ m.found \in Package /\ m.raced \in BOOLEAN
           /\ m.failed \in SUBSET {"remove", "install", "restore", "killed"}
           /\ m.at \in {"idle", "confirm", "refresh", "remove", "install", "restore", "ended"}
  BY DEF ManagedRecord

\* Neither of a series nor of one version is anything older installed than what it replaces.
LEMMA OfferedTyped ==
    ASSUME ManagedInv
    PROVE  /\ Offered(managed.chosen) \subseteq Version /\ Offered(managed.read) \subseteq Version
           /\ Installs \subseteq Offered(managed.chosen) /\ managed.read \in Offered(managed.read)
           /\ managed.at # "idle" /\ Apart =>
                  \A v \in Offered(managed.chosen) : ~Newer(managed.read, v)
           /\ managed.form # "nix" => \A v \in Installs : ~Newer(managed.installed, v)
<1>1. /\ managed.read \in Version /\ managed.chosen \in Version /\ Version \subseteq Nat
      /\ managed.at # "idle" => managed.chosen > managed.read
      /\ NextSeries \in Nat /\ NoPackage \notin Version
  BY ManagedTyped, ManagedAssumption DEF ManagedInv, Version
<1>2. ASSUME managed.at # "idle", Apart, NEW v \in Offered(managed.chosen)
      PROVE  ~Newer(managed.read, v)
  <2>1. CASE managed.form = "series"
    <3>1. v \in Version /\ Series(v) = Series(managed.chosen) /\ Series(managed.chosen) # Series(managed.read)
      BY <1>2, <2>1 DEF Offered, Apart
    <3>2. managed.read \in Nat /\ managed.chosen \in Nat /\ v \in Nat /\ managed.chosen > managed.read
      BY <1>1, <1>2, <3>1
    <3>3. \A w \in Nat : Series(w) = (IF w < NextSeries THEN "v0" ELSE "v1")
      BY DEF Series
    <3>4. managed.read < NextSeries /\ v >= NextSeries
      BY <1>1, <3>1, <3>2, <3>3
    <3>5. managed.read # NoPackage /\ v # NoPackage /\ ~(managed.read > v)
      BY <1>1, <3>1, <3>2, <3>4
    <3> QED  BY <3>5 DEF Newer
  <2>2. CASE managed.form # "series"
    <3>1. v = managed.chosen /\ managed.read \in Nat /\ v \in Nat /\ v # NoPackage /\ v > managed.read
      BY <1>1, <1>2, <2>2 DEF Offered
    <3>2. ~(managed.read > v)
      BY <3>1
    <3> QED  BY <3>1, <3>2 DEF Newer
  <2> QED  BY <2>1, <2>2
<1> QED  BY <1>1, <1>2 DEF Offered, Installs

\* Every step of the command, of its user and of others keeps to this.
LEMMA ManagedStepInv == ManagedInv /\ [ManagedNext]_managed => ManagedInv'
<1> SUFFICES ASSUME ManagedInv, [ManagedNext]_managed PROVE ManagedInv'
  OBVIOUS
<1>0. managed \in ManagedRecord
  BY DEF ManagedInv
<1>1. /\ managed.form \in Form /\ managed.installed \in Package /\ managed.read \in Version
      /\ managed.chosen \in Version /\ managed.found \in Package /\ managed.raced \in BOOLEAN
      /\ managed.failed \in SUBSET {"remove", "install", "restore", "killed"} /\ Version \subseteq Nat
      /\ NoPackage \in Package /\ Version \subseteq Package /\ NoPackage \notin Version
  BY <1>0, ManagedTyped, ManagedAssumption DEF Version, Package
<1>2. CASE ManagedBegin
  <2>1. PICK form \in Form, v \in Version, installed \in Version :
          /\ Newer(v, installed)
          /\ managed' = [managed EXCEPT !.at = "confirm", !.form = form, !.chosen = v,
                                        !.installed = installed, !.read = installed]
    BY <1>2 DEF ManagedBegin
  <2>2. /\ managed' \in ManagedRecord /\ managed'.at = "confirm" /\ managed'.chosen = v
        /\ managed'.installed = installed /\ managed'.read = installed
        /\ managed'.found = managed.found /\ managed'.failed = managed.failed
    BY <1>0, <1>1, <2>1 DEF ManagedRecord
  <2>3. managed.found = NoPackage /\ managed.failed = {}
    BY <1>2 DEF ManagedBegin, NoUpdate
  <2>4. v > installed
    BY <1>1, <2>1 DEF Newer
  <2> QED  BY <2>2, <2>3, <2>4 DEF ManagedInv, Before, Installing, Restoring, ManagedKept
<1>3. ASSUME NEW at \in {"refresh", "install", "remove", "ended"},
             managed' = [managed EXCEPT !.at = at], managed.at \in {"confirm", "refresh"},
             at = "refresh" => managed.form \in {"apt", "apt-to"},
             at = "remove" => managed.form \notin {"apt", "apt-to"} /\ Apart,
             at = "install" => managed.form # "nix" /\ (~managed.raced => managed.installed = managed.read)
      PROVE  ManagedInv'
  <2>1. /\ managed' \in ManagedRecord /\ managed'.at = at /\ managed'.form = managed.form
        /\ managed'.installed = managed.installed /\ managed'.read = managed.read
        /\ managed'.chosen = managed.chosen /\ managed'.found = managed.found
        /\ managed'.failed = managed.failed /\ managed'.raced = managed.raced
    BY <1>0, <1>3 DEF ManagedRecord
  <2>2. (Apart' <=> Apart) /\ (Restores' <=> Restores)
    BY <2>1 DEF Apart, Restores
  <2> QED  BY <1>3, <2>1, <2>2 DEF ManagedInv, Before, Installing, Restoring, ManagedKept
<1>4. CASE Agree
  <2>1. managed.at = "confirm"
    BY <1>4 DEF Agree
  <2>2. PICK at \in {"refresh", "install", "remove", "ended"} :
          /\ managed' = [managed EXCEPT !.at = at]
          /\ at = "refresh" => managed.form \in {"apt", "apt-to"}
          /\ at \in {"remove", "install"} => managed.form \notin {"apt", "apt-to"}
          /\ at = "remove" => Apart
          /\ at = "install" => managed.form # "nix"
    BY <1>1, <1>4 DEF Agree, Form, Apart
  <2> QED  BY <1>3, <2>1, <2>2 DEF ManagedInv, Before
<1>5. CASE Refresh
  BY <1>3, <1>5 DEF Refresh, ManagedInv, Before
<1>6. CASE RemoveOld
  <2>1. managed.at = "remove" /\ managed.found = NoPackage
    BY <1>6 DEF RemoveOld, ManagedInv, Before
  <2>2. PICK at \in {"install", "ended"}, installed \in Package,
             failed \in SUBSET {"remove", "install", "restore", "killed"} :
          /\ managed' = [managed EXCEPT !.found = managed.installed, !.at = at, !.installed = installed,
                                        !.failed = failed]
          /\ installed \in {NoPackage, managed.installed}
          /\ at = "install" => installed = NoPackage /\ failed = managed.failed
          /\ at = "ended" => failed = managed.failed \cup {"remove"}
    <3>1. CASE managed' = [Changing EXCEPT !.at = "install", !.installed = NoPackage]
      <4>1. managed' = [managed EXCEPT !.found = managed.installed, !.at = "install",
                                       !.installed = NoPackage, !.failed = managed.failed]
        BY <1>0, <2>1, <3>1 DEF Changing, ManagedRecord
      <4> QED  BY <1>1, <4>1
    <3>2. CASE \E left \in {managed.installed, NoPackage} :
                  managed' = [Fails(Changing, "remove") EXCEPT !.at = "ended", !.installed = left]
      <4>1. PICK left \in {managed.installed, NoPackage} :
                  managed' = [Fails(Changing, "remove") EXCEPT !.at = "ended", !.installed = left]
        BY <3>2
      <4>2. Changing = [managed EXCEPT !.found = managed.installed] /\ Changing.failed = managed.failed
        BY <1>0, <2>1 DEF Changing, ManagedRecord
      <4>3. PICK failed \in SUBSET {"remove", "install", "restore", "killed"} :
              failed = managed.failed \cup {"remove"}
        BY <1>1
      <4>4. managed' = [managed EXCEPT !.found = managed.installed, !.at = "ended", !.installed = left,
                                       !.failed = failed]
        BY <4>1, <4>2, <4>3 DEF Fails
      <4> QED  BY <1>1, <4>3, <4>4
    <3> QED  BY <1>6, <3>1, <3>2 DEF RemoveOld
  <2>3. /\ managed' \in ManagedRecord /\ managed'.at = at /\ managed'.form = managed.form
        /\ managed'.installed = installed /\ managed'.read = managed.read
        /\ managed'.chosen = managed.chosen /\ managed'.found = managed.installed
        /\ managed'.failed = failed /\ managed'.raced = managed.raced
    BY <1>0, <1>1, <2>2 DEF ManagedRecord
  <2>4. Apart' = Apart
    BY <2>3 DEF Apart
  <2>5. ManagedKept'
    <3>1. managed.failed = {} /\ managed.installed \in Nat \cup {NoPackage}
      BY <1>1, <2>1 DEF ManagedInv, Before, Package
    <3>2. managed'.at = "ended" => managed'.failed = {"remove"}
      BY <2>2, <2>3, <3>1
    <3>3. ~Newer(managed.installed, managed.installed)
      BY <3>1 DEF Newer
    <3> QED  BY <2>2, <2>3, <3>2, <3>3 DEF ManagedKept
  <2> QED
    BY <1>1, <2>1, <2>2, <2>3, <2>4, <2>5 DEF ManagedInv, Before, Installing, Restoring
<1>7. CASE InstallChosen
  <2>1. managed.at = "install"
    BY <1>7 DEF InstallChosen
  <2>2. PICK found \in Package :
          found = IF managed.found = NoPackage THEN managed.installed ELSE managed.found
    BY <1>1
  <2>3. PICK failed \in SUBSET {"remove", "install", "restore", "killed"} :
          failed = managed.failed \cup {"install"}
    BY <1>1
  <2>4. ~managed.raced => \/ managed.found = NoPackage /\ managed.installed = managed.read /\ managed.form # "nix"
                          \/ found = managed.read /\ managed.installed = NoPackage /\ Apart
    BY <2>1, <2>2 DEF ManagedInv, Installing
  <2>5. ASSUME NEW v \in Installs, managed' = [Changing EXCEPT !.installed = v, !.at = "ended"]
        PROVE  ManagedInv'
    <3>0. v \in Version /\ v \in Offered(managed.chosen)
      BY OfferedTyped
    <3>1. managed' = [managed EXCEPT !.found = found, !.installed = v, !.at = "ended"]
      BY <2>2, <2>5 DEF Changing
    <3>2. /\ managed' \in ManagedRecord /\ managed'.at = "ended" /\ managed'.form = managed.form
          /\ managed'.installed = v /\ managed'.read = managed.read
          /\ managed'.chosen = managed.chosen /\ managed'.found = found
          /\ managed'.failed = managed.failed /\ managed'.raced = managed.raced
      BY <1>0, <1>1, <3>0, <3>1 DEF ManagedRecord
    <3>3. managed.failed = {} /\ managed.chosen > managed.read
      BY <2>1 DEF ManagedInv, Installing
    <3>4. ~managed.raced => ~Newer(found, v)
      <4>1. CASE managed.found = NoPackage /\ managed.installed = managed.read /\ managed.form # "nix"
        BY <2>2, <4>1, OfferedTyped
      <4>2. CASE found = managed.read /\ Apart
        BY <2>1, <3>0, <4>2, OfferedTyped
      <4> QED  BY <2>4, <4>1, <4>2
    <3>5. managed'.installed \in Offered(managed.chosen)'
      BY <3>0, <3>2 DEF Offered
    <3> QED  BY <3>2, <3>3, <3>4, <3>5 DEF ManagedInv, Before, Installing, Restoring, ManagedKept
  <2>6. CASE InstallFails
    <3>1. PICK left \in {managed.installed, NoPackage} \cup Installs, at \in {"restore", "ended"} :
            /\ managed' = [managed EXCEPT !.found = found, !.failed = failed, !.installed = left, !.at = at]
            /\ at = "restore" <=> Restores /\ ~(managed.form = "apt-to" /\ left = managed.read)
      <4>1. PICK left \in {managed.installed, NoPackage} \cup Installs :
              managed' = [Fails(Changing, "install") EXCEPT !.installed = left,
                !.at = IF Restores /\ ~(managed.form = "apt-to" /\ left = managed.read)
                       THEN "restore" ELSE "ended"]
        BY <2>6 DEF InstallFails
      <4>2. Changing = [managed EXCEPT !.found = found] /\ Changing.failed = managed.failed
        BY <1>0, <2>2 DEF Changing, ManagedRecord
      <4>3. Fails(Changing, "install") = [managed EXCEPT !.found = found, !.failed = failed]
        BY <2>3, <4>2 DEF Fails
      <4> QED  BY <4>1, <4>3
    <3>2. left \in Package /\ (left \in {managed.installed, NoPackage} \/ left \in Offered(managed.chosen))
      BY <1>1, OfferedTyped
    <3>3. /\ managed' \in ManagedRecord /\ managed'.at = at /\ managed'.form = managed.form
          /\ managed'.installed = left /\ managed'.read = managed.read
          /\ managed'.chosen = managed.chosen /\ managed'.found = found
          /\ managed'.failed = failed /\ managed'.raced = managed.raced
      BY <1>0, <3>1, <3>2 DEF ManagedRecord
    <3>4. failed = {"install"} /\ (Restores' <=> Restores)
      BY <2>1, <2>3, <3>3 DEF ManagedInv, Installing, Restores
    <3>5. ~managed.raced => (found = NoPackage \/ found = managed.read)
      BY <2>2, <2>4
    <3>6. ~managed.raced /\ left # NoPackage /\ found # NoPackage => ~Newer(found, left)
      <4>1. CASE left = managed.installed
        <5>1. managed.read \in Nat
          BY <1>1
        <5> QED  BY <2>2, <2>4, <4>1, <5>1 DEF Newer
      <4>2. CASE left \in Installs
        <5>1. CASE managed.found = NoPackage /\ managed.installed = managed.read /\ managed.form # "nix"
          BY <2>2, <4>2, <5>1, OfferedTyped
        <5>2. CASE found = managed.read /\ Apart
          BY <2>1, <4>2, <5>2, OfferedTyped
        <5> QED  BY <2>4, <5>1, <5>2
      <4> QED  BY <3>1, <4>1, <4>2
    <3>7. managed.form = "apt-to" /\ left = managed.read /\ found = managed.read => left \in Offered(found)'
      BY <3>3 DEF Offered
    <3>8. ManagedKept'
      BY <3>1, <3>3, <3>4, <3>5, <3>6, <3>7 DEF ManagedKept
    <3>9. managed.chosen > managed.read
      BY <2>1 DEF ManagedInv
    <3>10. at = "restore" /\ ~managed.raced => found = managed.read
      BY <1>1, <2>1, <2>2, <2>4
    <3> QED
      BY <3>1, <3>3, <3>4, <3>8, <3>9, <3>10 DEF ManagedInv, Before, Installing, Restoring
  <2> QED  BY <1>7, <2>5, <2>6 DEF InstallChosen
<1>8. CASE Restore
  <2>1. managed.at = "restore"
    BY <1>8 DEF Restore
  <2>2. PICK installed \in Package, failed \in SUBSET {"remove", "install", "restore", "killed"} :
          /\ managed' = [managed EXCEPT !.failed = failed, !.installed = installed, !.at = "ended"]
          /\ \/ installed \in Offered(managed.read) /\ failed = managed.failed
             \/ failed = managed.failed \cup {"restore"}
    <3>2. PICK failed \in SUBSET {"remove", "install", "restore", "killed"} :
            failed = managed.failed \cup {"restore"}
      BY <1>1
    <3>4. Offered(managed.read) \subseteq Package
      BY <1>1, OfferedTyped
    <3>5. CASE \E v \in Offered(managed.read) : managed' = [managed EXCEPT !.installed = v, !.at = "ended"]
      <4>1. PICK v \in Offered(managed.read) : managed' = [managed EXCEPT !.installed = v, !.at = "ended"]
        BY <3>5
      <4>2. managed' = [managed EXCEPT !.failed = managed.failed, !.installed = v, !.at = "ended"]
        BY <1>0, <4>1 DEF ManagedRecord
      <4> QED  BY <1>1, <3>4, <4>2
    <3>6. CASE \E left \in {managed.installed, NoPackage} \cup Offered(managed.read) :
                  managed' = [Fails(managed, "restore") EXCEPT !.installed = left, !.at = "ended"]
      <4>1. PICK left \in {managed.installed, NoPackage} \cup Offered(managed.read) :
                  managed' = [Fails(managed, "restore") EXCEPT !.installed = left, !.at = "ended"]
        BY <3>6
      <4>2. left \in Package
        BY <1>1, <3>4
      <4>3. managed' = [managed EXCEPT !.failed = failed, !.installed = left, !.at = "ended"]
        BY <1>0, <3>2, <4>1 DEF ManagedRecord, Fails
      <4> QED  BY <3>2, <4>2, <4>3
    <3> QED  BY <1>8, <3>5, <3>6 DEF Restore
  <2>3. /\ managed' \in ManagedRecord /\ managed'.at = "ended" /\ managed'.form = managed.form
        /\ managed'.installed = installed /\ managed'.read = managed.read
        /\ managed'.chosen = managed.chosen /\ managed'.found = managed.found
        /\ managed'.failed = failed /\ managed'.raced = managed.raced
    BY <1>0, <2>2 DEF ManagedRecord
  <2>4. /\ managed.failed = {"install"} /\ Restores /\ managed.chosen > managed.read
        /\ ~managed.raced => managed.found = managed.read
    BY <2>1 DEF ManagedInv, Restoring
  <2>5. (Restores' <=> Restores) /\ Offered(managed.found)' = Offered(managed.found)
    BY <2>3 DEF Restores, Offered
  <2>6. managed.form # "series" /\ installed \in Offered(managed.read) => installed = managed.read
    BY DEF Offered
  <2>7. ManagedKept'
    BY <1>1, <2>2, <2>3, <2>4, <2>5, <2>6 DEF ManagedKept, Newer
  <2> QED
    BY <2>3, <2>4, <2>7 DEF ManagedInv, Before, Installing, Restoring
<1>9. CASE ManagedKilled
  <2>1. PICK failed \in SUBSET {"remove", "install", "restore", "killed"} : failed = managed.failed \cup {"killed"}
    BY <1>1
  <2>2. managed' = [managed EXCEPT !.failed = failed, !.at = "ended"] /\ managed.at # "idle"
    BY <1>9, <2>1 DEF ManagedKilled, Fails, Active
  <2>3. /\ managed' \in ManagedRecord /\ managed'.at = "ended" /\ managed'.read = managed.read
        /\ managed'.chosen = managed.chosen /\ managed'.failed = failed
    BY <1>0, <2>2 DEF ManagedRecord
  <2> QED
    BY <2>1, <2>2, <2>3 DEF ManagedInv, Before, Installing, Restoring, ManagedKept
<1>10. CASE UpgradedElsewhere
  <2>1. PICK v \in Version, raced \in BOOLEAN :
          /\ managed' = [managed EXCEPT !.installed = v, !.raced = raced]
          /\ raced <=> managed.form \notin {"apt", "apt-to"} \/ managed.at \in {"install", "restore"}
    BY <1>10, Zenon DEF UpgradedElsewhere
  <2>2. /\ managed' \in ManagedRecord /\ managed'.at = managed.at /\ managed'.form = managed.form
        /\ managed'.installed = v /\ managed'.read = managed.read
        /\ managed'.chosen = managed.chosen /\ managed'.found = managed.found
        /\ managed'.failed = managed.failed /\ managed'.raced = raced
    BY <1>0, <1>1, <2>1 DEF ManagedRecord
  <2>3. managed.at \notin {"idle", "ended"}
    BY <1>10 DEF UpgradedElsewhere, Active
  <2>4. (Apart' <=> Apart) /\ (Restores' <=> Restores)
    BY <2>2 DEF Apart, Restores
  <2> QED
    BY <2>1, <2>2, <2>3, <2>4 DEF ManagedInv, Before, Installing, Restoring, ManagedKept
<1>11. CASE UNCHANGED managed
  BY <1>11 DEF ManagedInv, Before, Installing, Restoring, ManagedKept, Restores, Apart, Offered
<1> QED
  BY <1>2, <1>4, <1>5, <1>6, <1>7, <1>8, <1>9, <1>10, <1>11 DEF ManagedNext, ManagedStep

\* ManagedInv is what every update keeps.
LEMMA ManagedCorrect == ManagedSpec => []ManagedInv
<1>1. ManagedInit => ManagedInv
  <2> SUFFICES ASSUME ManagedInit PROVE ManagedInv
    OBVIOUS
  <2>1. 1 \in Version /\ Version \subseteq Package /\ NoPackage \in Package
    BY ManagedAssumption DEF Version, Package
  <2>2. managed \in ManagedRecord
    BY <2>1 DEF ManagedInit, NoUpdate, ManagedRecord, Form
  <2> QED  BY <2>2 DEF ManagedInit, NoUpdate, ManagedInv, Before, Installing, Restoring, ManagedKept
<1> QED  BY <1>1, ManagedStepInv, PTL DEF ManagedSpec

\* However a manager fails, the version that was found or the one agreed to is left, for every
\* number of releases (update.py 523-585 and 667-765).
THEOREM ManagedStaysKept == ManagedSpec => []ManagedKept
<1>1. ManagedInv => ManagedKept
  BY DEF ManagedInv
<1> QED  BY <1>1, ManagedCorrect, PTL

\* Every field of an update has its type (update.py 523-585 and 667-765).
LEMMA ManagedTypes == ManagedSpec => []ManagedTypeOK
<1>1. ManagedInv => ManagedTypeOK
  BY DEF ManagedInv, ManagedRecord, ManagedTypeOK
<1> QED  BY <1>1, ManagedCorrect, PTL

-----------------------------------------------------------------------------
(* Updates on Windows *)

WindowsRecord ==
    [bin : Installed \cup {NoVersion}, whole : BOOLEAN, previous : SUBSET Installed,
     staged : SUBSET Installed, pending : BOOLEAN,
     rvs : {"idle", "stage", "mark", "spawn", "leave", "exited"},
     helper : {"none", "wait", "backup", "move", "check", "undo", "clear", "return", "unstage",
               "finally"},
     version : Installed, handed : Installed \cup {NoVersion},
     backup : Installed \cup {NoVersion}, disturbed : BOOLEAN]

\* Staged versions, and the last one handed to a helper, are those of this update or of
\* earlier ones.
WindowsFiles ==
    /\ \A v \in windows.staged : v <= windows.version
    /\ windows.rvs = "stage" => windows.version \notin windows.staged
    /\ windows.handed # NoVersion => windows.handed <= windows.version
    /\ windows.rvs \in {"stage", "mark", "spawn"} => windows.handed # windows.version
\* rvs and its helper take turns; the pending mark is there from the one to the other.
WindowsPhases ==
    /\ windows.helper # "none" => windows.pending /\ windows.rvs \in {"leave", "exited"}
    /\ windows.rvs \in {"stage", "mark"} => ~windows.pending
    /\ windows.rvs = "spawn" => windows.pending
    /\ windows.rvs \in {"stage", "mark", "spawn"} => Runnable
    /\ windows.helper \in {"none", "wait", "backup"} => windows.backup = NoVersion
\* What the helper can rely on where it is.
WindowsHelper ==
    /\ windows.helper \in {"wait", "backup", "check"} => Runnable
    /\ windows.helper \in {"move", "check", "clear", "return"} =>
            windows.backup # NoVersion /\ windows.backup \in windows.previous
    /\ windows.helper = "undo" =>
            IF windows.backup = NoVersion THEN Runnable ELSE windows.backup \in windows.previous
    /\ windows.helper \in {"unstage", "finally"} /\ ~windows.disturbed => Runnable
    /\ windows.helper \in {"check", "finally"} /\ ~windows.disturbed =>
            windows.version \notin windows.staged
    /\ windows.rvs = "leave" /\ windows.helper = "none" /\ ~windows.disturbed =>
            Runnable /\ ~windows.pending /\ windows.version \notin windows.staged
WindowsInv ==
    windows \in WindowsRecord /\ WindowsFiles /\ WindowsPhases /\ WindowsHelper /\ WindowsKept

\* Every step of rvs and its helper, and every kill, keeps to this.
LEMMA WindowsStepInv == WindowsInv /\ [WindowsNext]_windows => WindowsInv'
<1> SUFFICES ASSUME WindowsInv, [WindowsNext]_windows PROVE WindowsInv'
  OBVIOUS
<1> USE DEF WindowsFiles, WindowsPhases, WindowsHelper, WindowsKept, Runnable
<1>0. windows \in WindowsRecord
  BY DEF WindowsInv
<1>1. /\ windows.bin \in Installed \cup {NoVersion} /\ windows.previous \in SUBSET Installed
      /\ windows.staged \in SUBSET Installed /\ windows.version \in Installed
      /\ windows.backup \in Installed \cup {NoVersion} /\ NoVersion \notin Installed
      /\ windows.handed \in Installed \cup {NoVersion}
      /\ windows.version <= windows.version
  BY <1>0, WindowsAssumption DEF WindowsRecord, Installed
<1>2. CASE UNCHANGED windows
  BY <1>2 DEF WindowsInv
<1>3. CASE WindowsBegin
  <2>1. /\ windows.rvs \in {"idle", "exited"} /\ Runnable /\ ~windows.pending
        /\ windows.version < Updates
    BY <1>3 DEF WindowsBegin
  <2>2. PICK version \in Installed :
          /\ version = windows.version + 1
          /\ windows' = [windows EXCEPT !.rvs = "stage", !.version = version]
    <3>1. windows.version + 1 \in Installed
      BY <1>1, <2>1, WindowsAssumption DEF Installed
    <3> QED  BY <1>3, <3>1 DEF WindowsBegin
  <2>3. /\ windows' \in WindowsRecord /\ windows'.bin = windows.bin
        /\ windows'.whole = windows.whole /\ windows'.previous = windows.previous
        /\ windows'.staged = windows.staged /\ windows'.pending = windows.pending
        /\ windows'.rvs = "stage" /\ windows'.helper = windows.helper
        /\ windows'.version = version /\ windows'.handed = windows.handed
        /\ windows'.backup = windows.backup
        /\ windows'.disturbed = windows.disturbed
    BY <1>0, <2>2 DEF WindowsRecord
  <2>4. /\ \A v \in windows.staged : v <= version /\ v # version
        /\ windows.handed # version /\ (windows.handed # NoVersion => windows.handed <= version)
    BY <1>1, <2>2 DEF WindowsInv, WindowsFiles, Installed
  <2> QED  BY <2>1, <2>3, <2>4 DEF WindowsInv
<1>4. CASE Stage
  <2>1. PICK staged \in SUBSET Installed : staged = windows.staged \cup {windows.version}
    BY <1>1
  <2>2. windows.rvs = "stage"
    BY <1>4 DEF Stage
  <2>3. CASE windows' = [windows EXCEPT !.staged = staged, !.rvs = "mark"]
    <3>1. /\ windows' \in WindowsRecord /\ windows'.bin = windows.bin
          /\ windows'.whole = windows.whole /\ windows'.previous = windows.previous
          /\ windows'.staged = staged /\ windows'.pending = windows.pending
          /\ windows'.rvs = "mark" /\ windows'.helper = windows.helper
          /\ windows'.version = windows.version /\ windows'.handed = windows.handed
          /\ windows'.backup = windows.backup
          /\ windows'.disturbed = windows.disturbed
      BY <1>0, <1>1, <2>1, <2>2, <2>3 DEF WindowsRecord
    <3> QED  BY <1>1, <2>1, <2>2, <2>3, <3>1 DEF WindowsInv
  <2>4. CASE \E left \in {windows, Staged} : windows' = [left EXCEPT !.rvs = "exited"]
    <3>1. PICK left \in SUBSET Installed : /\ left \in {windows.staged, staged}
                                          /\ windows' = [windows EXCEPT !.staged = left, !.rvs = "exited"]
      <4>1. CASE windows' = [windows EXCEPT !.rvs = "exited"]
        <5>1. windows' = [windows EXCEPT !.staged = windows.staged, !.rvs = "exited"]
          BY <1>0, <4>1 DEF WindowsRecord
        <5> QED  BY <1>1, <5>1
      <4>2. CASE windows' = [Staged EXCEPT !.rvs = "exited"]
        BY <2>1, <4>2 DEF Staged
      <4> QED  BY <2>4, <4>1, <4>2
    <3>2. /\ windows' \in WindowsRecord /\ windows'.bin = windows.bin
          /\ windows'.whole = windows.whole /\ windows'.previous = windows.previous
          /\ windows'.staged = left /\ windows'.pending = windows.pending
          /\ windows'.rvs = "exited" /\ windows'.helper = windows.helper
          /\ windows'.version = windows.version /\ windows'.handed = windows.handed
          /\ windows'.backup = windows.backup /\ windows'.disturbed = windows.disturbed
      BY <1>0, <1>1, <2>2, <3>1 DEF WindowsRecord
    <3> QED  BY <1>1, <2>1, <2>2, <3>1, <3>2 DEF WindowsInv
  <2> QED  BY <1>4, <2>1, <2>3, <2>4 DEF Stage, Staged
<1>5. ASSUME Withdraw, windows.rvs \in {"mark", "spawn"} PROVE WindowsInv'
  <2>1. PICK staged \in SUBSET Installed : staged = windows.staged \ {windows.version}
    BY <1>1
  <2>2. CASE \E left \in {windows, Unstaged(windows)} :
                windows' = [left EXCEPT !.pending = FALSE, !.rvs = "exited"]
    <3>1. PICK left \in SUBSET Installed :
              /\ left \in {windows.staged, staged}
              /\ windows' = [windows EXCEPT !.staged = left, !.pending = FALSE, !.rvs = "exited"]
      <4>1. CASE windows' = [windows EXCEPT !.pending = FALSE, !.rvs = "exited"]
        <5>1. windows' = [windows EXCEPT !.staged = windows.staged, !.pending = FALSE, !.rvs = "exited"]
          BY <1>0, <4>1 DEF WindowsRecord
        <5> QED  BY <1>1, <5>1
      <4>2. CASE windows' = [Unstaged(windows) EXCEPT !.pending = FALSE, !.rvs = "exited"]
        BY <2>1, <4>2 DEF Unstaged
      <4> QED  BY <2>2, <4>1, <4>2
    <3>2. /\ windows' \in WindowsRecord /\ windows'.bin = windows.bin
          /\ windows'.whole = windows.whole /\ windows'.previous = windows.previous
          /\ windows'.staged = left /\ windows'.pending = FALSE
          /\ windows'.rvs = "exited" /\ windows'.helper = windows.helper
          /\ windows'.version = windows.version /\ windows'.handed = windows.handed
          /\ windows'.backup = windows.backup /\ windows'.disturbed = windows.disturbed
      BY <1>0, <1>1, <3>1 DEF WindowsRecord
    <3> QED  BY <1>1, <1>5, <2>1, <3>1, <3>2 DEF WindowsInv
  <2>3. CASE windows' = [windows EXCEPT !.pending = TRUE, !.rvs = "exited", !.disturbed = TRUE]
    <3>1. /\ windows' \in WindowsRecord /\ windows'.bin = windows.bin
          /\ windows'.whole = windows.whole /\ windows'.previous = windows.previous
          /\ windows'.staged = windows.staged /\ windows'.pending = TRUE
          /\ windows'.rvs = "exited" /\ windows'.helper = windows.helper
          /\ windows'.version = windows.version /\ windows'.handed = windows.handed
          /\ windows'.backup = windows.backup /\ windows'.disturbed = TRUE
      BY <1>0, <1>1, <2>3 DEF WindowsRecord
    <3> QED  BY <1>1, <1>5, <3>1 DEF WindowsInv
  <2> QED  BY <1>5, <2>2, <2>3 DEF Withdraw
<1>6. CASE Mark
  <2>1. windows.rvs = "mark"
    BY <1>6 DEF Mark
  <2>2. CASE windows' = [windows EXCEPT !.pending = TRUE, !.rvs = "spawn"]
    <3>1. /\ windows' \in WindowsRecord /\ windows'.bin = windows.bin
          /\ windows'.whole = windows.whole /\ windows'.previous = windows.previous
          /\ windows'.staged = windows.staged /\ windows'.pending = TRUE
          /\ windows'.rvs = "spawn" /\ windows'.helper = windows.helper
          /\ windows'.version = windows.version /\ windows'.handed = windows.handed
          /\ windows'.backup = windows.backup /\ windows'.disturbed = windows.disturbed
      BY <1>0, <1>1, <2>2 DEF WindowsRecord
    <3> QED  BY <1>1, <2>1, <3>1 DEF WindowsInv
  <2> QED  BY <1>6, <1>5, <2>1, <2>2 DEF Mark
<1>7. CASE Spawn
  <2>1. windows.rvs = "spawn"
    BY <1>7 DEF Spawn
  <2>2. CASE windows' = [windows EXCEPT !.rvs = "leave", !.helper = "wait", !.handed = windows.version]
    <3>1. /\ windows' \in WindowsRecord /\ windows'.bin = windows.bin
          /\ windows'.whole = windows.whole /\ windows'.previous = windows.previous
          /\ windows'.staged = windows.staged /\ windows'.pending = windows.pending
          /\ windows'.rvs = "leave" /\ windows'.helper = "wait"
          /\ windows'.version = windows.version /\ windows'.handed = windows.version
          /\ windows'.backup = windows.backup /\ windows'.disturbed = windows.disturbed
      BY <1>0, <1>1, <2>2 DEF WindowsRecord
    <3> QED  BY <1>1, <2>1, <3>1 DEF WindowsInv
  <2> QED  BY <1>7, <1>5, <2>1, <2>2 DEF Spawn
<1>8. CASE Leave
  <2>1. windows.rvs = "leave"
    BY <1>8 DEF Leave
  <2>2. CASE windows' = [windows EXCEPT !.rvs = "exited"]
    <3>1. /\ windows' \in WindowsRecord /\ windows'.bin = windows.bin
          /\ windows'.whole = windows.whole /\ windows'.previous = windows.previous
          /\ windows'.staged = windows.staged /\ windows'.pending = windows.pending
          /\ windows'.rvs = "exited" /\ windows'.helper = windows.helper
          /\ windows'.version = windows.version /\ windows'.handed = windows.handed
          /\ windows'.backup = windows.backup
          /\ windows'.disturbed = windows.disturbed
      BY <1>0, <1>1, <2>1, <2>2 DEF WindowsRecord
    <3> QED  BY <1>1, <2>1, <2>2, <3>1 DEF WindowsInv
  <2> QED  BY <1>8, <2>2 DEF Leave
<1>9. CASE WaitForExit
  <2>1. windows.helper = "wait"
    BY <1>9 DEF WaitForExit
  <2>2. CASE windows.rvs = "exited" /\ windows' = [windows EXCEPT !.helper = "backup"]
    <3>1. /\ windows' \in WindowsRecord /\ windows'.bin = windows.bin
          /\ windows'.whole = windows.whole /\ windows'.previous = windows.previous
          /\ windows'.staged = windows.staged /\ windows'.pending = windows.pending
          /\ windows'.rvs = windows.rvs /\ windows'.helper = "backup"
          /\ windows'.version = windows.version /\ windows'.handed = windows.handed
          /\ windows'.backup = windows.backup
          /\ windows'.disturbed = windows.disturbed
      BY <1>0, <1>1, <2>1, <2>2 DEF WindowsRecord
    <3> QED  BY <1>1, <2>1, <2>2, <3>1 DEF WindowsInv
  <2>3. CASE windows' = [windows EXCEPT !.helper = "undo"]
    <3>1. /\ windows' \in WindowsRecord /\ windows'.bin = windows.bin
          /\ windows'.whole = windows.whole /\ windows'.previous = windows.previous
          /\ windows'.staged = windows.staged /\ windows'.pending = windows.pending
          /\ windows'.rvs = windows.rvs /\ windows'.helper = "undo"
          /\ windows'.version = windows.version /\ windows'.handed = windows.handed
          /\ windows'.backup = windows.backup
          /\ windows'.disturbed = windows.disturbed
      BY <1>0, <1>1, <2>1, <2>3 DEF WindowsRecord
    <3> QED  BY <1>1, <2>1, <2>3, <3>1 DEF WindowsInv
  <2> QED  BY <1>9, <2>2, <2>3 DEF WaitForExit, Throw
<1>10. CASE MoveOld
  <2>1. PICK previous \in SUBSET Installed : previous = windows.previous \cup {windows.bin}
    BY <1>1, <1>10 DEF WindowsInv, MoveOld
  <2>2. windows.helper = "backup"
    BY <1>10 DEF MoveOld
  <2>3. CASE windows' = [windows EXCEPT !.backup = windows.bin, !.bin = NoVersion, !.previous = previous,
                                         !.helper = "move"]
    <3>1. /\ windows' \in WindowsRecord /\ windows'.bin = NoVersion
          /\ windows'.whole = windows.whole /\ windows'.previous = previous
          /\ windows'.staged = windows.staged /\ windows'.pending = windows.pending
          /\ windows'.rvs = windows.rvs /\ windows'.helper = "move"
          /\ windows'.version = windows.version /\ windows'.handed = windows.handed
          /\ windows'.backup = windows.bin
          /\ windows'.disturbed = windows.disturbed
      BY <1>0, <1>1, <2>1, <2>2, <2>3 DEF WindowsRecord
    <3> QED  BY <1>1, <2>1, <2>2, <2>3, <3>1 DEF WindowsInv
  <2>4. CASE windows' = [windows EXCEPT !.helper = "undo"]
    <3>1. /\ windows' \in WindowsRecord /\ windows'.bin = windows.bin
          /\ windows'.whole = windows.whole /\ windows'.previous = windows.previous
          /\ windows'.staged = windows.staged /\ windows'.pending = windows.pending
          /\ windows'.rvs = windows.rvs /\ windows'.helper = "undo"
          /\ windows'.version = windows.version /\ windows'.handed = windows.handed
          /\ windows'.backup = windows.backup
          /\ windows'.disturbed = windows.disturbed
      BY <1>0, <1>1, <2>1, <2>2, <2>4 DEF WindowsRecord
    <3> QED  BY <1>1, <2>1, <2>2, <2>4, <3>1 DEF WindowsInv
  <2> QED  BY <1>10, <2>1, <2>3, <2>4 DEF MoveOld, Throw
<1>11. CASE MoveNew
  <2>1. PICK staged \in SUBSET Installed : staged = windows.staged \ {windows.version}
    BY <1>1
  <2>2. windows.helper = "move"
    BY <1>11 DEF MoveNew
  <2>3. CASE windows' = [windows EXCEPT !.staged = staged, !.bin = windows.version, !.whole = TRUE,
                                         !.helper = "check"]
    <3>1. /\ windows' \in WindowsRecord /\ windows'.bin = windows.version
          /\ windows'.whole = TRUE /\ windows'.previous = windows.previous
          /\ windows'.staged = staged /\ windows'.pending = windows.pending
          /\ windows'.rvs = windows.rvs /\ windows'.helper = "check"
          /\ windows'.version = windows.version /\ windows'.handed = windows.handed
          /\ windows'.backup = windows.backup
          /\ windows'.disturbed = windows.disturbed
      BY <1>0, <1>1, <2>1, <2>2, <2>3 DEF WindowsRecord
    <3> QED  BY <1>1, <2>1, <2>2, <2>3, <3>1 DEF WindowsInv
  <2>4. CASE windows' = [windows EXCEPT !.helper = "undo"]
    <3>1. /\ windows' \in WindowsRecord /\ windows'.bin = windows.bin
          /\ windows'.whole = windows.whole /\ windows'.previous = windows.previous
          /\ windows'.staged = windows.staged /\ windows'.pending = windows.pending
          /\ windows'.rvs = windows.rvs /\ windows'.helper = "undo"
          /\ windows'.version = windows.version /\ windows'.handed = windows.handed
          /\ windows'.backup = windows.backup
          /\ windows'.disturbed = windows.disturbed
      BY <1>0, <1>1, <2>1, <2>2, <2>4 DEF WindowsRecord
    <3> QED  BY <1>1, <2>1, <2>2, <2>4, <3>1 DEF WindowsInv
  <2> QED  BY <1>11, <2>1, <2>3, <2>4 DEF MoveNew, Throw, Unstaged
<1>12. CASE Check
  <2>1. PICK previous \in SUBSET Installed : previous = {windows.backup}
    BY <1>1, <1>12 DEF WindowsInv, Check
  <2>2. windows.helper = "check"
    BY <1>12 DEF Check
  <2>3. CASE windows' = [windows EXCEPT !.previous = previous, !.helper = "finally"]
    <3>1. /\ windows' \in WindowsRecord /\ windows'.bin = windows.bin
          /\ windows'.whole = windows.whole /\ windows'.previous = previous
          /\ windows'.staged = windows.staged /\ windows'.pending = windows.pending
          /\ windows'.rvs = windows.rvs /\ windows'.helper = "finally"
          /\ windows'.version = windows.version /\ windows'.handed = windows.handed
          /\ windows'.backup = windows.backup
          /\ windows'.disturbed = windows.disturbed
      BY <1>0, <1>1, <2>1, <2>2, <2>3 DEF WindowsRecord
    <3> QED  BY <1>1, <2>1, <2>2, <2>3, <3>1 DEF WindowsInv
  <2>4. CASE windows' = [windows EXCEPT !.helper = "undo"]
    <3>1. /\ windows' \in WindowsRecord /\ windows'.bin = windows.bin
          /\ windows'.whole = windows.whole /\ windows'.previous = windows.previous
          /\ windows'.staged = windows.staged /\ windows'.pending = windows.pending
          /\ windows'.rvs = windows.rvs /\ windows'.helper = "undo"
          /\ windows'.version = windows.version /\ windows'.handed = windows.handed
          /\ windows'.backup = windows.backup
          /\ windows'.disturbed = windows.disturbed
      BY <1>0, <1>1, <2>1, <2>2, <2>4 DEF WindowsRecord
    <3> QED  BY <1>1, <2>1, <2>2, <2>4, <3>1 DEF WindowsInv
  <2> QED  BY <1>12, <2>1, <2>3, <2>4 DEF Check, Throw
<1>13. CASE Undo
  <2>1. windows.helper = "undo"
    BY <1>13 DEF Undo
  <2>2. CASE windows.backup = NoVersion /\ windows' = [windows EXCEPT !.helper = "unstage"]
    <3>1. /\ windows' \in WindowsRecord /\ windows'.bin = windows.bin
          /\ windows'.whole = windows.whole /\ windows'.previous = windows.previous
          /\ windows'.staged = windows.staged /\ windows'.pending = windows.pending
          /\ windows'.rvs = windows.rvs /\ windows'.helper = "unstage"
          /\ windows'.version = windows.version /\ windows'.handed = windows.handed
          /\ windows'.backup = windows.backup
          /\ windows'.disturbed = windows.disturbed
      BY <1>0, <1>1, <2>1, <2>2 DEF WindowsRecord
    <3> QED  BY <1>1, <2>1, <2>2, <3>1 DEF WindowsInv
  <2>3. CASE windows.backup # NoVersion /\ windows' = [windows EXCEPT !.helper = "return"]
    <3>1. /\ windows' \in WindowsRecord /\ windows'.bin = windows.bin
          /\ windows'.whole = windows.whole /\ windows'.previous = windows.previous
          /\ windows'.staged = windows.staged /\ windows'.pending = windows.pending
          /\ windows'.rvs = windows.rvs /\ windows'.helper = "return"
          /\ windows'.version = windows.version /\ windows'.handed = windows.handed
          /\ windows'.backup = windows.backup
          /\ windows'.disturbed = windows.disturbed
      BY <1>0, <1>1, <2>1, <2>3 DEF WindowsRecord
    <3> QED  BY <1>1, <2>1, <2>3, <3>1 DEF WindowsInv
  <2>4. CASE windows.backup # NoVersion /\ windows' = [windows EXCEPT !.helper = "clear"]
    <3>1. /\ windows' \in WindowsRecord /\ windows'.bin = windows.bin
          /\ windows'.whole = windows.whole /\ windows'.previous = windows.previous
          /\ windows'.staged = windows.staged /\ windows'.pending = windows.pending
          /\ windows'.rvs = windows.rvs /\ windows'.helper = "clear"
          /\ windows'.version = windows.version /\ windows'.handed = windows.handed
          /\ windows'.backup = windows.backup
          /\ windows'.disturbed = windows.disturbed
      BY <1>0, <1>1, <2>1, <2>4 DEF WindowsRecord
    <3> QED  BY <1>1, <2>1, <2>4, <3>1 DEF WindowsInv
  <2> QED  BY <1>13, <2>2, <2>3, <2>4 DEF Undo
<1>14. CASE Clear
  <2>1. windows.helper = "clear"
    BY <1>14 DEF Clear
  <2>2. CASE windows' = [windows EXCEPT !.bin = NoVersion, !.helper = "return"]
    <3>1. /\ windows' \in WindowsRecord /\ windows'.bin = NoVersion
          /\ windows'.whole = windows.whole /\ windows'.previous = windows.previous
          /\ windows'.staged = windows.staged /\ windows'.pending = windows.pending
          /\ windows'.rvs = windows.rvs /\ windows'.helper = "return"
          /\ windows'.version = windows.version /\ windows'.handed = windows.handed
          /\ windows'.backup = windows.backup
          /\ windows'.disturbed = windows.disturbed
      BY <1>0, <1>1, <2>1, <2>2 DEF WindowsRecord
    <3> QED  BY <1>1, <2>1, <2>2, <3>1 DEF WindowsInv
  <2>3. CASE windows' = [windows EXCEPT !.whole = FALSE, !.disturbed = TRUE, !.helper = "finally"]
    <3>1. /\ windows' \in WindowsRecord /\ windows'.bin = windows.bin /\ windows'.whole = FALSE
          /\ windows'.previous = windows.previous /\ windows'.staged = windows.staged
          /\ windows'.pending = windows.pending /\ windows'.rvs = windows.rvs
          /\ windows'.helper = "finally" /\ windows'.version = windows.version
          /\ windows'.handed = windows.handed
          /\ windows'.backup = windows.backup /\ windows'.disturbed = TRUE
      BY <1>0, <1>1, <2>1, <2>3 DEF WindowsRecord
    <3> QED  BY <1>1, <2>1, <2>3, <3>1 DEF WindowsInv
  <2> QED  BY <1>14, <2>2, <2>3 DEF Clear
<1>15. CASE Return
  <2>1. PICK previous \in SUBSET Installed : previous = windows.previous \ {windows.backup}
    BY <1>1
  <2>2. windows.helper = "return"
    BY <1>15 DEF Return
  <2>3. CASE windows' = [windows EXCEPT !.bin = windows.backup, !.whole = TRUE,
                                         !.previous = previous, !.helper = "unstage"]
    <3>1. /\ windows' \in WindowsRecord /\ windows'.bin = windows.backup
          /\ windows'.whole = TRUE /\ windows'.previous = previous
          /\ windows'.staged = windows.staged /\ windows'.pending = windows.pending
          /\ windows'.rvs = windows.rvs /\ windows'.helper = "unstage"
          /\ windows'.version = windows.version /\ windows'.handed = windows.handed
          /\ windows'.backup = windows.backup
          /\ windows'.disturbed = windows.disturbed
      BY <1>0, <1>1, <2>1, <2>2, <2>3 DEF WindowsRecord
    <3> QED  BY <1>1, <2>1, <2>2, <2>3, <3>1 DEF WindowsInv
  <2>4. CASE windows' = [windows EXCEPT !.disturbed = TRUE, !.helper = "finally"]
    <3>1. /\ windows' \in WindowsRecord /\ windows'.bin = windows.bin
          /\ windows'.whole = windows.whole /\ windows'.previous = windows.previous
          /\ windows'.staged = windows.staged /\ windows'.pending = windows.pending
          /\ windows'.rvs = windows.rvs /\ windows'.helper = "finally"
          /\ windows'.version = windows.version /\ windows'.handed = windows.handed
          /\ windows'.backup = windows.backup
          /\ windows'.disturbed = TRUE
      BY <1>0, <1>1, <2>1, <2>2, <2>4 DEF WindowsRecord
    <3> QED  BY <1>1, <2>1, <2>2, <2>4, <3>1 DEF WindowsInv
  <2> QED  BY <1>15, <2>1, <2>3, <2>4 DEF Return
<1>16. CASE Unstage
  <2>1. PICK staged \in SUBSET Installed : staged = windows.staged \ {windows.version}
    BY <1>1
  <2>2. windows.helper = "unstage"
    BY <1>16 DEF Unstage
  <2>3. CASE windows' = [windows EXCEPT !.staged = staged, !.helper = "finally"]
    <3>1. /\ windows' \in WindowsRecord /\ windows'.bin = windows.bin
          /\ windows'.whole = windows.whole /\ windows'.previous = windows.previous
          /\ windows'.staged = staged /\ windows'.pending = windows.pending
          /\ windows'.rvs = windows.rvs /\ windows'.helper = "finally"
          /\ windows'.version = windows.version /\ windows'.handed = windows.handed
          /\ windows'.backup = windows.backup
          /\ windows'.disturbed = windows.disturbed
      BY <1>0, <1>1, <2>1, <2>2, <2>3 DEF WindowsRecord
    <3> QED  BY <1>1, <2>1, <2>2, <2>3, <3>1 DEF WindowsInv
  <2>4. CASE windows' = [windows EXCEPT !.helper = "finally", !.disturbed = TRUE]
    <3>1. /\ windows' \in WindowsRecord /\ windows'.bin = windows.bin
          /\ windows'.whole = windows.whole /\ windows'.previous = windows.previous
          /\ windows'.staged = windows.staged /\ windows'.pending = windows.pending
          /\ windows'.rvs = windows.rvs /\ windows'.helper = "finally"
          /\ windows'.version = windows.version /\ windows'.handed = windows.handed
          /\ windows'.backup = windows.backup
          /\ windows'.disturbed = TRUE
      BY <1>0, <1>1, <2>1, <2>2, <2>4 DEF WindowsRecord
    <3> QED  BY <1>1, <2>1, <2>2, <2>4, <3>1 DEF WindowsInv
  <2> QED  BY <1>16, <2>1, <2>3, <2>4 DEF Unstage, Unstaged
<1>17. CASE Finally
  <2>1. windows.helper = "finally"
    BY <1>17 DEF Finally
  <2>2. CASE windows' = [windows EXCEPT !.pending = FALSE, !.helper = "none", !.backup = NoVersion]
    <3>1. /\ windows' \in WindowsRecord /\ windows'.bin = windows.bin
          /\ windows'.whole = windows.whole /\ windows'.previous = windows.previous
          /\ windows'.staged = windows.staged /\ windows'.pending = FALSE
          /\ windows'.rvs = windows.rvs /\ windows'.helper = "none"
          /\ windows'.version = windows.version /\ windows'.handed = windows.handed
          /\ windows'.backup = NoVersion
          /\ windows'.disturbed = windows.disturbed
      BY <1>0, <1>1, <2>1, <2>2 DEF WindowsRecord
    <3> QED  BY <1>1, <2>1, <2>2, <3>1 DEF WindowsInv
  <2>3. CASE windows' = [windows EXCEPT !.helper = "none", !.backup = NoVersion, !.disturbed = TRUE]
    <3>1. /\ windows' \in WindowsRecord /\ windows'.bin = windows.bin
          /\ windows'.whole = windows.whole /\ windows'.previous = windows.previous
          /\ windows'.staged = windows.staged /\ windows'.pending = windows.pending
          /\ windows'.rvs = windows.rvs /\ windows'.helper = "none"
          /\ windows'.version = windows.version /\ windows'.handed = windows.handed
          /\ windows'.backup = NoVersion
          /\ windows'.disturbed = TRUE
      BY <1>0, <1>1, <2>1, <2>3 DEF WindowsRecord
    <3> QED  BY <1>1, <2>1, <2>3, <3>1 DEF WindowsInv
  <2> QED  BY <1>17, <2>2, <2>3 DEF Finally
<1>18. CASE WindowsKilled
  <2>1. windows.rvs \notin {"idle", "exited"}
    BY <1>18 DEF WindowsKilled
  <2>2. CASE windows' = [windows EXCEPT !.rvs = "exited", !.disturbed = TRUE]
    <3>1. /\ windows' \in WindowsRecord /\ windows'.bin = windows.bin
          /\ windows'.whole = windows.whole /\ windows'.previous = windows.previous
          /\ windows'.staged = windows.staged /\ windows'.pending = windows.pending
          /\ windows'.rvs = "exited" /\ windows'.helper = windows.helper
          /\ windows'.version = windows.version /\ windows'.handed = windows.handed
          /\ windows'.backup = windows.backup
          /\ windows'.disturbed = TRUE
      BY <1>0, <1>1, <2>1, <2>2 DEF WindowsRecord
    <3> QED  BY <1>1, <2>1, <2>2, <3>1 DEF WindowsInv
  <2> QED  BY <1>18, <2>2 DEF WindowsKilled
<1>19. CASE HelperKilled
  <2>1. windows.helper # "none"
    BY <1>19 DEF HelperKilled
  <2>2. CASE windows' = [windows EXCEPT !.helper = "none", !.backup = NoVersion, !.disturbed = TRUE]
    <3>1. /\ windows' \in WindowsRecord /\ windows'.bin = windows.bin
          /\ windows'.whole = windows.whole /\ windows'.previous = windows.previous
          /\ windows'.staged = windows.staged /\ windows'.pending = windows.pending
          /\ windows'.rvs = windows.rvs /\ windows'.helper = "none"
          /\ windows'.version = windows.version /\ windows'.handed = windows.handed
          /\ windows'.backup = NoVersion
          /\ windows'.disturbed = TRUE
      BY <1>0, <1>1, <2>1, <2>2 DEF WindowsRecord
    <3> QED  BY <1>1, <2>1, <2>2, <3>1 DEF WindowsInv
  <2> QED  BY <1>19, <2>2 DEF HelperKilled
<1> QED
  BY <1>2, <1>3, <1>4, <1>6, <1>7, <1>8, <1>9, <1>10, <1>11, <1>12, <1>13, <1>14, <1>15, <1>16,
     <1>17, <1>18, <1>19
  DEF WindowsNext, WindowsStep, Helper

\* WindowsInv is what every update on Windows keeps.
LEMMA WindowsCorrect == WindowsSpec => []WindowsInv
<1>1. WindowsInit => WindowsInv
  <2> SUFFICES ASSUME WindowsInit PROVE WindowsInv
    OBVIOUS
  <2>1. 0 \in Installed /\ NoVersion \notin Installed
    BY WindowsAssumption DEF Installed
  <2>2. windows \in WindowsRecord
    BY <2>1 DEF WindowsInit, NoWindows, WindowsRecord
  <2> QED
    BY <2>1, <2>2 DEF WindowsInit, NoWindows, WindowsInv, WindowsFiles, WindowsPhases, WindowsHelper,
                      WindowsKept, Runnable
<1> QED  BY <1>1, WindowsStepInv, PTL DEF WindowsSpec

\* However an update fails or is killed, a version that has run is left, and nothing that blocks
\* the next update, for every number of updates (portable_update.py 345-378 and 458-545).
THEOREM WindowsStaysKept == WindowsSpec => []WindowsKept
<1>1. WindowsInv => WindowsKept
  BY DEF WindowsInv
<1> QED  BY <1>1, WindowsCorrect, PTL

\* Every field of an update on Windows has its type (portable_update.py 345-378 and 458-545).
LEMMA WindowsTypes == WindowsSpec => []WindowsTypeOK
<1>1. WindowsInv => WindowsTypeOK
  BY DEF WindowsInv, WindowsRecord, WindowsTypeOK
<1> QED  BY <1>1, WindowsCorrect, PTL

-----------------------------------------------------------------------------
(* Runtimes *)

\* The locals of a command; only one that names no version has found a temporary directory.
Job == [at : {"idle", "force", "uninstall", "replace", "remove", "replacing", "removing", "resolve",
              "download", "unpacked", "move", "shims"},
        wants : Request \cup {<<>>}, version : Runtime \cup Runner \cup {Nowhere}]
Named(j) == j.wants # <<>> => j.version \in Runtime \cup {Nowhere}
RuntimeInv == RuntimeTypeOK /\ RuntimesWhole

\* Who works in a version's directory, who has an unpacked archive.
Removing(j, v) == j.at \in {"replacing", "removing"} /\ j.version = v
Unpacked(j) == j.at \in {"unpacked", "move"}

\* One command does a step that leaves directories and archives to those that answer for them.
LEMMA OneJob ==
    ASSUME RuntimeInv, NEW r \in Runner, NEW j \in Job, Named(j), job' = [job EXCEPT ![r] = j],
           tree' \in [Runtime -> {"absent", "part", "whole"}],
           torn' \subseteq Runtime \cup Runner \cup {Nowhere}, \A x \in torn : x \in torn' \/ x = r,
           \A v \in Runtime : tree'[v] = "part" =>
               (tree[v] = "part" /\ ~Removing(job[r], v)) \/ Removing(j, v) \/ v \in torn',
           unpacking' \subseteq unpacking \cup {r},
           r \in unpacking' => Unpacked(j) \/ r \in torn',
           answered' \in Runtime \cup Runner \cup {Nowhere}, commands' \in 0..Commands
    PROVE  RuntimeInv'
<1>1. job' \in [Runner -> Job] /\ job'[r] = j /\ \A q \in Runner \ {r} : job'[q] = job[q]
  BY DEF RuntimeInv, RuntimeTypeOK, Job
<1>2. ASSUME NEW v \in Runtime, tree'[v] = "part"
      PROVE  v \in torn' \/ \E q \in Runner : Removing(job'[q], v)
  <2>1. CASE tree[v] = "part" /\ ~Removing(job[r], v)
    <3>1. v \in torn \/ \E q \in Runner : Removing(job[q], v)
      BY <2>1 DEF RuntimeInv, RuntimesWhole, Removing, Half
    <3>2. v # r
      BY RuntimeAssumption
    <3> QED  BY <1>1, <2>1, <3>1, <3>2
  <2> QED  BY <1>1, <1>2, <2>1
<1>3. ASSUME NEW q \in unpacking' PROVE q \in torn' \/ Unpacked(job'[q])
  BY <1>1, <1>3 DEF RuntimeInv, RuntimeTypeOK, RuntimesWhole, Unpacked
<1>4. \A q \in Runner : Named(job'[q])
  BY <1>1 DEF RuntimeInv, RuntimesWhole, Named
<1>5. RuntimeTypeOK'
  BY <1>1 DEF RuntimeInv, RuntimeTypeOK, Job
<1> QED  BY <1>1, <1>2, <1>3, <1>4, <1>5 DEF RuntimeInv, RuntimesWhole, Removing, Unpacked, Named, Half

\* What is found is a version or, of no name, a temporary directory.
LEMMA FoundTyped ==
    ASSUME NEW wanted
    PROVE  /\ Find(wanted) \subseteq Runtime \cup unpacking
           /\ wanted # <<>> => Find(wanted) \subseteq Runtime
BY DEF Find, Listed

\* Every step is one command's, or leaves them all alone.
LEMMA RuntimeStepInv == RuntimeInv /\ [RuntimeNext]_runtimeVars => RuntimeInv'
<1> SUFFICES ASSUME RuntimeInv, [RuntimeNext]_runtimeVars PROVE RuntimeInv'
  OBVIOUS
<1> USE DEF Goes, Ends
<1>0. /\ job \in [Runner -> Job] /\ tree \in [Runtime -> {"absent", "part", "whole"}]
      /\ \A r \in unpacking : r \in torn \/ Unpacked(job[r])
      /\ \A r \in Runner : job[r] \in Job /\ Named(job[r])
      /\ unpacking \subseteq Runner /\ torn \subseteq Runtime \cup Runner \cup {Nowhere}
      /\ answered \in Runtime \cup Runner \cup {Nowhere} /\ commands \in 0..Commands
      /\ Commands \in Nat
  BY RuntimeAssumption DEF RuntimeInv, RuntimeTypeOK, RuntimesWhole, Unpacked, Named, Job
<1>1. ASSUME NEW r \in Runner, NEW j \in Job, Named(j), job' = [job EXCEPT ![r] = j],
             job[r].at \notin {"replacing", "removing", "unpacked", "move"},
             UNCHANGED <<tree, unpacking, torn, answered>>, commands' \in 0..Commands
      PROVE  RuntimeInv'
  <2>1. r \in unpacking => r \in torn
    BY <1>0, <1>1 DEF Unpacked
  <2>2. /\ unpacking' \subseteq unpacking \cup {r}
        /\ tree' \in [Runtime -> {"absent", "part", "whole"}]
        /\ torn' \subseteq Runtime \cup Runner \cup {Nowhere} /\ \A x \in torn : x \in torn'
        /\ answered' \in Runtime \cup Runner \cup {Nowhere}
    BY <1>0, <1>1
  <2>3. \A v \in Runtime : tree'[v] = "part" => tree[v] = "part" /\ ~Removing(job[r], v)
    BY <1>1 DEF Removing
  <2>4. r \in unpacking' => r \in torn'
    BY <1>1, <2>1
  <2> QED  BY <1>1, <2>2, <2>3, <2>4, OneJob
<1>2. NoJob \in Job /\ Named(NoJob)
  BY DEF NoJob, Job, Named
<1>3. ASSUME NEW r \in Runner,
             NEW at \in {"replacing", "removing", "resolve", "unpacked", "move", "shims"}
      PROVE  /\ [job[r] EXCEPT !.at = at] \in Job /\ Named([job[r] EXCEPT !.at = at])
             /\ [job[r] EXCEPT !.at = at].at = at
             /\ [job[r] EXCEPT !.at = at].version = job[r].version
  BY <1>0 DEF Job, Named
<1>4. ASSUME NEW r \in Runner, RuntimeBegin(r) PROVE RuntimeInv'
  <2>1. PICK wanted \in Request, way \in {"resolve", "force", "uninstall"} :
            job' = [job EXCEPT ![r] = [NoJob EXCEPT !.at = way, !.wants = wanted]]
    BY <1>4 DEF RuntimeBegin
  <2>2. /\ [NoJob EXCEPT !.at = way, !.wants = wanted] \in Job
        /\ Named([NoJob EXCEPT !.at = way, !.wants = wanted])
    BY DEF NoJob, Job, Named
  <2>3. /\ job[r].at = "idle" /\ UNCHANGED <<tree, unpacking, torn, answered>>
        /\ commands' \in 0..Commands
    BY <1>0, <1>4 DEF RuntimeBegin, NoJob
  <2> QED  BY <1>1, <2>1, <2>2, <2>3
<1>5. ASSUME NEW r \in Runner, FindToRemove(r) PROVE RuntimeInv'
  <2>1. job[r].at \in {"force", "uninstall"} /\ UNCHANGED <<tree, unpacking, torn, answered, commands>>
    BY <1>5 DEF FindToRemove
  <2>2. ASSUME NEW v \in Find(job[r].wants), NEW at \in {"replace", "remove"}
        PROVE  /\ [job[r] EXCEPT !.version = v, !.at = at] \in Job
               /\ Named([job[r] EXCEPT !.version = v, !.at = at])
    <3>1. v \in Runtime \cup Runner /\ (job[r].wants # <<>> => v \in Runtime)
      BY <1>0, FoundTyped
    <3>2. [job[r] EXCEPT !.version = v, !.at = at] = [at |-> at, wants |-> job[r].wants, version |-> v]
      <4>1. PICK x, y, z : job[r] = [at |-> x, wants |-> y, version |-> z]
        BY <1>0 DEF Job
      <4>2. [[at |-> x, wants |-> y, version |-> z] EXCEPT !.version = v]
              = [at |-> x, wants |-> y, version |-> v]
        OBVIOUS
      <4>3. [[at |-> x, wants |-> y, version |-> v] EXCEPT !.at = at]
              = [at |-> at, wants |-> y, version |-> v]
        OBVIOUS
      <4>4. job[r].wants = y
        BY <4>1
      <4> QED  BY <4>1, <4>2, <4>3, <4>4
    <3> QED  BY <1>0, <3>1, <3>2 DEF Job, Named
  <2>3. PICK j \in Job : Named(j) /\ job' = [job EXCEPT ![r] = j]
    <3>1. CASE \E v \in Find(job[r].wants) :
                  job' = [job EXCEPT ![r].version = v,
                                     ![r].at = IF @ = "force" THEN "replace" ELSE "remove"]
      <4>1. PICK v \in Find(job[r].wants), at \in {"replace", "remove"} :
                  job' = [job EXCEPT ![r] = [job[r] EXCEPT !.version = v, !.at = at]]
        BY <1>0, <3>1
      <4> QED  BY <2>2, <4>1
    <3>2. \/ \E v \in Find(job[r].wants) :
                job' = [job EXCEPT ![r].version = v,
                                   ![r].at = IF @ = "force" THEN "replace" ELSE "remove"]
          \/ job' = [job EXCEPT ![r] = [job[r] EXCEPT !.at = "resolve"]]
          \/ job' = [job EXCEPT ![r] = NoJob]
      BY <1>5 DEF FindToRemove
    <3> QED  BY <1>2, <1>3, <3>1, <3>2
  <2> QED  BY <1>0, <1>1, <2>1, <2>3
<1>6. ASSUME NEW r \in Runner, BeginRemoval(r) PROVE RuntimeInv'
  <2>1. /\ job[r].at \in {"replace", "remove"} /\ UNCHANGED <<unpacking, answered, commands>>
        /\ r \in unpacking => r \in torn
    BY <1>0, <1>6 DEF BeginRemoval, Unpacked
  <2> DEFINE Begun == \E at \in {"replacing", "removing"} :
                          job' = [job EXCEPT ![r] = [job[r] EXCEPT !.at = at]]
  <2>2. CASE job[r].version \in Listed \cup unpacking
    <3>1. Begun
      BY <1>6, <2>2 DEF BeginRemoval
    <3>2. PICK j \in Job : /\ Named(j) /\ j.at \in {"replacing", "removing"}
                           /\ j.version = job[r].version /\ job' = [job EXCEPT ![r] = j]
      <4>1. PICK at \in {"replacing", "removing"} :
                  job' = [job EXCEPT ![r] = [job[r] EXCEPT !.at = at]]
        BY <3>1
      <4> QED  BY <1>3, <4>1
    <3>3. /\ tree' \in [Runtime -> {"absent", "part", "whole"}]
          /\ \A v \in Runtime : v # job[r].version => tree'[v] = tree[v]
          /\ torn \subseteq torn' /\ torn' \subseteq Runtime \cup Runner \cup {Nowhere}
      BY <1>0, <1>6, <2>2 DEF BeginRemoval
    <3>4. \A v \in Runtime : tree'[v] = "part" =>
              (tree[v] = "part" /\ ~Removing(job[r], v)) \/ Removing(j, v) \/ v \in torn'
      BY <2>1, <3>2, <3>3 DEF Removing
    <3>5. unpacking' \subseteq unpacking \cup {r} /\ (r \in unpacking' => r \in torn')
      BY <2>1, <3>3
    <3> QED  BY <1>0, <2>1, <3>2, <3>3, <3>4, <3>5, OneJob
  <2>3. CASE job[r].version \notin Listed \cup unpacking
    BY <1>0, <1>1, <1>2, <1>6, <2>1, <2>3 DEF BeginRemoval
  <2> QED  BY <2>2, <2>3
<1>7. ASSUME NEW r \in Runner, EndRemoval(r) PROVE RuntimeInv'
  <2>1. /\ job[r].at \in {"replacing", "removing"} /\ UNCHANGED <<torn, answered, commands>>
        /\ r \in unpacking => r \in torn
    BY <1>0, <1>7 DEF EndRemoval, Unpacked
  <2>2. \/ job' = [job EXCEPT ![r] = [job[r] EXCEPT !.at = "resolve"]]
        \/ job' = [job EXCEPT ![r] = NoJob]
    BY <1>7 DEF EndRemoval
  <2>3. PICK j \in Job : Named(j) /\ job' = [job EXCEPT ![r] = j]
    BY <1>2, <1>3, <2>2
  <2>4. /\ tree' \in [Runtime -> {"absent", "part", "whole"}] /\ unpacking' \subseteq unpacking
        /\ \A v \in Runtime : tree'[v] = "part" => tree[v] = "part" /\ v # job[r].version
    <3>1. CASE job[r].version \in Listed /\ tree' = [tree EXCEPT ![job[r].version] = "absent"]
               /\ UNCHANGED unpacking
      BY <1>0, <3>1
    <3>2. CASE job[r].version \in unpacking /\ UNCHANGED tree
               /\ unpacking' = unpacking \ {job[r].version}
      BY <1>0, <3>2, RuntimeAssumption
    <3>3. CASE job[r].version \notin {v \in Runtime : tree[v] = "part"} \cup unpacking
               /\ UNCHANGED <<tree, unpacking>>
      BY <1>0, <3>3
    <3> QED  BY <1>7, <3>1, <3>2, <3>3 DEF EndRemoval
  <2>5. \A v \in Runtime : tree'[v] = "part" => tree[v] = "part" /\ ~Removing(job[r], v)
    BY <2>4 DEF Removing
  <2> QED  BY <1>0, <2>1, <2>3, <2>4, <2>5, OneJob
<1>8. ASSUME NEW r \in Runner, NameRelease(r) PROVE RuntimeInv'
  <2>1. job[r].at = "resolve" /\ UNCHANGED <<tree, unpacking, torn, answered, commands>>
    BY <1>8 DEF NameRelease
  <2>2. \A v \in Runtime : /\ [NoJob EXCEPT !.version = v, !.at = "download"] \in Job
                           /\ Named([NoJob EXCEPT !.version = v, !.at = "download"])
    BY DEF NoJob, Job, Named
  <2>3. PICK j \in Job : Named(j) /\ job' = [job EXCEPT ![r] = j]
    BY <1>2, <1>8, <2>2 DEF NameRelease
  <2> QED  BY <1>0, <1>1, <2>1, <2>3
<1>9. ASSUME NEW r \in Runner, Unpack(r) PROVE RuntimeInv'
  <2>1. /\ job[r].at = "download" /\ UNCHANGED <<tree, answered, commands>>
        /\ unpacking' = unpacking \cup {r} /\ torn' = torn \ {r}
        /\ job' = [job EXCEPT ![r] = [job[r] EXCEPT !.at = "unpacked"]]
    BY <1>9 DEF Unpack
  <2>2. \A v \in Runtime : tree'[v] = "part" => tree[v] = "part" /\ ~Removing(job[r], v)
    BY <2>1 DEF Removing
  <2>3. PICK j \in Job : /\ Named(j) /\ Unpacked(j)
                         /\ job' = [job EXCEPT ![r] = j]
    BY <1>3, <2>1 DEF Unpacked
  <2> QED  BY <1>0, <2>1, <2>2, <2>3, OneJob
<1>10. ASSUME NEW r \in Runner, CheckDestination(r) PROVE RuntimeInv'
  <2>1. job[r].at = "unpacked" /\ UNCHANGED <<tree, torn, answered, commands>>
    BY <1>10 DEF CheckDestination
  <2>2. PICK j \in Job : /\ Named(j) /\ job' = [job EXCEPT ![r] = j]
                         /\ unpacking' \subseteq unpacking /\ (r \in unpacking' => Unpacked(j))
    <3>1. CASE job' = [job EXCEPT ![r] = [job[r] EXCEPT !.at = "move"]] /\ unpacking' = unpacking
      BY <1>3, <3>1 DEF Unpacked
    <3>2. CASE job' = [job EXCEPT ![r] = NoJob] /\ unpacking' = unpacking \ {r}
      BY <1>2, <3>2
    <3> QED  BY <1>10, <3>1, <3>2 DEF CheckDestination
  <2>3. \A v \in Runtime : tree'[v] = "part" => tree[v] = "part" /\ ~Removing(job[r], v)
    BY <2>1 DEF Removing
  <2> QED  BY <1>0, <2>1, <2>2, <2>3, OneJob
<1>11. ASSUME NEW r \in Runner, Move(r) PROVE RuntimeInv'
  <2>1. job[r].at = "move" /\ UNCHANGED <<answered, commands>> /\ unpacking' = unpacking \ {r}
    BY <1>11 DEF Move
  <2>2. PICK j \in Job : Named(j) /\ job' = [job EXCEPT ![r] = j]
    BY <1>2, <1>3, <1>11 DEF Move
  <2>3. /\ tree' \in [Runtime -> {"absent", "part", "whole"}]
        /\ torn \subseteq torn' /\ torn' \subseteq Runtime \cup Runner \cup {Nowhere}
        /\ \A v \in Runtime : tree'[v] = "part" => tree[v] = "part" \/ v \in torn'
    <3>1. CASE UNCHANGED <<tree, torn>>
      BY <1>0, <3>1
    <3>2. CASE \E left \in {"whole", "part"} :
                 /\ tree' = [tree EXCEPT ![job[r].version] = left]
                 /\ torn' = IF left = "part" THEN torn \cup {job[r].version} ELSE torn
               /\ job' = [job EXCEPT ![r] = [job[r] EXCEPT !.at = "shims"]]
      <4>1. job[r].version \in Runtime \cup Runner \/ job[r].version = Nowhere
        BY <1>0 DEF Job
      <4> QED  BY <1>0, <3>2, <4>1
    <3> QED  BY <1>11, <3>1, <3>2 DEF Move
  <2>4. \A v \in Runtime : tree'[v] = "part" =>
            (tree[v] = "part" /\ ~Removing(job[r], v)) \/ v \in torn'
    BY <2>1, <2>3 DEF Removing
  <2> QED  BY <1>0, <2>1, <2>2, <2>3, <2>4, OneJob
<1>12. ASSUME NEW r \in Runner, WriteShims(r) PROVE RuntimeInv'
  BY <1>0, <1>1, <1>2, <1>12 DEF WriteShims
<1>13. ASSUME NEW r \in Runner, JobFails(r) \/ JobKilled(r) PROVE RuntimeInv'
  <2>1. /\ job' = [job EXCEPT ![r] = NoJob] /\ UNCHANGED <<tree, answered, commands>>
        /\ torn \subseteq torn' /\ torn' \subseteq Runtime \cup Runner \cup {Nowhere}
        /\ Half(r) \subseteq torn' /\ unpacking' \subseteq unpacking
        /\ r \in unpacking' => r \in torn'
    BY <1>0, <1>13 DEF JobFails, JobKilled, Half
  <2>2. \A v \in Runtime : tree'[v] = "part" =>
            (tree[v] = "part" /\ ~Removing(job[r], v)) \/ v \in torn'
    BY <2>1 DEF Removing, Half
  <2> QED  BY <1>0, <1>2, <2>1, <2>2, OneJob
<1>14. CASE Which
  <2>1. PICK wanted \in Request : \E found \in Find(wanted) : answered' = found
    BY <1>14 DEF Which
  <2>2. answered' \in Runtime \cup Runner \cup {Nowhere}
    BY <1>0, <2>1, FoundTyped
  <2>3. commands' \in 0..Commands /\ UNCHANGED <<tree, unpacking, job, torn>>
    BY <1>0, <1>14 DEF Which
  <2> QED  BY <2>2, <2>3 DEF RuntimeInv, RuntimeTypeOK, RuntimesWhole, Half
<1>15. CASE UNCHANGED runtimeVars
  BY <1>15 DEF runtimeVars, RuntimeInv, RuntimeTypeOK, RuntimesWhole, Half
<1> QED
  BY <1>4, <1>5, <1>6, <1>7, <1>8, <1>9, <1>10, <1>11, <1>12, <1>13, <1>14, <1>15
  DEF RuntimeNext, RuntimeStep, RuntimeOthers

\* RuntimeInv is what the runtimes keep.
LEMMA RuntimeCorrect == RuntimeSpec => []RuntimeInv
<1>1. RuntimeInit => RuntimeInv
  BY RuntimeAssumption DEF RuntimeInit, NoJob, RuntimeInv, RuntimeTypeOK, RuntimesWhole, Half
<1> QED  BY <1>1, RuntimeStepInv, PTL DEF RuntimeSpec

\* Commands that run at once leave half a runtime only where a removal failed, was killed or
\* took from the archive it came from, for any number of commands and versions
\* (_install.py 139-205, commands.py 107-135).
THEOREM RuntimesStayWhole == RuntimeSpec => []RuntimesWhole
<1>1. RuntimeInv => RuntimesWhole
  BY DEF RuntimeInv
<1> QED  BY <1>1, RuntimeCorrect, PTL

\* Every variable of the runtimes has its type (_install.py 139-205).
LEMMA RuntimeTypes == RuntimeSpec => []RuntimeTypeOK
<1>1. RuntimeInv => RuntimeTypeOK
  BY DEF RuntimeInv
<1> QED  BY <1>1, RuntimeCorrect, PTL

-----------------------------------------------------------------------------
(* The choice of a release *)

CheckRecord ==
    [at : {"idle", "fetch", "last", "compare", "remember", "accepted", "refused"},
     manifest : Manifest \cup {NoRelease}, last : Nat, floor : Nat, judged : Nat]

\* While no checks overlapped and every manifest that was new could be remembered, the file
\* names the newest one that was accepted, and a check that has read it is alone.
Remembered ==
    ~lapsed => /\ newest <= seen
               /\ \A c \in Checker : Checking(c) => check[c].last = seen /\ check[c].floor <= seen
               /\ \A c, d \in Checker : Checking(c) /\ Checking(d) => c = d

\* What a check has been served, and what it knows of it.
Served ==
    \A c \in Checker :
        /\ check[c].at \in {"last", "compare", "remember", "accepted"} =>
                check[c].manifest \in Manifest /\ Valid(check[c].manifest)
        /\ check[c].at = "remember" => /\ check[c].manifest.expires > check[c].judged
                                       /\ check[c].manifest.made > check[c].last
FreshInv ==
    /\ check \in [Checker -> CheckRecord]
    /\ seen \in Nat /\ newest \in Nat /\ day \in Nat /\ lapsed \in BOOLEAN
    /\ Remembered /\ Served /\ ManifestsFresh

\* One check moves on.
LEMMA CheckMoves ==
    ASSUME check \in [Checker -> CheckRecord], NEW c \in Checker, NEW rec \in CheckRecord, CheckTo(c, rec)
    PROVE  /\ check' \in [Checker -> CheckRecord]
           /\ check'[c] = rec
           /\ \A d \in Checker \ {c} : check'[d] = check[d]
  BY DEF CheckTo

\* A check that leaves the file alone, or has not read it.
LEMMA CheckAside ==
    ASSUME FreshInv, NEW c \in Checker, NEW rec \in CheckRecord, CheckTo(c, rec),
           rec.at \in {"idle", "fetch", "last", "refused"},
           rec.at = "last" => rec.manifest \in Manifest /\ Valid(rec.manifest),
           UNCHANGED <<seen, newest, lapsed>>, day' \in Nat
    PROVE  FreshInv'
<1>1. /\ check' \in [Checker -> CheckRecord]
      /\ check'[c] = rec
      /\ \A d \in Checker \ {c} : check'[d] = check[d]
  BY CheckMoves DEF FreshInv
<1>2. Remembered'  BY <1>1 DEF FreshInv, Remembered, Checking
<1>3. Served'  BY <1>1 DEF FreshInv, Served
<1>4. ManifestsFresh'  BY <1>1 DEF FreshInv, ManifestsFresh
<1> QED  BY <1>1, <1>2, <1>3, <1>4 DEF FreshInv

\* Nobody's check changes.
LEMMA ChecksStay ==
    ASSUME FreshInv, UNCHANGED <<check, seen, newest, lapsed>>, day' \in Nat
    PROVE  FreshInv'
  BY DEF FreshInv, Remembered, Served, ManifestsFresh, Checking

LEMMA FreshStepInv == FreshInv /\ [ReleaseNext]_releaseVars => FreshInv'
<1> SUFFICES ASSUME FreshInv, [ReleaseNext]_releaseVars PROVE FreshInv'
  OBVIOUS
<1>0. /\ check \in [Checker -> CheckRecord]
      /\ seen \in Nat /\ newest \in Nat /\ day \in Nat /\ lapsed \in BOOLEAN
      /\ \A m \in Manifest : m.made \in Nat /\ m.expires \in Nat
  BY ReleaseAssumption DEF FreshInv
<1>i. NoCheck \in CheckRecord /\ NoCheck.at = "idle"
  BY DEF NoCheck, CheckRecord
<1>1. ASSUME NEW c \in Checker, CheckBegin(c) PROVE FreshInv'
  <2>1. [NoCheck EXCEPT !.at = "fetch"] \in CheckRecord /\ [NoCheck EXCEPT !.at = "fetch"].at = "fetch"
    BY DEF NoCheck, CheckRecord
  <2> QED  BY <1>0, <1>1, <2>1, CheckAside DEF CheckBegin
<1>2. ASSUME NEW c \in Checker, Fetch(c) PROVE FreshInv'
  <2>1. CASE CheckTo(c, [check[c] EXCEPT !.at = "refused"])
    <3>1. /\ [check[c] EXCEPT !.at = "refused"] \in CheckRecord
          /\ [check[c] EXCEPT !.at = "refused"].at = "refused"
      BY <1>0 DEF CheckRecord
    <3> QED  BY <1>0, <1>2, <2>1, <3>1, CheckAside DEF Fetch
  <2>2. ASSUME NEW m \in Manifest, Valid(m), CheckTo(c, [check[c] EXCEPT !.at = "last", !.manifest = m])
        PROVE  FreshInv'
    <3> DEFINE rec == [check[c] EXCEPT !.at = "last", !.manifest = m]
    <3>1. rec \in CheckRecord /\ rec.at = "last" /\ rec.manifest = m
      BY <1>0 DEF CheckRecord
    <3> QED  BY <1>0, <1>2, <2>2, <3>1, CheckAside DEF Fetch
  <2> QED  BY <1>2, <2>1, <2>2 DEF Fetch
<1>3. ASSUME NEW c \in Checker, ReadSeen(c) PROVE FreshInv'
  <2>0. PICK read \in {seen, 0} :
          /\ CheckTo(c, [check[c] EXCEPT !.at = "compare", !.last = read, !.judged = day,
                                          !.floor = newest])
          /\ lapsed' = (lapsed \/ read # seen \/ \E d \in Checker \ {c} : Checking(d))
    BY <1>3 DEF ReadSeen
  <2> DEFINE rec == [check[c] EXCEPT !.at = "compare", !.last = read, !.judged = day, !.floor = newest]
  <2>1. /\ rec \in CheckRecord /\ rec.at = "compare" /\ rec.last = read /\ rec.floor = newest
        /\ rec.manifest = check[c].manifest
    <3>1. read \in Nat
      BY <1>0
    <3> QED  BY <1>0, <3>1 DEF CheckRecord
  <2> HIDE DEF rec
  <2>2. /\ check' \in [Checker -> CheckRecord] /\ check'[c] = rec
        /\ \A d \in Checker \ {c} : check'[d] = check[d]
        /\ UNCHANGED <<seen, newest, day>> /\ check[c].at = "last"
        /\ lapsed' = (lapsed \/ read # seen \/ \E d \in Checker \ {c} : Checking(d))
    BY <1>0, <1>3, <2>0, <2>1, CheckMoves DEF ReadSeen, rec
  <2>3. lapsed' \in BOOLEAN
    BY <2>2, <1>0
  <2>4. Remembered'
    <3> SUFFICES ASSUME ~lapsed'
                 PROVE  /\ newest <= seen
                        /\ \A d \in Checker : Checking(d)' => check'[d].last = seen /\ check'[d].floor <= seen
                        /\ \A d, e \in Checker : Checking(d)' /\ Checking(e)' => d = e
      BY <2>2 DEF Remembered
    <3>1. ~lapsed /\ read = seen /\ \A d \in Checker \ {c} : ~Checking(d)
      BY <2>2
    <3>2. \A d \in Checker \ {c} : ~Checking(d)'
      BY <2>2, <3>1 DEF Checking
    <3> QED  BY <2>1, <2>2, <3>1, <3>2, <1>0 DEF FreshInv, Remembered
  <2>5. Served'  BY <2>1, <2>2 DEF FreshInv, Served
  <2>6. ManifestsFresh'
    <3>1. ~lapsed' => ~lapsed  BY <2>2
    <3> QED  BY <2>1, <2>2, <3>1 DEF FreshInv, ManifestsFresh
  <2> QED  BY <1>0, <2>2, <2>3, <2>4, <2>5, <2>6 DEF FreshInv
<1>4. ASSUME NEW c \in Checker, Compare(c) PROVE FreshInv'
  <2> DEFINE m == check[c].manifest
             expired == m.expires <= m.made \/ m.expires <= check[c].judged
             at == IF expired \/ m.made < check[c].last THEN "refused"
                   ELSE IF m.made > check[c].last THEN "remember" ELSE "accepted"
             rec == [check[c] EXCEPT !.at = at]
  <2>1. /\ check[c].at = "compare" /\ CheckTo(c, rec) /\ UNCHANGED <<seen, day, lapsed>>
        /\ newest' = IF check'[c].at = "accepted" /\ m.made > newest THEN m.made ELSE newest
    BY <1>4 DEF Compare, Judge
  <2>2. /\ m \in Manifest /\ Valid(m) /\ m.made \in Nat /\ m.expires \in Nat
        /\ check[c].last \in Nat /\ check[c].judged \in Nat /\ check[c].floor \in Nat
    BY <1>0, <2>1 DEF FreshInv, Served, CheckRecord
  <2>3. /\ rec \in CheckRecord /\ rec.at = at /\ rec.manifest = m /\ rec.last = check[c].last
        /\ rec.floor = check[c].floor /\ rec.judged = check[c].judged
    BY <1>0 DEF CheckRecord
  <2>4. /\ at \in {"refused", "remember", "accepted"}
        /\ at # "refused" => m.expires > check[c].judged /\ m.made >= check[c].last
        /\ at = "remember" => m.made > check[c].last
        /\ at = "accepted" => m.made = check[c].last
    BY <2>2
  <2> HIDE DEF rec, at
  <2>5. /\ check' \in [Checker -> CheckRecord] /\ check'[c] = rec
        /\ \A d \in Checker \ {c} : check'[d] = check[d]
    BY <1>0, <2>1, <2>3, CheckMoves
  <2> HIDE DEF m
  <2>6. ~lapsed => check[c].last = seen /\ check[c].floor <= seen /\ newest <= seen
    BY <2>1 DEF FreshInv, Remembered, Checking
  <2>7. newest' \in Nat /\ (~lapsed => newest' <= seen)
    BY <1>0, <2>1, <2>2, <2>3, <2>4, <2>5, <2>6
  <2>8. Remembered'
    BY <2>1, <2>3, <2>4, <2>5, <2>7 DEF FreshInv, Remembered, Checking
  <2>9. Served'
    BY <2>1, <2>2, <2>3, <2>4, <2>5 DEF FreshInv, Served
  <2>10. ManifestsFresh'
    BY <1>0, <2>1, <2>2, <2>3, <2>4, <2>5, <2>6 DEF FreshInv, ManifestsFresh
  <2> QED  BY <1>0, <2>1, <2>5, <2>7, <2>8, <2>9, <2>10 DEF FreshInv
<1>5. ASSUME NEW c \in Checker, Remember(c) PROVE FreshInv'
  <2> DEFINE made == check[c].manifest.made
             rec == [check[c] EXCEPT !.at = "accepted"]
  <2>1. /\ check[c].at = "remember" /\ CheckTo(c, rec) /\ UNCHANGED day
        /\ \/ seen' = made /\ lapsed' = lapsed
           \/ seen' = seen /\ lapsed' = TRUE
        /\ newest' = IF made > newest THEN made ELSE newest
    BY <1>5 DEF Remember
  <2>2. /\ check[c].manifest \in Manifest /\ Valid(check[c].manifest) /\ made \in Nat
        /\ check[c].manifest.expires > check[c].judged /\ made > check[c].last
        /\ check[c].last \in Nat /\ check[c].floor \in Nat
    BY <1>0, <2>1 DEF FreshInv, Served, CheckRecord
  <2>3. /\ rec \in CheckRecord /\ rec.at = "accepted" /\ rec.manifest = check[c].manifest
        /\ rec.floor = check[c].floor /\ rec.judged = check[c].judged
    BY <1>0 DEF CheckRecord
  <2> HIDE DEF rec
  <2>5. /\ check' \in [Checker -> CheckRecord] /\ check'[c] = rec
        /\ \A d \in Checker \ {c} : check'[d] = check[d]
    BY <1>0, <2>1, <2>3, CheckMoves
  <2>6. ~lapsed => /\ check[c].last = seen /\ check[c].floor <= seen /\ newest <= seen
                   /\ \A d \in Checker \ {c} : ~Checking(d)
    BY <2>1 DEF FreshInv, Remembered, Checking
  <2>7. newest' \in Nat /\ seen' \in Nat /\ lapsed' \in BOOLEAN /\ (~lapsed' => ~lapsed /\ newest' <= seen')
    <3> HIDE DEF made
    <3>1. lapsed' \in BOOLEAN /\ (~lapsed' => ~lapsed /\ seen' = made)
      <4>1. CASE seen' = made /\ lapsed' = lapsed
        BY <1>0, <4>1, Zenon
      <4>2. CASE seen' = seen /\ lapsed' = TRUE
        BY <4>2, Zenon
      <4> QED  BY <2>1, <4>1, <4>2
    <3>2. newest' \in Nat /\ seen' \in Nat
      BY <1>0, <2>1, <2>2
    <3>3. ASSUME ~lapsed' PROVE newest' <= seen'
      BY <1>0, <2>1, <2>2, <2>6, <3>1, <3>3
    <3> QED  BY <3>1, <3>2, <3>3
  <2>8. Remembered'
    BY <2>3, <2>5, <2>6, <2>7 DEF Remembered, Checking
  <2>9. Served'
    BY <2>2, <2>3, <2>5 DEF FreshInv, Served
  <2>10. ManifestsFresh'
    BY <1>0, <2>2, <2>3, <2>5, <2>6, <2>7 DEF FreshInv, ManifestsFresh
  <2> QED  BY <1>0, <2>1, <2>5, <2>7, <2>8, <2>9, <2>10 DEF FreshInv
<1>6. ASSUME NEW c \in Checker, Choose(c) \/ ChooseOffered(c) \/ CheckEnds(c) PROVE FreshInv'
  <2>1. CheckTo(c, NoCheck) /\ UNCHANGED <<seen, newest, lapsed, day>>
    BY <1>6 DEF Choose, ChooseOffered, CheckEnds, Leaves
  <2> QED  BY <1>0, <1>i, <2>1, CheckAside
<1>7. CASE Download \/ UnpackArchive \/ ChooseCandidate \/ Tomorrow \/ UNCHANGED releaseVars
  <2>1. CASE Download
    <3>1. UNCHANGED <<check, seen, newest, lapsed, day>>  BY <2>1 DEF Download
    <3> QED  BY <1>0, <3>1, ChecksStay
  <2>2. CASE UnpackArchive
    <3>1. UNCHANGED <<check, seen, newest, lapsed, day>>  BY <2>2 DEF UnpackArchive
    <3> QED  BY <1>0, <3>1, ChecksStay
  <2>3. CASE ChooseCandidate
    <3>1. UNCHANGED <<check, seen, newest, lapsed, day>>  BY <2>3 DEF ChooseCandidate
    <3> QED  BY <1>0, <3>1, ChecksStay
  <2>4. CASE Tomorrow
    BY <1>0, <2>4, ChecksStay DEF Tomorrow
  <2>5. CASE UNCHANGED releaseVars
    BY <1>0, <2>5, ChecksStay DEF releaseVars
  <2> QED  BY <1>7, <2>1, <2>2, <2>3, <2>4, <2>5
<1> QED  BY <1>1, <1>2, <1>3, <1>4, <1>5, <1>6, <1>7 DEF ReleaseNext, ReleaseStep, ReleaseOthers

LEMMA FreshInitInv == ReleaseInit => FreshInv
<1> SUFFICES ASSUME ReleaseInit PROVE FreshInv
  OBVIOUS
<1>1. NoCheck \in CheckRecord /\ NoCheck.at = "idle"
  BY DEF NoCheck, CheckRecord
<1>2. check \in [Checker -> CheckRecord] /\ \A c \in Checker : check[c].at = "idle"
  BY <1>1 DEF ReleaseInit
<1>3. Remembered /\ Served /\ ManifestsFresh
  BY <1>2 DEF ReleaseInit, Remembered, Served, ManifestsFresh, Checking
<1> QED  BY <1>2, <1>3 DEF ReleaseInit, FreshInv

\* A command that goes on has a manifest that has not expired and, while the file could be
\* read and written and checks did not overlap, is no older than any that was accepted before
\* it, for any manifests and number of commands (portable_update.py 93-139).
THEOREM ManifestsStayFresh == ReleaseSpec => []ManifestsFresh
<1>1. FreshInv => ManifestsFresh
  BY DEF FreshInv
<1> QED  BY <1>1, FreshInitInv, FreshStepInv, PTL DEF ReleaseSpec

\* The order of releases is one.
LEMMA AboveIsOrder ==
    ASSUME NEW v \in [1..5 -> Nat], NEW w \in [1..5 -> Nat], Above(v, w)
    PROVE  ~Above(w, v) /\ v # w
<1>1. PICK i \in 1..5 : v[i] > w[i] /\ \A j \in 1..(i - 1) : v[j] = w[j]
  BY DEF Above
<1>2. ASSUME Above(w, v) PROVE FALSE
  <2>1. PICK k \in 1..5 : w[k] > v[k] /\ \A j \in 1..(k - 1) : w[j] = v[j]
    BY <1>2 DEF Above
  <2>2. i \in Int /\ k \in Int /\ v[i] \in Nat /\ w[i] \in Nat /\ v[k] \in Nat /\ w[k] \in Nat
    OBVIOUS
  <2>3. CASE i < k  BY <1>1, <2>1, <2>2, <2>3
  <2>4. CASE k < i  BY <1>1, <2>1, <2>2, <2>4
  <2>5. CASE i = k  BY <1>1, <2>1, <2>2, <2>5
  <2> QED  BY <2>2, <2>3, <2>4, <2>5
<1>3. v # w
  BY <1>1
<1> QED  BY <1>2, <1>3

LEMMA PlaceIsOrder ==
    ASSUME NEW v \in Versions, NEW w \in Versions, Above(v, w)
    PROVE  Place(v) > Place(w)
<1>1. /\ DOMAIN Release = 1..Len(Release) /\ Len(Release) \in Nat
      /\ \A i \in DOMAIN Release : Release[i] \in [1..5 -> Nat]
  BY ReleaseAssumption
<1>2. ASSUME NEW x \in Versions PROVE Place(x) \in DOMAIN Release /\ Release[Place(x)] = x
  <2>1. \E i \in DOMAIN Release : Release[i] = x
    BY DEF Versions, Range
  <2> QED  BY <2>1 DEF Place
<1> DEFINE i == Place(v)
           j == Place(w)
<1>3. i \in DOMAIN Release /\ j \in DOMAIN Release /\ Release[i] = v /\ Release[j] = w
  BY <1>2
<1> HIDE DEF i, j
<1>4. ~Above(w, v) /\ v # w
  BY <1>1, <1>3, AboveIsOrder
<1>5. ~(i < j) /\ i # j
  BY <1>3, <1>4, OrderAssumption
<1>6. i \in Nat /\ j \in Nat
  <2>1. 1..Len(Release) \subseteq Nat
    OBVIOUS
  <2> QED  BY <1>1, <1>3, <2>1
<1>7. i > j
  BY <1>5, <1>6
<1> QED  BY <1>7 DEF i, j

\* What a command has chosen so far.
ChoiceRecord ==
    [at : {"none", "download", "unpack", "handed", "failed"},
     form : {"portable", "nix", "series", "apt", "offered", "candidate"},
     installed : Versions \cup {NoRelease}, current : Nat, to : Requests,
     manifest : Manifest \cup {NoRelease}, version : Versions \cup {NoRelease},
     machine : Machine \cup {NoRelease}, archive : Archive \cup {NoRelease}]
ChosenInv == choice \in ChoiceRecord /\ ReleaseChosen

\* The fields of a choice that has been made.
LEMMA ChosenFields ==
    ASSUME NEW i, NEW current, NEW to, NEW m, NEW v, Chosen(i, current, to, m, v)
    PROVE  choice' = [at |-> IF i.form \in {"portable", "candidate"} THEN "download" ELSE "handed",
                      form |-> i.form, installed |-> i.installed, current |-> current, to |-> to,
                      manifest |-> m, version |-> v, machine |-> i.machine, archive |-> NoRelease]
  BY DEF Chosen, NoChoice

LEMMA ChannelIsNat == \A v \in Versions : Channel(v) \in Nat
<1>1. \A i \in DOMAIN Release : Release[i] \in [1..5 -> Nat]
  BY ReleaseAssumption
<1> QED  BY <1>1 DEF Versions, Range, Channel

\* A release that is newer, and of the channel or line that was asked for.
LEMMA ChosenKeeps ==
    ASSUME NEW i, i.installed \in Versions, i.machine \in Machine,
           i.form \in {"portable", "nix", "series", "apt", "offered", "candidate"},
           NEW current \in Nat, NEW to \in Requests, NEW m \in Manifest \cup {NoRelease},
           NEW v \in Versions, Above(v, i.installed),
           m # NoRelease => /\ Channel(v) = IF to = <<>> THEN current ELSE to[1]
                            /\ Channel(v) >= current
                            /\ Len(to) = 2 => Minor(v) = to,
           Chosen(i, current, to, m, v)
    PROVE  ChosenInv'
<1>1. Place(v) > Place(i.installed)
  BY PlaceIsOrder
<1>2. choice' = [at |-> IF i.form \in {"portable", "candidate"} THEN "download" ELSE "handed",
                 form |-> i.form, installed |-> i.installed, current |-> current, to |-> to,
                 manifest |-> m, version |-> v, machine |-> i.machine, archive |-> NoRelease]
  BY ChosenFields
<1>3. choice' \in ChoiceRecord
  BY <1>2 DEF ChoiceRecord
<1>4. ReleaseChosen'
  BY <1>1, <1>2 DEF ReleaseChosen
<1> QED  BY <1>3, <1>4 DEF ChosenInv

\* What a valid manifest has for a request.
LEMMA RequestedFits ==
    ASSUME NEW m \in Manifest, Valid(m), NEW current \in Nat, NEW to \in Requests,
           NEW v \in Requested(m, current, to)
    PROVE  /\ v \in Versions
           /\ Channel(v) = IF to = <<>> THEN current ELSE to[1]
           /\ Channel(v) >= current
           /\ Len(to) = 2 => Minor(v) = to
<1>1. to = <<>> \/ Len(to) = 1 \/ Len(to) = 2
  BY DEF Requests, Minor
<1>2. CASE to = <<>>
  <2>1. v \in LatestOf(m, current)
    BY <1>2 DEF Requested
  <2>2. current \in DOMAIN m.channels /\ v = m.channels[current].latest
    BY <2>1 DEF LatestOf, Supported
  <2> QED  BY <1>2, <2>2, ManifestAssumption DEF Valid
<1>3. CASE Len(to) = 1
  <2>0. to # <<>> /\ Len(to) = 1 /\ Len(to) # 2
    BY <1>3
  <2>1. to # <<>> /\ to[1] >= current /\ v \in LatestOf(m, to[1])
    <3>1. CASE to[1] >= current
      <4>1. Requested(m, current, to) = LatestOf(m, to[1])
        BY <2>0, <3>1 DEF Requested
      <4> QED  BY <2>0, <3>1, <4>1
    <3>2. CASE ~(to[1] >= current)
      <4>1. Requested(m, current, to) = {}
        BY <2>0, <3>2 DEF Requested
      <4> QED  BY <4>1
    <3> QED  BY <3>1, <3>2
  <2>2. to[1] \in DOMAIN m.channels /\ v = m.channels[to[1]].latest
    BY <2>1 DEF LatestOf, Supported
  <2> QED  BY <1>3, <2>1, <2>2, ManifestAssumption DEF Valid
<1>4. CASE Len(to) = 2
  <2>0. to # <<>> /\ Len(to) = 2 /\ Len(to) # 1
    BY <1>4
  <2>1. to # <<>> /\ to[1] >= current /\ v \in LatestOfMinor(m, to)
    <3>1. CASE to[1] >= current
      <4>1. Requested(m, current, to) = LatestOfMinor(m, to)
        BY <2>0, <3>1 DEF Requested
      <4> QED  BY <2>0, <3>1, <4>1
    <3>2. CASE ~(to[1] >= current)
      <4>1. Requested(m, current, to) = {}
        BY <2>0, <3>2 DEF Requested
      <4> QED  BY <4>1
    <3> QED  BY <3>1, <3>2
  <2>2. /\ to[1] \in DOMAIN m.channels /\ to \in DOMAIN m.channels[to[1]].minors
        /\ v = m.channels[to[1]].minors[to]
    BY <2>1 DEF LatestOfMinor, Supported
  <2> QED  BY <1>4, <2>1, <2>2, ManifestAssumption DEF Valid
<1> QED  BY <1>1, <1>2, <1>3, <1>4

\* No choice is made, or the one there is stays.
LEMMA ChoiceStays == ChosenInv /\ UNCHANGED choice => ChosenInv'
  BY DEF ChosenInv, ReleaseChosen

LEMMA ChosenStepInv == FreshInv /\ ChosenInv /\ [ReleaseNext]_releaseVars => ChosenInv'
<1> SUFFICES ASSUME FreshInv, ChosenInv, [ReleaseNext]_releaseVars PROVE ChosenInv'
  OBVIOUS
<1>1. ASSUME NEW c \in Checker, Choose(c) PROVE ChosenInv'
  <2>1. CASE UNCHANGED choice
    BY <2>1, ChoiceStays
  <2>2. ASSUME NEW i \in Installations, NEW to \in Requests, NEW x \in Versions,
               NEW v \in Requested(check[c].manifest, Channel(x), to),
               Above(v, i.installed), Chosen(i, Channel(x), to, check[c].manifest, v)
        PROVE  ChosenInv'
    <3>1. check[c].manifest \in Manifest /\ Valid(check[c].manifest)
      BY <1>1 DEF Choose, FreshInv, Served
    <3>2. Channel(x) \in Nat
      BY ChannelIsNat
    <3>3. /\ v \in Versions
          /\ Channel(v) = IF to = <<>> THEN Channel(x) ELSE to[1]
          /\ Channel(v) >= Channel(x)
          /\ Len(to) = 2 => Minor(v) = to
      BY <3>1, <3>2, RequestedFits
    <3>4. /\ i.installed \in Versions /\ i.machine \in Machine
          /\ i.form \in {"portable", "nix", "series", "apt", "offered", "candidate"}
      BY DEF Installations
    <3> QED  BY <2>2, <3>1, <3>2, <3>3, <3>4, ChosenKeeps
  <2> QED  BY <1>1, <2>1, <2>2 DEF Choose
<1>2. ASSUME NEW c \in Checker, ChooseOffered(c) PROVE ChosenInv'
  <2>1. CASE UNCHANGED choice
    BY <2>1, ChoiceStays
  <2>2. ASSUME NEW i \in Installations, NEW current \in {0} \cup {Channel(v) : v \in Versions},
               NEW v \in Versions, Above(v, i.installed),
               Chosen([i EXCEPT !.form = "offered"], current, <<>>, NoRelease, v)
        PROVE  ChosenInv'
    <3> DEFINE k == [i EXCEPT !.form = "offered"]
    <3>1. k.installed = i.installed /\ k.machine = i.machine /\ k.form = "offered"
      BY DEF Installations
    <3>2. k.installed \in Versions /\ k.machine \in Machine /\ Above(v, k.installed)
      BY <2>2, <3>1 DEF Installations
    <3>3. Chosen(k, current, <<>>, NoRelease, v)
      BY <2>2
    <3>4. current \in Nat /\ <<>> \in Requests
      BY ChannelIsNat DEF Requests
    <3> HIDE DEF k
    <3> QED  BY <3>1, <3>2, <3>3, <3>4, ChosenKeeps
  <2> QED  BY <1>2, <2>1, <2>2 DEF ChooseOffered
<1>3. CASE ChooseCandidate
  <2>1. PICK i \in Installations, v \in Versions :
          /\ Above(v, i.installed) /\ i.form \in {"portable", "apt"}
          /\ Chosen([i EXCEPT !.form = IF @ = "apt" THEN "candidate" ELSE @],
                    Channel(i.installed), <<>>, NoRelease, v)
    BY <1>3 DEF ChooseCandidate
  <2> DEFINE k == [i EXCEPT !.form = IF @ = "apt" THEN "candidate" ELSE @]
  <2>2. k.installed = i.installed /\ k.machine = i.machine /\ k.form \in {"portable", "candidate"}
    BY <2>1 DEF Installations
  <2>3. k.installed \in Versions /\ k.machine \in Machine /\ Above(v, k.installed)
    BY <2>1, <2>2 DEF Installations
  <2>4. Chosen(k, Channel(i.installed), <<>>, NoRelease, v)
    BY <2>1
  <2>5. Channel(i.installed) \in Nat /\ <<>> \in Requests
    BY ChannelIsNat DEF Requests, Installations
  <2> HIDE DEF k
  <2> QED  BY <2>2, <2>3, <2>4, <2>5, ChosenKeeps
<1>4. CASE Download
  <2>1. CASE choice' = [choice EXCEPT !.at = "failed"]
    <3>1. choice' \in ChoiceRecord /\ choice'.at = "failed"
      BY <2>1 DEF ChosenInv, ChoiceRecord
    <3> QED  BY <3>1 DEF ChosenInv, ReleaseChosen
  <2>2. ASSUME NEW listed \in Versions, NEW content \in Archive,
               <<ArchiveName(choice.version, choice.machine), content>> \in Inventory(listed),
               choice' = [choice EXCEPT !.archive = content, !.at = "unpack"]
        PROVE  ChosenInv'
    <3>1. content = <<choice.version, choice.machine>>
      BY <2>2 DEF Inventory, ArchiveName
    <3>2. /\ choice' \in ChoiceRecord /\ choice'.at = "unpack" /\ choice'.archive = content
          /\ choice'.version = choice.version /\ choice'.installed = choice.installed
          /\ choice'.manifest = choice.manifest /\ choice'.to = choice.to
          /\ choice'.current = choice.current /\ choice'.machine = choice.machine
      BY <2>2 DEF ChosenInv, ChoiceRecord
    <3>3. choice.at = "download"
      BY <1>4 DEF Download
    <3>4. ReleaseChosen'
      BY <3>1, <3>2, <3>3 DEF ChosenInv, ReleaseChosen
    <3> QED  BY <3>2, <3>4 DEF ChosenInv
  <2> QED  BY <1>4, <2>1, <2>2 DEF Download
<1>5. CASE UnpackArchive
  <2>1. /\ choice.at = "unpack"
        /\ choice' \in ChoiceRecord /\ choice'.at \in {"handed", "failed"}
        /\ choice'.archive = choice.archive
        /\ choice'.version = choice.version /\ choice'.installed = choice.installed
        /\ choice'.manifest = choice.manifest /\ choice'.to = choice.to
        /\ choice'.current = choice.current /\ choice'.machine = choice.machine
    BY <1>5 DEF UnpackArchive, ChosenInv, ChoiceRecord
  <2>2. ReleaseChosen'
    BY <2>1 DEF ChosenInv, ReleaseChosen
  <2> QED  BY <2>1, <2>2 DEF ChosenInv
<1>6. ASSUME NEW c \in Checker,
             CheckBegin(c) \/ Fetch(c) \/ ReadSeen(c) \/ Compare(c) \/ Remember(c) \/ CheckEnds(c)
      PROVE  ChosenInv'
  <2>1. UNCHANGED choice
    BY <1>6 DEF CheckBegin, Fetch, ReadSeen, Compare, Judge, Remember, CheckEnds
  <2> QED  BY <2>1, ChoiceStays
<1>7. CASE Tomorrow \/ UNCHANGED releaseVars
  BY <1>7, ChoiceStays DEF Tomorrow, releaseVars
<1> QED
  BY <1>1, <1>2, <1>3, <1>4, <1>5, <1>6, <1>7 DEF ReleaseNext, ReleaseStep, ReleaseOthers

\* FreshInv and ChosenInv are what every check and choice keep.
LEMMA ReleaseCorrect == ReleaseSpec => [](FreshInv /\ ChosenInv)
<1>1. ReleaseInit => ChosenInv
  <2> SUFFICES ASSUME ReleaseInit PROVE ChosenInv
    OBVIOUS
  <2>1. choice = NoChoice /\ NoChoice \in ChoiceRecord /\ NoChoice.at = "none"
    BY DEF ReleaseInit, NoChoice, ChoiceRecord, Requests
  <2> QED  BY <2>1 DEF ChosenInv, ReleaseChosen
<1> QED  BY <1>1, FreshInitInv, FreshStepInv, ChosenStepInv, PTL DEF ReleaseSpec

\* Whatever is served, whichever commands check at once and whenever they are killed: the
\* release that is taken is newer and the one that was asked for, and its archive is handed
\* over, for every history of releases and manifests (update.py 250-267 and 352-470,
\* portable_update.py 142-303).
THEOREM TakesChosen == ReleaseSpec => []ReleaseChosen
<1>1. ChosenInv => ReleaseChosen
  BY DEF ChosenInv
<1> QED  BY <1>1, ReleaseCorrect, PTL

\* What is remembered was made with a manifest that was signed.
ReleaseTyped ==
    /\ {seen, newest} \subseteq {0} \cup {m.made : m \in Manifest}
    /\ day \in 1..MaxDay /\ checks \in 0..MaxChecks

\* A check that is served a manifest may remember it; the others leave the file alone.
LEMMA ReleaseTypedStep == FreshInv /\ ReleaseTyped /\ [ReleaseNext]_releaseVars => ReleaseTyped'
<1> SUFFICES ASSUME FreshInv, ReleaseTyped, [ReleaseNext]_releaseVars PROVE ReleaseTyped'
  OBVIOUS
<1>0. /\ {seen, newest} \subseteq {0} \cup {m.made : m \in Manifest}
      /\ day \in 1..MaxDay /\ checks \in 0..MaxChecks /\ MaxDay \in Nat /\ MaxChecks \in Nat
  BY ReleaseAssumption DEF ReleaseTyped
<1>a. ASSUME NEW c \in Checker, check[c].at \in {"compare", "remember"}
      PROVE  check[c].manifest.made \in {m.made : m \in Manifest}
  BY <1>a DEF FreshInv, Served
<1>1. ASSUME NEW c \in Checker, CheckBegin(c) PROVE ReleaseTyped'
  BY <1>0, <1>1 DEF CheckBegin, ReleaseTyped
<1>2. ASSUME NEW c \in Checker, Compare(c) PROVE ReleaseTyped'
  <2>1. check[c].at = "compare" /\ newest' \in {newest, check[c].manifest.made}
        /\ UNCHANGED <<seen, day, checks>>
    BY <1>2 DEF Compare, Judge
  <2> QED  BY <1>0, <1>a, <2>1 DEF ReleaseTyped
<1>3. ASSUME NEW c \in Checker, Remember(c) PROVE ReleaseTyped'
  <2>1. check[c].at = "remember" /\ newest' \in {newest, check[c].manifest.made}
        /\ seen' \in {seen, check[c].manifest.made} /\ UNCHANGED <<day, checks>>
    BY <1>3 DEF Remember
  <2> QED  BY <1>0, <1>a, <2>1 DEF ReleaseTyped
<1>4. CASE Tomorrow
  BY <1>0, <1>4 DEF Tomorrow, ReleaseTyped
<1>5. CASE UNCHANGED <<seen, newest, day, checks>>
  BY <1>0, <1>5 DEF ReleaseTyped
<1>6. CASE \E c \in Checker : Fetch(c) \/ ReadSeen(c) \/ Choose(c) \/ ChooseOffered(c) \/ CheckEnds(c)
  BY <1>5, <1>6 DEF Fetch, ReadSeen, Choose, ChooseOffered, CheckEnds, Leaves
<1>7. CASE Download \/ UnpackArchive \/ ChooseCandidate \/ UNCHANGED releaseVars
  BY <1>5, <1>7 DEF Download, UnpackArchive, ChooseCandidate, releaseVars
<1> QED
  BY <1>1, <1>2, <1>3, <1>4, <1>6, <1>7 DEF ReleaseNext, ReleaseStep, ReleaseOthers

\* Every variable of the checks and the choice has its type (portable_update.py 93-303,
\* update.py 250-267 and 352-470).
LEMMA ReleaseTypes == ReleaseSpec => []ReleaseTypeOK
<1>1. ReleaseInit => ReleaseTyped
  BY ReleaseAssumption DEF ReleaseInit, ReleaseTyped
<1>2. FreshInv /\ ChosenInv /\ ReleaseTyped => ReleaseTypeOK
  BY DEF FreshInv, CheckRecord, ChosenInv, ChoiceRecord, ReleaseTyped, ReleaseTypeOK
<1> QED  BY <1>1, <1>2, FreshInitInv, FreshStepInv, ReleaseTypedStep, ReleaseCorrect, PTL DEF ReleaseSpec
=============================================================================
