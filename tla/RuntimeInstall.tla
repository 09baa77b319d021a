--------------------------- MODULE RuntimeInstall ---------------------------
(***************************************************************************)
(* rvs runtime install, uninstall and which (rvs/runtime/commands.py, the  *)
(* three kinds in python.py, node.py and java.py, and _install.py): one    *)
(* directory per version, and beside them the directories in which         *)
(* archives are unpacked.  Two commands run at once; each can fail or be   *)
(* killed anywhere.  A version is a sequence of numbers, and a request a   *)
(* prefix of it.                                                           *)
(***************************************************************************)
EXTENDS Naturals, FiniteSets, SequencesExt

CONSTANTS
    Runner,         \* processes, each with the name of its temporary directory
    Runtime,        \* the versions a vendor has released, as sequences of numbers
    Commands,       \* bound: commands in all
    Nowhere         \* no version

ASSUME RuntimeAssumption ==
    Runtime \subseteq Seq(Nat) /\ Runner \cap Runtime = {} /\ Commands \in Nat

VARIABLES
    tree,       \* per version: its directory
    unpacking,  \* the temporary directories beside them
    job,        \* the commands
    answered,   \* what the last "which" printed
    commands,
    torn        \* versions and temporary directories that a removal took from, and did not
                \* end, and temporary ones that a killed command left

runtimeVars == <<tree, unpacking, job, answered, commands, torn>>

Request == UNION {{SubSeq(v, 1, n) : n \in 0..Len(v)} : v \in Runtime}
NoJob == [at |-> "idle", wants |-> <<>>, version |-> Nowhere]

RuntimeInit ==
    /\ tree = [v \in Runtime |-> "absent"]
    /\ unpacking = {}
    /\ job = [r \in Runner |-> NoJob]
    /\ answered = Nowhere
    /\ commands = 0
    /\ torn = {}

\* version_key: number by number.
Later(v, w) ==
    \/ IsStrictPrefix(w, v)
    \/ \E i \in DOMAIN v \cap DOMAIN w :
        v[i] > w[i] /\ SubSeq(v, 1, i - 1) = SubSeq(w, 1, i - 1)

Listed == {v \in Runtime : tree[v] # "absent"}

\* find: the newest directory that matches.  The empty request matches the temporary ones
\* too, which sort behind every version.
Find(wanted) ==
    LET matching == {v \in Listed : IsPrefix(wanted, v)}
    IN IF wanted = <<>> /\ unpacking # {} THEN unpacking
       ELSE {v \in matching : \A w \in matching : ~Later(w, v)}

Goes(r, to) == job' = [job EXCEPT ![r].at = to]
Ends(r) == job' = [job EXCEPT ![r] = NoJob]

\* The version may be empty, or a dot.  A process's name is not given to another while there
\* is a directory of that name, or a command that has found it.
RuntimeBegin(r) ==
    /\ job[r] = NoJob /\ commands < Commands
    /\ r \notin unpacking /\ \A q \in Runner : job[q].version # r
    /\ commands' = commands + 1
    /\ \E wanted \in Request, way \in {"resolve", "force", "uninstall"} :
        job' = [job EXCEPT ![r] = [NoJob EXCEPT !.at = way, !.wants = wanted]]
    /\ UNCHANGED <<tree, unpacking, answered, torn>>

\* which, and every shim, with a version, a pin or neither.
Which ==
    /\ commands < Commands
    /\ commands' = commands + 1
    /\ \E wanted \in Request : \E found \in Find(wanted) : answered' = found
    /\ UNCHANGED <<tree, unpacking, job, torn>>

\* install --force and uninstall remove what find returns; uninstall asks before it does.
FindToRemove(r) ==
    /\ job[r].at \in {"force", "uninstall"}
    /\ LET found == Find(job[r].wants)
       IN \/ \E v \in found :
                job' = [job EXCEPT ![r].version = v,
                                   ![r].at = IF @ = "force" THEN "replace" ELSE "remove"]
          \/ found = {} /\ IF job[r].at = "force" THEN Goes(r, "resolve") ELSE Ends(r)
    /\ UNCHANGED <<tree, unpacking, answered, commands, torn>>

\* rmtree: it begins, and it ends; what another command has removed is an error.  What it
\* finds may be a temporary directory, another command's at work or a leftover.
BeginRemoval(r) ==
    /\ job[r].at \in {"replace", "remove"}
    /\ LET found == job[r].version
           begun == Goes(r, IF job[r].at = "replace" THEN "replacing" ELSE "removing")
       IN \/ found \in Listed /\ begun /\ tree' = [tree EXCEPT ![found] = "part"]
             /\ UNCHANGED torn
          \/ found \in unpacking /\ begun /\ torn' = torn \cup {found} /\ UNCHANGED tree
          \/ found \notin Listed \cup unpacking /\ Ends(r) /\ UNCHANGED <<tree, torn>>
    /\ UNCHANGED <<unpacking, answered, commands>>
EndRemoval(r) ==
    /\ job[r].at \in {"replacing", "removing"}
    /\ LET found == job[r].version
           ended == IF job[r].at = "replacing" THEN Goes(r, "resolve") ELSE Ends(r)
       IN \/ /\ found \in Listed /\ tree[found] = "part" /\ ended
             /\ tree' = [tree EXCEPT ![found] = "absent"] /\ UNCHANGED unpacking
          \/ found \in unpacking /\ ended /\ unpacking' = unpacking \ {found} /\ UNCHANGED tree
          \/ /\ found \notin {v \in Runtime : tree[v] = "part"} \cup unpacking
             /\ Ends(r) /\ UNCHANGED <<tree, unpacking>>
    /\ UNCHANGED <<answered, commands, torn>>

\* The vendor's index names a release, none for the empty version; one that has a directory
\* is taken as installed.
NameRelease(r) ==
    /\ job[r].at = "resolve"
    /\ \/ job[r].wants = <<>> /\ Ends(r)
       \/ /\ job[r].wants # <<>>
          /\ \E v \in {w \in Runtime : IsPrefix(job[r].wants, w)} :
               IF v \in Listed THEN Ends(r)
               ELSE job' = [job EXCEPT ![r] = [NoJob EXCEPT !.version = v, !.at = "download"]]
    /\ UNCHANGED <<tree, unpacking, answered, commands, torn>>

\* download and extract: the archive is verified, unpacked beside the versions and looked
\* through; one that another command has removed is an error.
Unpack(r) ==
    /\ job[r].at = "download"
    /\ unpacking' = unpacking \cup {r} /\ torn' = torn \ {r}
    /\ Goes(r, "unpacked")
    /\ UNCHANGED <<tree, answered, commands>>
CheckDestination(r) ==
    /\ job[r].at = "unpacked"
    /\ IF r \in unpacking /\ job[r].version \notin Listed
       THEN Goes(r, "move") /\ UNCHANGED unpacking
       ELSE Ends(r) /\ unpacking' = unpacking \ {r}
    /\ UNCHANGED <<tree, answered, commands, torn>>

\* Mutant: copies file by file instead of renaming.
MoveByCopy(r) ==
    /\ job[r].at = "move"
    /\ IF tree[job[r].version] = "absent"
       THEN tree' = [tree EXCEPT ![job[r].version] = "part"] /\ UNCHANGED <<job, unpacking>>
       ELSE /\ tree' = [tree EXCEPT ![job[r].version] = "whole"]
            /\ Goes(r, "shims") /\ unpacking' = unpacking \ {r}
    /\ UNCHANGED <<answered, commands, torn>>

\* os.replace, which refuses a directory that is not empty, as one half removed is.  Of an
\* archive that a removal has taken from it moves what is left, and the removal may go on.
Move(r) ==
    /\ job[r].at = "move"
    /\ IF r \in unpacking /\ job[r].version \notin Listed
       THEN /\ \E left \in {"whole", "part"} :
                 /\ left = "part" => r \in torn
                 /\ tree' = [tree EXCEPT ![job[r].version] = left]
                 /\ torn' = IF left = "part" THEN torn \cup {job[r].version} ELSE torn
            /\ Goes(r, "shims")
       ELSE Ends(r) /\ UNCHANGED <<tree, torn>>
    /\ unpacking' = unpacking \ {r}
    /\ UNCHANGED <<answered, commands>>

\* The shims name the kind, and at most a minor version: they are the same for every
\* version that is installed.
WriteShims(r) ==
    /\ job[r].at = "shims"
    /\ Ends(r)
    /\ UNCHANGED <<tree, unpacking, answered, commands, torn>>

\* The versions a command is in the middle of removing.
Half(r) == {v \in Runtime : job[r].at \in {"replacing", "removing"} /\ job[r].version = v}

\* A step fails: the archive, the disk, the user's answer.  A removal stays half done; only
\* a kill leaves the temporary directory.
JobFails(r) ==
    /\ job[r] # NoJob
    /\ Ends(r)
    /\ unpacking' = unpacking \ {r}
    /\ torn' = torn \cup Half(r)
    /\ UNCHANGED <<tree, answered, commands>>
JobKilled(r) ==
    /\ job[r] # NoJob
    /\ Ends(r)
    /\ torn' = torn \cup Half(r) \cup ({r} \cap unpacking)
    /\ UNCHANGED <<tree, unpacking, answered, commands>>

RuntimeStep == \E r \in Runner :
    \/ FindToRemove(r) \/ BeginRemoval(r) \/ EndRemoval(r) \/ NameRelease(r) \/ Unpack(r)
    \/ CheckDestination(r) \/ Move(r) \/ WriteShims(r)
RuntimeOthers == Which \/ \E r \in Runner : RuntimeBegin(r) \/ JobFails(r) \/ JobKilled(r)
RuntimeNext == RuntimeStep \/ RuntimeOthers
RuntimeSpec == RuntimeInit /\ [][RuntimeNext]_runtimeVars

-----------------------------------------------------------------------------
\* Every variable has its type.
RuntimeTypeOK ==
    /\ tree \in [Runtime -> {"absent", "part", "whole"}]
    /\ unpacking \subseteq Runner /\ torn \subseteq Runtime \cup Runner \cup {Nowhere}
    /\ job \in [Runner -> [at : {"idle", "force", "uninstall", "replace", "remove", "replacing",
                                "removing", "resolve", "download", "unpacked", "move", "shims"},
                         wants : Request \cup {<<>>}, version : Runtime \cup Runner \cup {Nowhere}]]
    /\ answered \in Runtime \cup Runner \cup {Nowhere}
    /\ commands \in 0..Commands

\* However installs, forced installs and removals interleave, a version's directory is whole
\* unless a removal is at work in it, failed or was killed in it, or was at work in the
\* archive it was moved from, which only a removal of the empty version can be; and a
\* temporary directory is a running command's, or one that a kill left, and no command that
\* names a version takes it for one (_install.py 139-205, commands.py 107-113, 125-135).
RuntimesWhole ==
    /\ \A v \in Runtime : tree[v] = "part" => v \in torn \/ \E r \in Runner : v \in Half(r)
    /\ \A r \in unpacking : r \in torn \/ job[r].at \in {"unpacked", "move"}
    /\ \A r \in Runner : job[r].wants # <<>> => job[r].version \in Runtime \cup {Nowhere}

\* "Return the newest installed Python matching version_prefix" (python.py 151): what is
\* found is an installed version.
FindsInstalled == answered \notin Runner
=============================================================================
