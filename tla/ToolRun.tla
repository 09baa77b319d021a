------------------------------ MODULE ToolRun ------------------------------
(***************************************************************************)
(* One run of a package tool under rvs: rvs pip, npm, mvn ... (rvs/native/ *)
(* runner.py) or rvs docker, helm, oras (rvs/oci/runner.py).  The target   *)
(* is resolved, a token for exactly that repository is minted, a publisher *)
(* confirms, the credentials are written to a temporary directory, the     *)
(* tool runs, and the directory is removed.  Meanwhile repositories change *)
(* their names, another shell selects another target, and signals arrive.  *)
(*                                                                         *)
(* The request loop of the mint is in ApiRequest, what rvs reads from the  *)
(* tool's arguments in ToolArguments, and what an OCI line may refer to in *)
(* OciReferences.                                                          *)
(***************************************************************************)
EXTENDS ToolArguments, OciReferences, FiniteSets, Functions

CONSTANTS
    MaxChanges,     \* bound: renames and selections while the tool runs
    Nothing         \* no target, no token, no name

\* The service's names are unique at any time.
ASSUME ToolAssumption == /\ MaxChanges \in Nat
                         /\ \E names \in [Repository -> Name] : IsInjective(names)

VARIABLES
    named,      \* the service's repositories: their present names
    selected,   \* the saved target, kept by its identity
    tool,       \* the run
    changes

toolVars == <<named, selected, tool, changes>>

Target == [id : Repository, name : Name]
Token == [id : Repository, operations : SUBSET Operation]
NoTool == [at |-> "idle", line |-> Nothing, explicit |-> Nothing,
           target |-> Nothing, token |-> Nothing, shown |-> Nothing, files |-> FALSE,
           child |-> "none", current |-> FALSE, strays |-> FALSE, killed |-> FALSE]

ToolInit ==
    /\ named = CHOOSE f \in [Repository -> Name] : IsInjective(f)
    /\ selected = Nothing
    /\ tool = NoTool
    /\ changes = 0

\* The native runner makes its temporary directory first; it is empty.  A tool that only
\* shows its help or version, or works on local files, needs no target.  Anything may have
\* been selected before.
ToolBegin ==
    /\ tool = NoTool
    /\ \E line \in Understood, explicit \in Name \cup {Nothing} :
        tool' = [NoTool EXCEPT !.line = line, !.explicit = explicit,
                    !.at = IF line.reading.local THEN "start" ELSE "resolve"]
    /\ selected' \in Repository \cup {Nothing}
    /\ UNCHANGED <<named, changes>>

Reads == tool.line.reading

\* The run ends: the temporary directory goes, whatever has happened.
ToolEnds == tool' = [tool EXCEPT !.at = "ended", !.files = FALSE]

\* resolve_target: by name if one is given, else the identity that was selected, with the
\* name the repository has now.
Resolve ==
    /\ tool.at = "resolve"
    /\ LET found == IF tool.explicit # Nothing THEN {r \in Repository : named[r] = tool.explicit}
                    ELSE {selected} \ {Nothing}
       IN \/ \E r \in found :
                tool' = [tool EXCEPT !.target = [id |-> r, name |-> named[r]], !.at = "mint"]
          \/ ToolEnds
    /\ UNCHANGED <<named, selected, changes>>

\* The service's part: it refuses a target that is not as expected any more.
Expected(target) == named[target.id] = target.name

Minted(r) == [tool EXCEPT !.token = [id |-> r, operations |-> Reads.rights],
                          !.at = IF Reads.family = "oci" THEN "refer"
                                 ELSE IF Reads.asks THEN "confirm" ELSE "write",
                          !.current = named[r] = tool.target.name]

\* Mutant: mints by permanent identity without the identity the user saw.
MintUnguarded ==
    /\ tool.at = "mint"
    /\ \/ \E r \in Repository : r = tool.target.id /\ tool' = Minted(r)
       \/ ToolEnds
    /\ UNCHANGED <<named, selected, changes>>

\* issue_native with expected_target; an answer for another repository is an error.
Mint ==
    /\ tool.at = "mint"
    /\ \/ \E r \in Repository : Expected(tool.target) /\ r = tool.target.id /\ tool' = Minted(r)
       \/ ToolEnds
    /\ UNCHANGED <<named, selected, changes>>

\* The repositories that the readable and permanent roots stand for at the service.
Denoted(reference) ==
    IF reference.to # "host" THEN {}
    ELSE {r \in Repository : reference.root \in {[form |-> "readable", of |-> named[r]],
                                                 [form |-> "permanent", of |-> r]}}

\* The references of an OCI line: whatever they are, they are of the target, or the run
\* ends.  The source of a docker tag is a local image that may have any name.
Refer ==
    /\ tool.at = "refer"
    /\ \E source \in Reference, destination \in Reference :
        LET checked == {Normalized(Expanded(destination, Reads.short, tool.target))}
                       \cup IF Reads.tags = "only" THEN {}
                            ELSE {Normalized(Expanded(source, Reads.short, tool.target))}
        IN \/ /\ \A reference \in checked : MayPass(reference, tool.target)
              /\ tool' = [tool EXCEPT
                            !.strays = /\ Expected(tool.target)
                                       /\ \E reference \in checked :
                                            Denoted(reference) \ {tool.target.id} # {},
                            !.at = IF Reads.asks THEN "confirm" ELSE "write"]
           \/ /\ \E reference \in checked : Refused(reference, tool.target)
              /\ ToolEnds
    /\ UNCHANGED <<named, selected, changes>>

\* A publisher, or who moves or removes an npm tag, is shown the account, the target and
\* what will change, or has passed --yes.
Confirm ==
    /\ tool.at = "confirm"
    /\ \/ tool' = [tool EXCEPT !.shown = tool.target, !.at = "write"]
       \/ ToolEnds
    /\ UNCHANGED <<named, selected, changes>>

\* The credentials of a native tool: netrc, Maven settings or npm's environment; an
\* unreadable file of the user's ends the run.
Write ==
    /\ tool.at = "write" /\ Reads.family = "native"
    /\ \/ tool' = [tool EXCEPT !.files = TRUE, !.at = "start"]
       \/ ToolEnds
    /\ UNCHANGED <<named, selected, changes>>

\* Those of an OCI tool: the broker's file with the token, and then ...
WriteBroker ==
    /\ tool.at = "write" /\ Reads.family = "oci"
    /\ tool' = [tool EXCEPT !.files = TRUE, !.at = "config"]
    /\ UNCHANGED <<named, selected, changes>>

\* ... the registry configuration that names the broker for the host, in place of the
\* user's entries for it; an unreadable configuration of the user's ends the run.
WriteConfig ==
    /\ tool.at = "config"
    /\ \/ tool' = [tool EXCEPT !.at = "start"]
       \/ ToolEnds
    /\ UNCHANGED <<named, selected, changes>>

\* docker push with a short name first tags the image, which may be refused or fail; docker
\* tag is done then.
Tag ==
    /\ tool.at = "start" /\ Reads.tags # "no"
    /\ ToolEnds
    /\ UNCHANGED <<named, selected, changes>>

\* The child starts; the OCI runner then installs handlers that forward its signals.
Launch ==
    /\ tool.at = "start" /\ Reads.tags # "only"
    /\ tool' = [tool EXCEPT !.child = "running",
                   !.at = IF Reads.family = "oci" THEN "install" ELSE "wait"]
    /\ UNCHANGED <<named, selected, changes>>

Install ==
    /\ tool.at = "install"
    /\ tool' = [tool EXCEPT !.at = "wait"]
    /\ UNCHANGED <<named, selected, changes>>

\* The child ends by itself, or by a signal.
ChildEnds ==
    /\ tool.child = "running"
    /\ tool' = [tool EXCEPT !.child = "done"]
    /\ UNCHANGED <<named, selected, changes>>

\* Mutant: cleans up only after a success.
FinishUnclean ==
    /\ tool.at = "wait" /\ tool.child = "done"
    /\ \/ ToolEnds
       \/ tool' = [tool EXCEPT !.at = "ended"]
    /\ UNCHANGED <<named, selected, changes>>

\* The exit status of the child becomes that of rvs.
Finish ==
    /\ tool.at = "wait" /\ tool.child = "done"
    /\ ToolEnds
    /\ UNCHANGED <<named, selected, changes>>

-----------------------------------------------------------------------------
(* Signals *)

Running == tool.at \notin {"idle", "ended"}
Forwards == tool.at = "wait" /\ Reads.family = "oci"

\* Ctrl-C raises in rvs, which kills a child it waits for and cleans up; while it forwards
\* signals only the child gets it.  A child just launched is left behind.
Interrupt ==
    /\ Running /\ ~Forwards
    /\ tool' = [tool EXCEPT !.at = "ended", !.files = FALSE,
                   !.child = IF tool.at = "wait" THEN "done" ELSE @]
    /\ UNCHANGED <<named, selected, changes>>

\* SIGTERM and SIGHUP end rvs where it does not forward them; SIGKILL everywhere.
Killed ==
    /\ Running
    /\ tool' = [tool EXCEPT !.at = "ended", !.killed = TRUE]
    /\ UNCHANGED <<named, selected, changes>>

-----------------------------------------------------------------------------
(* Others *)

Change == Running /\ changes < MaxChanges /\ changes' = changes + 1

\* A repository is renamed, to a free name or to one that another repository had before.
Rename ==
    /\ Change
    /\ named' \in {f \in [Repository -> Name] : IsInjective(f)} \ {named}
    /\ UNCHANGED <<selected, tool>>

Select ==
    /\ Change
    /\ selected' \in Repository \cup {Nothing}
    /\ UNCHANGED <<named, tool>>

\* The user may take for ever to confirm, and the child to end.
ToolStep ==
    Resolve \/ Mint \/ Refer \/ Write \/ WriteBroker \/ WriteConfig \/ Tag \/ Launch \/ Install \/ Finish
ToolNext ==
    \/ ToolBegin \/ ToolStep \/ Confirm \/ ChildEnds \/ Interrupt \/ Killed \/ Rename \/ Select
ToolSpec == ToolInit /\ [][ToolNext]_toolVars

-----------------------------------------------------------------------------
\* Every variable has its type.
ToolTypeOK ==
    /\ named \in [Repository -> Name] /\ selected \in Repository \cup {Nothing}
    /\ tool \in [at : {"idle", "resolve", "mint", "refer", "confirm", "write", "config", "start",
                       "install", "wait", "ended"},
                 line : Understood \cup {Nothing}, explicit : Name \cup {Nothing},
                 target : Target \cup {Nothing}, token : Token \cup {Nothing},
                 shown : Target \cup {Nothing}, files : BOOLEAN,
                 child : {"none", "running", "done"}, current : BOOLEAN, strays : BOOLEAN,
                 killed : BOOLEAN]
    /\ changes \in 0..MaxChanges

\* A tool only ever works on the repository that had the resolved name when its token was
\* minted; with an explicit target that is the name the user gave, and a publisher has
\* confirmed that very repository, however names and selections changed in between; what
\* an OCI line refers to is of that repository too, as long as it keeps its name
\* (targets.py 348-442, native/runner.py 247-275, oci/runner.py 81-245).
WorksOnShown ==
    tool.child # "none" /\ ~Reads.local =>
        /\ tool.current /\ tool.token.id = tool.target.id
        /\ tool.explicit # Nothing => tool.target.name = tool.explicit
        /\ Reads.asks => tool.shown = tool.target
        /\ ~tool.strays

\* Written credentials exist while the tool runs and rvs waits for it, and are gone when
\* the run has ended in any way but a kill (native/runner.py 158-172, oci/runner.py
\* 374-460).
CredentialsWithRun ==
    /\ tool.files /\ tool.at = "ended" => tool.killed
    /\ tool.at \in {"install", "wait"} => (tool.files \/ Reads.local)

\* Of the lines built here - an option before, between or after the words, its value one of
\* the words that matter - those that rvs reads otherwise than the tool are of three kinds
\* (Misread), and of the others it understands all: a tool has every right its command
\* needs and no right but to read beyond that - uv, twine and mvn have the right to publish
\* when they publish, and none to delete - npm goes to the host that takes the change, what
\* publishes, moves latest or removes a tag is asked about, and a preview that names files
\* names those that are uploaded.  However it reads the line, the tool works with the target
\* whatever registry its options or settings name - but for pip with such an option before
\* its command - and a Maven mirror of another repository keeps it, unless one for
\* everything stands before it (native/runner.py 262-290, 400-574 and 610-940,
\* oci/docker.py 41-127, helm.py 62-124, oras.py 10-98, publishing.py 201-337).
ArgumentsUnderstood ==
    tool.line # Nothing =>
        LET means == tool.line.meaning
        IN /\ means.misread \/
              /\ means.exact \/ means.asked =>
                   means.needs \subseteq (IF Reads.local THEN {} ELSE Reads.rights)
              /\ "delete" \in Reads.rights => "delete" \in means.needs
              /\ means.exact => Reads.rights \ means.needs \subseteq {"read"}
              /\ Reads.uploads = means.uploads
              /\ means.asked => Reads.asks
              /\ means.exact => Reads.asks = means.asked
              /\ Reads.shown \in {ToolSelects, means.files}
           /\ means.routed => Reads.goes = "target"
           /\ Reads.keeps \/ means.shadowed
=============================================================================
