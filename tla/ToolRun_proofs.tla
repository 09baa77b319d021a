--------------------------- MODULE ToolRun_proofs ---------------------------
(***************************************************************************)
(* Proofs about ToolRun, for all sets of repositories and names and any    *)
(* number of renames and selections while the tool runs: what a tool works *)
(* on, and when its credentials exist.                                     *)
(***************************************************************************)
EXTENDS ToolRun, TLAPS

\* The names stay unique, and from the first step on there is a line.
Uniquely == IsInjective(named)
HasLine == tool.at # "idle" => tool.line \in Understood

\* Where the run is: before a token is minted, then up to the launch, and with the child.
Unminted == {"idle", "resolve", "mint"}
Preparing == {"refer", "confirm", "write", "config"}
Supervising == {"install", "wait"}
RunsOnTarget == (tool.at \in {"start"} \cup Supervising \/ tool.child # "none") /\ ~Reads.local

\* Only a run that needs a target resolves one, and no child runs before the launch.
NeedsTarget == tool.at \in {"resolve", "mint"} \cup Preparing => ~Reads.local
NotLaunched == tool.at \in Unminted \cup Preparing \cup {"start"} => tool.child = "none"

\* The target has the name the user gave; the token is of the target, minted while the
\* target had that name.
AsNamed == /\ tool.target \in Target
           /\ tool.explicit # Nothing => tool.target.name = tool.explicit
Resolved == tool.at = "mint" => AsNamed
Guarded == tool.at \in Preparing \/ RunsOnTarget =>
               /\ AsNamed
               /\ tool.current /\ tool.token \in Token /\ tool.token.id = tool.target.id

\* Whoever had to be asked has been, before anything is written.
HasConfirmed ==
    tool.at \in {"write", "config"} \/ RunsOnTarget => (Reads.asks => tool.shown = tool.target)

\* No reference of an OCI line denotes another repository, and credentials are written
\* after the minting and removed before an end.
OnTarget == ~tool.strays
FilesInPlace ==
    /\ tool.at \in Unminted \cup {"refer", "confirm", "write"} => ~tool.files
    /\ tool.at \in {"config", "start"} \cup Supervising => tool.files \/ Reads.local
    /\ tool.at = "ended" /\ tool.files => tool.killed

ToolInv ==
    /\ ToolTypeOK /\ Uniquely /\ HasLine /\ NeedsTarget /\ NotLaunched
    /\ Resolved /\ Guarded /\ HasConfirmed /\ OnTarget /\ FilesInPlace

-----------------------------------------------------------------------------
\* Whatever a line says, the rights that are asked for are rights (native/runner.py 262-290).
LEMMA RightsTyped == \A line \in Understood : line.reading.rights \in SUBSET Operation
<1>1. SUFFICES ASSUME NEW line \in Lines PROVE OperationsFor(line.name, line.argv) \in SUBSET Operation
  BY DEF Understood, Reading
<1>2. {{"publish"}, Operation, ReadPublish, {"read", "delete"}, ReadOnly} \subseteq SUBSET Operation
  BY DEF Operation, ReadPublish, ReadOnly
<1> QED  BY <1>1, <1>2 DEF OperationsFor

\* The run starts with unique names and nothing done.
LEMMA ToolInitInv == ToolInit => ToolInv
<1> SUFFICES ASSUME ToolInit PROVE ToolInv
  OBVIOUS
<1>1. named \in [Repository -> Name] /\ IsInjective(named)
  BY ToolAssumption DEF ToolInit
<1> QED  BY <1>1, ToolAssumption DEF ToolInit, NoTool, ToolInv, ToolTypeOK, Uniquely, HasLine, NeedsTarget,
         NotLaunched, Resolved, Guarded, RunsOnTarget, HasConfirmed, OnTarget, FilesInPlace,
         Unminted, Preparing, Supervising

\* An end keeps the invariant wherever it comes: the files go, and a child that ran stays
\* with what it was given.
LEMMA EndsInv ==
    ASSUME ToolInv, tool.at # "idle", ToolEnds, UNCHANGED <<named, selected, changes>>
    PROVE  ToolInv'
<1> USE DEF ToolInv, ToolEnds, Reads
<1>1. ToolTypeOK'
  BY DEF ToolTypeOK
<1>2. (Uniquely /\ HasLine /\ NeedsTarget /\ NotLaunched /\ Resolved)'
  BY DEF ToolTypeOK, Uniquely, HasLine, NeedsTarget, NotLaunched, Resolved, AsNamed,
           Unminted, Preparing, Supervising
<1>3. (Guarded /\ HasConfirmed /\ OnTarget /\ FilesInPlace)'
  BY DEF ToolTypeOK, NeedsTarget, NotLaunched, Resolved, Guarded, AsNamed, RunsOnTarget, HasConfirmed, OnTarget,
           FilesInPlace, Unminted, Preparing, Supervising
<1> QED  BY <1>1, <1>2, <1>3

\* What an OCI line may refer to is of the target: readable names are unique, and an issued
\* root is no other repository's.
LEMMA PassesOnTarget ==
    ASSUME ToolInv, AsNamed, Expected(tool.target), NEW reference \in Reference,
           MayPass(reference, tool.target)
    PROVE  Denoted(reference) \subseteq {tool.target.id}
<1> SUFFICES ASSUME reference.to = "host", NEW r \in Repository,
                    reference.root \in {[form |-> "readable", of |-> named[r]], [form |-> "permanent", of |-> r]}
             PROVE  r = tool.target.id
  BY DEF Denoted
<1>1. reference.root \in Accepted(tool.target)
  BY DEF MayPass, Refused
<1>2. CASE reference.root = [form |-> "permanent", of |-> r]
  BY <1>1, <1>2 DEF Accepted
<1>3. CASE reference.root = [form |-> "readable", of |-> named[r]]
  <2>1. named[r] = named[tool.target.id]
    BY <1>1, <1>3 DEF Accepted, Expected
  <2> QED  BY <2>1 DEF ToolInv, ToolTypeOK, Uniquely, IsInjective, AsNamed, Target
<1> QED  BY <1>2, <1>3

\* Putting a short name below the target's root and a root into lower case give references.
LEMMA NormalizedReference ==
    ASSUME NEW reference \in Reference, NEW short, NEW target \in Target
    PROVE  Normalized(Expanded(reference, short, target)) \in Reference
<1>1. Expanded(reference, short, target) \in Reference
  BY DEF Expanded, Reference, HostReference, Root, ShortReference, Target
<1>2. ASSUME NEW other \in {ShortReference, OtherReference} PROVE Normalized(other) = other
  BY DEF Normalized, ShortReference, OtherReference
<1>3. ASSUME NEW root \in Root, NEW mixed
      PROVE  Normalized(HostReference(root, mixed)) = HostReference(root, FALSE)
  BY DEF Normalized, HostReference
<1>4. ASSUME NEW other \in Reference PROVE Normalized(other) \in Reference
  <2>1. CASE other \in {ShortReference, OtherReference}
    BY <1>2, <2>1
  <2>2. CASE other \notin {ShortReference, OtherReference}
    <3>1. PICK root \in Root, mixed \in BOOLEAN : other = HostReference(root, mixed)
      BY <2>2 DEF Reference
    <3> QED  BY ONLY <1>3, <3>1 DEF Reference
  <2> QED  BY <2>1, <2>2
<1> QED  BY <1>1, <1>4

\* Every step of the run keeps the invariant, and so does everything that happens beside it.
LEMMA ToolStepInv == ToolInv /\ [ToolNext]_toolVars => ToolInv'
<1> SUFFICES ASSUME ToolInv, [ToolNext]_toolVars PROVE ToolInv'
  OBVIOUS
<1> USE DEF ToolInv, Reads
<1>1. CASE ToolBegin
  <2>1. PICK line \in Understood, explicit \in Name \cup {Nothing} :
          tool' = [NoTool EXCEPT !.line = line, !.explicit = explicit,
                      !.at = IF line.reading.local THEN "start" ELSE "resolve"]
    BY <1>1 DEF ToolBegin
  <2> USE <1>1, <2>1 DEF ToolBegin, NoTool
  <2>2. ToolTypeOK'
    BY ZenonT(60) DEF ToolTypeOK
  <2>3. (Uniquely /\ HasLine /\ NeedsTarget /\ NotLaunched /\ Resolved)'
    BY DEF ToolTypeOK, Uniquely, HasLine, NeedsTarget, NotLaunched, Resolved, AsNamed,
           Unminted, Preparing, Supervising
  <2>4. (Guarded /\ HasConfirmed /\ OnTarget /\ FilesInPlace)'
    BY DEF ToolTypeOK, NeedsTarget, NotLaunched, Resolved, Guarded, AsNamed, RunsOnTarget, HasConfirmed, OnTarget,
           FilesInPlace, Unminted, Preparing, Supervising
  <2> QED  BY <2>2, <2>3, <2>4
<1>2. CASE Resolve
  <2>1. CASE ToolEnds
    BY <1>2, <2>1, EndsInv DEF Resolve
  <2>2. CASE ~ToolEnds
    <3>1. PICK r \in Repository :
            /\ tool' = [tool EXCEPT !.target = [id |-> r, name |-> named[r]], !.at = "mint"]
            /\ tool.explicit # Nothing => named[r] = tool.explicit
      BY <1>2, <2>2 DEF Resolve, ToolTypeOK
    <3>2. [id |-> r, name |-> named[r]] \in Target
      BY DEF ToolTypeOK, Target
    <3> USE <1>2, <3>1, <3>2 DEF Resolve
    <3>3. ToolTypeOK'
      BY DEF ToolTypeOK
    <3>4. (Uniquely /\ HasLine /\ NeedsTarget /\ NotLaunched /\ Resolved)'
      BY DEF ToolTypeOK, Uniquely, HasLine, NeedsTarget, NotLaunched, Resolved, AsNamed,
             Unminted, Preparing, Supervising
    <3>5. (Guarded /\ HasConfirmed /\ OnTarget /\ FilesInPlace)'
      BY DEF ToolTypeOK, NeedsTarget, NotLaunched, Resolved, Guarded, AsNamed, RunsOnTarget, HasConfirmed, OnTarget,
             FilesInPlace, Unminted, Preparing, Supervising
    <3> QED  BY <3>3, <3>4, <3>5
  <2> QED  BY <2>1, <2>2
<1>3. CASE Mint
  <2>1. CASE ToolEnds
    BY <1>3, <2>1, EndsInv DEF Mint
  <2>2. CASE ~ToolEnds
    <3>1. tool.target.id \in Repository /\ Expected(tool.target) /\ tool' = Minted(tool.target.id)
      BY <1>3, <2>2 DEF Mint
    <3>2. [id |-> tool.target.id, operations |-> Reads.rights] \in Token
      BY <1>3, <3>1, RightsTyped DEF Mint, HasLine, Token
    <3> USE <1>3, <3>1, <3>2 DEF Mint, Minted, Expected
    <3>3. ToolTypeOK'
      BY ZenonT(60) DEF ToolTypeOK
    <3>4. (Uniquely /\ HasLine /\ NeedsTarget /\ NotLaunched /\ Resolved)'
      BY DEF ToolTypeOK, Uniquely, HasLine, NeedsTarget, NotLaunched, Resolved, AsNamed,
             Unminted, Preparing, Supervising
    <3>5. (Guarded /\ HasConfirmed /\ OnTarget /\ FilesInPlace)'
      BY DEF ToolTypeOK, NeedsTarget, NotLaunched, Resolved, Guarded, AsNamed, RunsOnTarget, HasConfirmed, OnTarget,
             FilesInPlace, Unminted, Preparing, Supervising
    <3> QED  BY <3>3, <3>4, <3>5
  <2> QED  BY <2>1, <2>2
<1>4. CASE Refer
  <2>1. CASE ToolEnds
    BY <1>4, <2>1, EndsInv DEF Refer
  <2>2. CASE ~ToolEnds
    <3>a. PICK source \in Reference, destination \in Reference :
            LET checked == {Normalized(Expanded(destination, Reads.short, tool.target))}
                           \cup IF Reads.tags = "only" THEN {}
                                ELSE {Normalized(Expanded(source, Reads.short, tool.target))}
            IN /\ \A reference \in checked : MayPass(reference, tool.target)
               /\ tool' = [tool EXCEPT
                            !.strays = /\ Expected(tool.target)
                                       /\ \E reference \in checked :
                                            Denoted(reference) \ {tool.target.id} # {},
                            !.at = IF Reads.asks THEN "confirm" ELSE "write"]
      BY <1>4, <2>2 DEF Refer
    <3>b. tool.at = "refer" /\ AsNamed
      BY <1>4 DEF Refer, Guarded, Preparing
    <3>c. \A reference \in Reference :
            Normalized(Expanded(reference, Reads.short, tool.target)) \in Reference
      BY <3>b, NormalizedReference DEF AsNamed
    <3>1. tool' = [tool EXCEPT !.strays = FALSE, !.at = IF Reads.asks THEN "confirm" ELSE "write"]
      BY <3>a, <3>b, <3>c, PassesOnTarget DEF Expected
    <3> USE <1>4, <3>1 DEF Refer
    <3>2. ToolTypeOK'
      BY ZenonT(60) DEF ToolTypeOK
    <3>3. (Uniquely /\ HasLine /\ NeedsTarget /\ NotLaunched /\ Resolved)'
      BY DEF ToolTypeOK, Uniquely, HasLine, NeedsTarget, NotLaunched, Resolved, AsNamed,
             Unminted, Preparing, Supervising
    <3>4. (Guarded /\ HasConfirmed /\ OnTarget /\ FilesInPlace)'
      BY DEF ToolTypeOK, NeedsTarget, NotLaunched, Resolved, Guarded, AsNamed, RunsOnTarget, HasConfirmed, OnTarget,
             FilesInPlace, Unminted, Preparing, Supervising
    <3> QED  BY <3>2, <3>3, <3>4
  <2> QED  BY <2>1, <2>2
<1>5. CASE Confirm
  <2>1. CASE ToolEnds
    BY <1>5, <2>1, EndsInv DEF Confirm
  <2>2. CASE ~ToolEnds
    <3>a. tool' = [tool EXCEPT !.shown = tool.target, !.at = "write"]
      BY <1>5, <2>2 DEF Confirm
    <3> USE <1>5, <3>a DEF Confirm
    <3>1. ToolTypeOK'
      BY DEF ToolTypeOK
    <3>2. (Uniquely /\ HasLine /\ NeedsTarget /\ NotLaunched /\ Resolved)'
      BY DEF ToolTypeOK, Uniquely, HasLine, NeedsTarget, NotLaunched, Resolved, AsNamed,
             Unminted, Preparing, Supervising
    <3>3. (Guarded /\ HasConfirmed /\ OnTarget /\ FilesInPlace)'
      BY DEF ToolTypeOK, NeedsTarget, NotLaunched, Resolved, Guarded, AsNamed, RunsOnTarget, HasConfirmed, OnTarget,
             FilesInPlace, Unminted, Preparing, Supervising
    <3> QED  BY <3>1, <3>2, <3>3
  <2> QED  BY <2>1, <2>2
<1>6. CASE Write
  <2>1. CASE ToolEnds
    BY <1>6, <2>1, EndsInv DEF Write
  <2>2. CASE ~ToolEnds
    <3>1. /\ tool.at = "write" /\ UNCHANGED <<named, selected, changes>>
          /\ tool' = [tool EXCEPT !.files = TRUE, !.at = "start"]
      BY <1>6, <2>2 DEF Write
    <3> USE <3>1
    <3>2. ToolTypeOK'
      BY DEF ToolTypeOK
    <3>3. (Uniquely /\ HasLine /\ NeedsTarget /\ NotLaunched /\ Resolved)'
      BY DEF ToolTypeOK, Uniquely, HasLine, NeedsTarget, NotLaunched, Resolved, AsNamed,
             Unminted, Preparing, Supervising
    <3>4. (Guarded /\ HasConfirmed /\ OnTarget /\ FilesInPlace)'
      BY DEF ToolTypeOK, NeedsTarget, NotLaunched, Resolved, Guarded, AsNamed, RunsOnTarget, HasConfirmed, OnTarget,
             FilesInPlace, Unminted, Preparing, Supervising
    <3> QED  BY <3>2, <3>3, <3>4
  <2> QED  BY <2>1, <2>2
<1>7. CASE WriteBroker
  <2> USE <1>7 DEF WriteBroker
  <2>1. ToolTypeOK'
    BY DEF ToolTypeOK
  <2>2. (Uniquely /\ HasLine /\ NeedsTarget /\ NotLaunched /\ Resolved)'
    BY DEF ToolTypeOK, Uniquely, HasLine, NeedsTarget, NotLaunched, Resolved, AsNamed,
           Unminted, Preparing, Supervising
  <2>3. (Guarded /\ HasConfirmed /\ OnTarget /\ FilesInPlace)'
    BY DEF ToolTypeOK, NeedsTarget, NotLaunched, Resolved, Guarded, AsNamed, RunsOnTarget, HasConfirmed, OnTarget,
           FilesInPlace, Unminted, Preparing, Supervising
  <2> QED  BY <2>1, <2>2, <2>3
<1>8. CASE WriteConfig
  <2>1. CASE ToolEnds
    BY <1>8, <2>1, EndsInv DEF WriteConfig
  <2>2. CASE ~ToolEnds
    <3> USE <1>8, <2>2 DEF WriteConfig
    <3>1. ToolTypeOK'
      BY DEF ToolTypeOK
    <3>2. (Uniquely /\ HasLine /\ NeedsTarget /\ NotLaunched /\ Resolved)'
      BY DEF ToolTypeOK, Uniquely, HasLine, NeedsTarget, NotLaunched, Resolved, AsNamed,
             Unminted, Preparing, Supervising
    <3>3. (Guarded /\ HasConfirmed /\ OnTarget /\ FilesInPlace)'
      BY DEF ToolTypeOK, NeedsTarget, NotLaunched, Resolved, Guarded, AsNamed, RunsOnTarget, HasConfirmed, OnTarget,
             FilesInPlace, Unminted, Preparing, Supervising
    <3> QED  BY <3>1, <3>2, <3>3
  <2> QED  BY <2>1, <2>2
<1>9. CASE Tag \/ Finish
  BY <1>9, EndsInv DEF Tag, Finish
<1>10. CASE Launch
  <2> USE <1>10 DEF Launch
  <2>1. ToolTypeOK'
    BY ZenonT(60) DEF ToolTypeOK
  <2>2. (Uniquely /\ HasLine /\ NeedsTarget /\ NotLaunched /\ Resolved)'
    BY DEF ToolTypeOK, Uniquely, HasLine, NeedsTarget, NotLaunched, Resolved, AsNamed,
           Unminted, Preparing, Supervising
  <2>3. (Guarded /\ HasConfirmed /\ OnTarget /\ FilesInPlace)'
    BY DEF ToolTypeOK, NeedsTarget, NotLaunched, Resolved, Guarded, AsNamed, RunsOnTarget, HasConfirmed, OnTarget,
           FilesInPlace, Unminted, Preparing, Supervising
  <2> QED  BY <2>1, <2>2, <2>3
<1>11. CASE Install
  <2> USE <1>11 DEF Install
  <2>1. ToolTypeOK'
    BY DEF ToolTypeOK
  <2>2. (Uniquely /\ HasLine /\ NeedsTarget /\ NotLaunched /\ Resolved)'
    BY DEF ToolTypeOK, Uniquely, HasLine, NeedsTarget, NotLaunched, Resolved, AsNamed,
           Unminted, Preparing, Supervising
  <2>3. (Guarded /\ HasConfirmed /\ OnTarget /\ FilesInPlace)'
    BY DEF ToolTypeOK, NeedsTarget, NotLaunched, Resolved, Guarded, AsNamed, RunsOnTarget, HasConfirmed, OnTarget,
           FilesInPlace, Unminted, Preparing, Supervising
  <2> QED  BY <2>1, <2>2, <2>3
<1>12. CASE ChildEnds
  <2> USE <1>12 DEF ChildEnds
  <2>1. ToolTypeOK'
    BY DEF ToolTypeOK
  <2>2. (Uniquely /\ HasLine /\ NeedsTarget /\ NotLaunched /\ Resolved)'
    BY DEF ToolTypeOK, Uniquely, HasLine, NeedsTarget, NotLaunched, Resolved, AsNamed,
           Unminted, Preparing, Supervising
  <2>3. (Guarded /\ HasConfirmed /\ OnTarget /\ FilesInPlace)'
    BY DEF ToolTypeOK, NeedsTarget, NotLaunched, Resolved, Guarded, AsNamed, RunsOnTarget, HasConfirmed, OnTarget,
           FilesInPlace, Unminted, Preparing, Supervising
  <2> QED  BY <2>1, <2>2, <2>3
<1>13. CASE Interrupt
  <2> USE <1>13 DEF Interrupt, Running, Forwards
  <2>1. ToolTypeOK'
    BY ZenonT(60) DEF ToolTypeOK
  <2>2. (Uniquely /\ HasLine /\ NeedsTarget /\ NotLaunched /\ Resolved)'
    BY DEF ToolTypeOK, Uniquely, HasLine, NeedsTarget, NotLaunched, Resolved, AsNamed,
           Unminted, Preparing, Supervising
  <2>3. (Guarded /\ HasConfirmed /\ OnTarget /\ FilesInPlace)'
    BY DEF ToolTypeOK, NeedsTarget, NotLaunched, Resolved, Guarded, AsNamed, RunsOnTarget, HasConfirmed, OnTarget,
           FilesInPlace, Unminted, Preparing, Supervising
  <2> QED  BY <2>1, <2>2, <2>3
<1>14. CASE Killed
  <2> USE <1>14 DEF Killed, Running
  <2>1. ToolTypeOK'
    BY DEF ToolTypeOK
  <2>2. (Uniquely /\ HasLine /\ NeedsTarget /\ NotLaunched /\ Resolved)'
    BY DEF ToolTypeOK, Uniquely, HasLine, NeedsTarget, NotLaunched, Resolved, AsNamed,
           Unminted, Preparing, Supervising
  <2>3. (Guarded /\ HasConfirmed /\ OnTarget /\ FilesInPlace)'
    BY DEF ToolTypeOK, NeedsTarget, NotLaunched, Resolved, Guarded, AsNamed, RunsOnTarget, HasConfirmed, OnTarget,
           FilesInPlace, Unminted, Preparing, Supervising
  <2> QED  BY <2>1, <2>2, <2>3
<1>15. CASE Rename
  <2> USE <1>15, ToolAssumption DEF Rename, Change
  <2>1. ToolTypeOK'
    BY DEF ToolTypeOK
  <2>2. (Uniquely /\ HasLine /\ NeedsTarget /\ NotLaunched /\ Resolved)'
    BY DEF ToolTypeOK, Uniquely, HasLine, NeedsTarget, NotLaunched, Resolved, AsNamed,
           Unminted, Preparing, Supervising
  <2>3. (Guarded /\ HasConfirmed /\ OnTarget /\ FilesInPlace)'
    BY DEF ToolTypeOK, NeedsTarget, NotLaunched, Resolved, Guarded, AsNamed, RunsOnTarget, HasConfirmed, OnTarget,
           FilesInPlace, Unminted, Preparing, Supervising
  <2> QED  BY <2>1, <2>2, <2>3
<1>16. CASE Select
  <2> USE <1>16, ToolAssumption DEF Select, Change
  <2>1. ToolTypeOK'
    BY DEF ToolTypeOK
  <2>2. (Uniquely /\ HasLine /\ NeedsTarget /\ NotLaunched /\ Resolved)'
    BY DEF ToolTypeOK, Uniquely, HasLine, NeedsTarget, NotLaunched, Resolved, AsNamed,
           Unminted, Preparing, Supervising
  <2>3. (Guarded /\ HasConfirmed /\ OnTarget /\ FilesInPlace)'
    BY DEF ToolTypeOK, NeedsTarget, NotLaunched, Resolved, Guarded, AsNamed, RunsOnTarget, HasConfirmed, OnTarget,
           FilesInPlace, Unminted, Preparing, Supervising
  <2> QED  BY <2>1, <2>2, <2>3
<1>17. CASE UNCHANGED toolVars
  <2> USE <1>17 DEF toolVars
  <2>1. ToolTypeOK'
    BY DEF ToolTypeOK
  <2>2. (Uniquely /\ HasLine /\ NeedsTarget /\ NotLaunched /\ Resolved)'
    BY DEF ToolTypeOK, Uniquely, HasLine, NeedsTarget, NotLaunched, Resolved, AsNamed,
           Unminted, Preparing, Supervising
  <2>3. (Guarded /\ HasConfirmed /\ OnTarget /\ FilesInPlace)'
    BY DEF ToolTypeOK, NeedsTarget, NotLaunched, Resolved, Guarded, AsNamed, RunsOnTarget, HasConfirmed, OnTarget,
           FilesInPlace, Unminted, Preparing, Supervising
  <2> QED  BY <2>1, <2>2, <2>3
<1> QED  BY <1>1, <1>2, <1>3, <1>4, <1>5, <1>6, <1>7, <1>8, <1>9, <1>10, <1>11, <1>12, <1>13, <1>14, <1>15, <1>16, <1>17 DEF ToolNext, ToolStep

\* ToolInv is what every run of a tool keeps.
THEOREM ToolCorrect == ToolSpec => []ToolInv
<1> QED  BY ToolInitInv, ToolStepInv, PTL DEF ToolSpec

\* Every variable of a tool's run has its type (targets.py 348-442, native/runner.py 247-275).
LEMMA ToolTypes == ToolSpec => []ToolTypeOK
<1>1. ToolInv => ToolTypeOK
  BY DEF ToolInv
<1> QED  BY <1>1, ToolCorrect, PTL

\* A tool only works on the repository that had the resolved, given and confirmed name when
\* its token was minted (targets.py 348-442, native/runner.py 247-275, oci/runner.py
\* 81-245).
THEOREM ToolWorksOnShown == ToolSpec => []WorksOnShown
<1>1. ToolInv => WorksOnShown
  BY DEF ToolInv, Guarded, RunsOnTarget, HasConfirmed, OnTarget, AsNamed, WorksOnShown, Reads
<1> QED  BY <1>1, ToolCorrect, PTL

\* Credential files exist while the tool is waited for, and are gone at any end but a kill
\* (native/runner.py 158-172, oci/runner.py 374-460).
THEOREM ToolCredentials == ToolSpec => []CredentialsWithRun
<1>1. ToolInv => CredentialsWithRun
  BY DEF ToolInv, FilesInPlace, Supervising, CredentialsWithRun, Reads
<1> QED  BY <1>1, ToolCorrect, PTL
=============================================================================
