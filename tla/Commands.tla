------------------------------ MODULE Commands ------------------------------
(***************************************************************************)
(* One rvs command at a time, of those that talk to the service or change  *)
(* the installed programs: a request, a listing, the wait for a login's    *)
(* approval, evidence, a tool run, an update through a package manager or  *)
(* on Windows; and logins and logouts at the credential stores, checks for *)
(* updates and the runtime commands, two at a time.                        *)
(***************************************************************************)
EXTENDS ApiRequest, Listing, DevicePoll, Evidence, ToolRun, ManagedUpdate, WindowsUpdate,
        RuntimeInstall, CredentialStores, ReleaseChoice

serviceVars == <<request, listing, poll, evidenceVars, toolVars>>
packageVars == <<managed, windows, runtimeVars, storesVars, releaseVars>>
vars == <<serviceVars, packageVars>>

Init == /\ RequestInit /\ ListingInit /\ PollInit /\ EvidenceInit /\ ToolInit
        /\ ManagedInit /\ WindowsInit /\ RuntimeInit /\ StoresInit /\ ReleaseInit

Ready == /\ request = NoRequest /\ listing = NoListing /\ poll = NoPoll
         /\ evidence = NoEvidence /\ tool = NoTool
         /\ managed.at = "idle" /\ windows = NoWindows /\ commands = 0
         /\ logins = 0 /\ checks = 0 /\ choice = NoChoice

OnlyRequest == UNCHANGED <<listing, poll, evidenceVars, toolVars, packageVars>>
OnlyListing == UNCHANGED <<request, poll, evidenceVars, toolVars, packageVars>>
OnlyPoll == UNCHANGED <<request, listing, evidenceVars, toolVars, packageVars>>
OnlyEvidence == UNCHANGED <<request, listing, poll, toolVars, packageVars>>
OnlyTool == UNCHANGED <<request, listing, poll, evidenceVars, packageVars>>
OnlyManaged == UNCHANGED <<serviceVars, windows, runtimeVars, storesVars, releaseVars>>
OnlyWindows == UNCHANGED <<serviceVars, managed, runtimeVars, storesVars, releaseVars>>
OnlyRuntime == UNCHANGED <<serviceVars, managed, windows, storesVars, releaseVars>>
OnlyStores == UNCHANGED <<serviceVars, managed, windows, runtimeVars, releaseVars>>
OnlyReleases == UNCHANGED <<serviceVars, managed, windows, runtimeVars, storesVars>>

Begin ==
    /\ Ready
    /\ \/ RequestBegin /\ OnlyRequest
       \/ ListingBegin /\ OnlyListing
       \/ PollBegin /\ OnlyPoll
       \/ EvidenceBegin /\ OnlyEvidence
       \/ ToolBegin /\ OnlyTool
       \/ ManagedBegin /\ OnlyManaged
       \/ WindowsBegin /\ OnlyWindows
       \/ RuntimeOthers /\ OnlyRuntime
       \/ StoresOthers /\ OnlyStores
       \/ ReleaseOthers /\ OnlyReleases

\* What rvs does by itself ...
Step ==
    \/ RequestStep /\ OnlyRequest
    \/ ListingStep /\ OnlyListing
    \/ PollStep /\ OnlyPoll
    \/ EvidenceStep /\ OnlyEvidence
    \/ ToolStep /\ OnlyTool
    \/ ManagedStep /\ OnlyManaged
    \/ WindowsStep /\ OnlyWindows
    \/ RuntimeStep /\ OnlyRuntime
    \/ StoresStep /\ OnlyStores
    \/ ReleaseStep /\ OnlyReleases

\* ... and what users, tools and other programs do.
Others ==
    \/ (\E f \in File : Edit(f)) /\ OnlyEvidence
    \/ (Confirm \/ ChildEnds \/ Interrupt \/ Killed \/ Rename \/ Select) /\ OnlyTool
    \/ (Agree \/ ManagedKilled \/ UpgradedElsewhere) /\ OnlyManaged
    \/ (WindowsKilled \/ HelperKilled) /\ OnlyWindows
    \/ windows # NoWindows /\ WindowsBegin /\ OnlyWindows
    \/ commands # 0 /\ RuntimeOthers /\ OnlyRuntime
    \/ logins # 0 /\ StoresOthers /\ OnlyStores
    \/ (checks # 0 \/ choice # NoChoice) /\ ReleaseOthers /\ OnlyReleases

Next == Begin \/ Step \/ Others
Spec == Init /\ [][Next]_vars /\ WF_vars(Step)

-----------------------------------------------------------------------------
\* Every variable has its type.
TypeOK ==
    /\ RequestTypeOK /\ ListingTypeOK /\ PollTypeOK /\ EvidenceTypeOK /\ ToolTypeOK
    /\ ManagedTypeOK /\ WindowsTypeOK /\ RuntimeTypeOK /\ StoresTypeOK /\ ReleaseTypeOK

\* Every command comes to its end by itself, against a service that loses, limits and
\* repeats its answers without end; it may wait for the user or for a tool.
Resting ==
    /\ request.at \in {"idle", "done", "failed"}
    /\ listing.at \in {"idle", "done", "failed"}
    /\ poll.at \in {"idle", "approved", "expired", "failed"}
    /\ evidence.at \in {"idle", "done", "failed"}
    /\ tool.at \in {"idle", "confirm", "wait", "ended"}
    /\ managed.at \in {"idle", "confirm", "ended"}
    /\ windows.rvs \in {"idle", "exited"} /\ windows.helper = "none"
    /\ \A r \in Runner : job[r] = NoJob
    /\ \A w \in Worker : worker[w] = NoWork
    /\ \A c \in Checker : check[c].at \in {"idle", "accepted", "refused"}
    /\ choice.at \in {"none", "handed", "failed"}
CommandsEnd == <>[]Resting
=============================================================================
