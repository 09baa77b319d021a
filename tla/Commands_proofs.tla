-------------------------- MODULE Commands_proofs --------------------------
(***************************************************************************)
(* What holds of every run of Commands because it holds of its parts.      *)
(***************************************************************************)
EXTENDS Commands, ToolRun_proofs, ServiceCommands_proofs, PackageCommands_proofs

\* Whatever rvs does besides, each of its commands takes only its own steps.
LEMMA PartsApart ==
    Spec => /\ RequestSpec /\ ListingSpec /\ PollSpec /\ EvidenceSpec /\ ToolSpec
            /\ ManagedSpec /\ WindowsSpec /\ RuntimeSpec /\ StoresSpec /\ ReleaseSpec
<1> USE DEF vars, serviceVars, packageVars, evidenceVars, toolVars, runtimeVars, OnlyRequest, OnlyListing,
            OnlyPoll, OnlyEvidence, OnlyTool, OnlyManaged, OnlyWindows, OnlyRuntime, OnlyStores,
            OnlyReleases
<1>1. Init => /\ RequestInit /\ ListingInit /\ PollInit /\ EvidenceInit /\ ToolInit
              /\ ManagedInit /\ WindowsInit /\ RuntimeInit /\ StoresInit /\ ReleaseInit
  BY DEF Init
<1>2. [Next]_vars => [RequestNext]_request
  BY DEF Next, Begin, Step, Others, RequestNext
<1>3. [Next]_vars => [PollNext]_poll
  BY DEF Next, Begin, Step, Others, PollNext
<1>4. [Next]_vars => [EvidenceNext]_evidenceVars
  BY DEF Next, Begin, Step, Others, EvidenceNext
<1>5. [Next]_vars => [ToolNext]_toolVars
  BY DEF Next, Begin, Step, Others, ToolNext
<1>6. [Next]_vars => [ManagedNext]_managed
  BY DEF Next, Begin, Step, Others, ManagedNext
<1>7. [Next]_vars => [WindowsNext]_windows
  BY DEF Next, Begin, Step, Others, WindowsNext
<1>8. [Next]_vars => [RuntimeNext]_runtimeVars
  BY DEF Next, Begin, Step, Others, RuntimeNext
<1>9. [Next]_vars => [ReleaseNext]_releaseVars
  BY DEF Next, Begin, Step, Others, ReleaseNext
<1>10. [Next]_vars => [ListingNext]_listing
  BY DEF Next, Begin, Step, Others, ListingNext
<1>11. [Next]_vars => [StoresNext]_storesVars
  BY DEF Next, Begin, Step, Others, StoresNext
<1> QED
  BY <1>1, <1>2, <1>3, <1>4, <1>5, <1>6, <1>7, <1>8, <1>9, <1>10, <1>11, PTL
  DEF Spec, RequestSpec, ListingSpec, PollSpec, EvidenceSpec, ToolSpec, ManagedSpec, WindowsSpec,
      RuntimeSpec, StoresSpec, ReleaseSpec

\* So what is proved of each of them holds of rvs: of its requests, listings, logins, evidence
\* and tool runs, its updates, the releases they take, its runtimes and credential stores.
THEOREM CommandsCorrect ==
    Spec => [](/\ SentSafely /\ ListingExact /\ PollsOnTime /\ StoredAsDeclared
               /\ WorksOnShown /\ CredentialsWithRun
               /\ ManagedKept /\ WindowsKept /\ RuntimesWhole
               /\ EntriesKept /\ ManifestsFresh /\ ReleaseChosen)
  BY PartsApart, SendsSafely, ListsExactly, PollsInTime, StoresAsDeclared, ToolWorksOnShown,
     ToolCredentials, ManagedStaysKept, WindowsStaysKept, RuntimesStayWhole, StoresKeepEntries,
     ManifestsStayFresh, TakesChosen, PTL

\* Every variable of rvs has its type, whatever its services, stores, package managers and
\* other processes do: no request, listing, wait, staging, tool run, update, runtime or
\* store of its modules ever gets into a state that the code has no name for.
THEOREM TypeCorrect == Spec => []TypeOK
<1>1. /\ RequestTypeOK /\ ListingTypeOK /\ PollTypeOK /\ EvidenceTypeOK /\ ToolTypeOK
      /\ ManagedTypeOK /\ WindowsTypeOK /\ RuntimeTypeOK /\ StoresTypeOK /\ ReleaseTypeOK
      => TypeOK
  BY DEF TypeOK
<1> QED
  BY <1>1, PartsApart, RequestTypes, ListingTypes, PollTypes, EvidenceTypes, ToolTypes, ManagedTypes,
     WindowsTypes, RuntimeTypes, StoresTypes, ReleaseTypes, PTL
=============================================================================
