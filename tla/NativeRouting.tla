--------------------------- MODULE NativeRouting ---------------------------
(***************************************************************************)
(* How rvs makes a package tool use the selected target (rvs/native/       *)
(* runner.py _inject_*, oci/docker.py, helm.py and oras.py): options that  *)
(* name another registry, settings file or credential store are taken out  *)
(* of the line, those of the run are put in or set in the environment, and *)
(* the mirrors of the user's Maven settings give way for Central and the   *)
(* target.  How the tools choose between them is theirs, not rvs's.        *)
(***************************************************************************)
EXTENDS Naturals, SequencesExt

\* Options that name a registry, per tool; those of mvn, docker, helm and oras name the
\* file that the registries or their credentials come from.  uv has one set to install
\* from and one to publish to.
RegistryOptions(name, publishing) ==
    CASE name = "pip" -> {"--index-url", "-i"}
      [] name = "uv" -> {"--default-index", "--index-url"}
                        \cup IF publishing THEN {"--publish-url", "--index"} ELSE {}
      [] name = "twine" -> {"--repository-url"}
      [] name = "npm" -> {"--registry"}
      [] name = "mvn" -> {"--settings", "-s"}
      [] name = "docker" -> {"--config"}
      [] OTHER -> {"--registry-config"}

\* A value may be attached to a long option.
Attached(options) == {option \o "=users" : option \in options}

\* Mutant: leaves an attached value.
WithoutPairs(argv, options) ==
    FoldLeft(LAMBDA read, a :
                CASE read.skip -> [read EXCEPT !.skip = FALSE]
                  [] ~read.skip /\ a \in options -> [read EXCEPT !.skip = TRUE]
                  [] OTHER -> [read EXCEPT !.kept = Append(@, a)],
             [skip |-> FALSE, kept |-> <<>>], argv).kept

Without(argv, options) ==
    FoldLeft(LAMBDA read, a :
                CASE read.skip -> [read EXCEPT !.skip = FALSE]
                  [] ~read.skip /\ a \in options -> [read EXCEPT !.skip = TRUE]
                  [] ~read.skip /\ a \in Attached(options) -> read
                  [] OTHER -> [read EXCEPT !.kept = Append(@, a)],
             [skip |-> FALSE, kept |-> <<>>], argv).kept

\* What the tool gets.  pip's own options stay when an option stands before the command;
\* npm's registry is an option again; the others are set in the environment or in options
\* that only rvs uses.
Sent(name, publishing, argv) ==
    LET options == RegistryOptions(name, publishing)
        clean == Without(argv, options)
    IN CASE name = "pip" /\ argv[1] \notin {"install", "download", "wheel", "index", "lock"} -> argv
         [] name = "pip" /\ argv[1] \in {"install", "download", "wheel", "index", "lock"} ->
                <<clean[1], "--index-url", "target">> \o Tail(clean)
         [] name = "npm" -> clean \o <<"--registry", "target">>
         [] name = "mvn" -> <<"--settings", "target">> \o clean
         [] OTHER -> clean

\* The tool takes the last of its options, else the environment, which names the target.
Uses(name, publishing, argv) ==
    LET options == RegistryOptions(name, publishing)
        sent == Sent(name, publishing, argv)
        places == {i \in DOMAIN sent : sent[i] \in options \cup Attached(options)}
    IN IF places = {} THEN "target"
       ELSE LET last == Max(places) IN IF sent[last] \in options THEN sent[last + 1] ELSE "users"

-----------------------------------------------------------------------------
(* Maven's mirrors: a settings file lists mirrors, each for a list of repositories *)

\* The settings of a user, as a sequence of mirrors, each a sequence of the repositories
\* that it stands in for.
Mirrors == {<<>>, <<<<"*">>>>, <<<<"central">>>>, <<<<"other", "central">>>>, <<<<"*", "!central">>>>,
            <<<<"other">>, <<"*">>>>, <<<<"*">>, <<"other">>>>, <<<<"central">>, <<"*">>>>}

Own == "rvs-id"    \* the random repository identity of this run

\* _ensure_maven_profile: every mirror gives up Central and the target, which go to a
\* mirror of the run, listed last.
MirrorsSent(mirrors) ==
    Append([i \in DOMAIN mirrors |->
               SelectSeq(mirrors[i], LAMBDA part : part \notin {"central", Own})
               \o <<"!central", "!" \o Own>>],
           <<"central">>)

\* Maven's choice for a repository: the first mirror for it alone, else the first whose
\* list admits it; a refusal in a list is final.
Admits(mirror, repository) ==
    /\ \E i \in DOMAIN mirror : mirror[i] \in {"*", repository}
    /\ ~\E i \in DOMAIN mirror : mirror[i] = "!" \o repository
MirrorFor(mirrors, repository) ==
    LET alone == {i \in DOMAIN mirrors : mirrors[i] = <<repository>>}
        admit == {i \in DOMAIN mirrors : Admits(mirrors[i], repository)}
    IN IF alone # {} THEN Min(alone) ELSE IF admit # {} THEN Min(admit) ELSE 0

\* Where Central and the target go, and whether another repository keeps its mirror.
CentralUses(mirrors) ==
    LET sent == MirrorsSent(mirrors)
    IN IF MirrorFor(sent, "central") = Len(sent) /\ MirrorFor(sent, Own) = 0 THEN "target" ELSE "users"
OthersKeep(mirrors) == MirrorFor(MirrorsSent(mirrors), "other") = MirrorFor(mirrors, "other")

\* A mirror for one repository alone behind one for all: it was the first choice, and as
\* a list with refusals it is not any more.
Shadowed(mirrors) ==
    LET alone == {i \in DOMAIN mirrors : mirrors[i] = <<"other">>}
    IN alone # {} /\ \E i \in 1..(Min(alone) - 1) : Admits(mirrors[i], "other")
=============================================================================
