--------------------------- MODULE ToolArguments ---------------------------
(***************************************************************************)
(* What rvs reads from the arguments of a package tool (native/runner.py,  *)
(* oci/docker.py, helm.py and oras.py, publishing.py): the rights to mint, *)
(* the npm host to use, what to confirm and which files to show.  The      *)
(* tools are not rvs: the lines below are built from words and options     *)
(* whose meaning is known, so that the reading can be compared with it.    *)
(***************************************************************************)
EXTENDS NativeRouting

CONSTANT ToolSelects    \* files that the tool selects by itself

ReadOnly == {"read"}
ReadPublish == {"read", "publish"}
Operation == {"read", "publish", "delete"}

\* The options that are used below: rvs knows of the first that a value follows.
NpmValueOptions == {"--loglevel", "--tag", "--registry"}
DockerGlobalValues == {"--context", "--config"}
HelmValues == {"--namespace", "--registry-config"}
PypiValueOptions == {"--repository", "--repository-url", "--publish-url", "--index"}
RootFlags == {"--debug"}
PypiSwitches == {"--verbose"} \cup Attached(PypiValueOptions)
Options == {"--loglevel", "--tag", "--context", "--namespace", "--repository", "--debug",
            "--verbose", "--push", "--oci-layout", "--comment", "--global", "--quiet",
            "--version", "--omit", "--projects", "--directory", "--cache-dir", "--builder",
            "--platform", "--artifact-type"}
           \cup UNION {RegistryOptions(name, TRUE) \cup Attached(RegistryOptions(name, TRUE)) :
                        name \in {"pip", "uv", "twine", "npm", "mvn", "docker", "helm"}}

IndexOf(argv, words) == {i \in DOMAIN argv : argv[i] \in words}
After(argv, word) ==
    LET at == IndexOf(argv, {word})
    IN IF at = {} THEN <<>> ELSE SubSeq(argv, Min(at) + 1, Len(argv))

-----------------------------------------------------------------------------
(* npm *)

\* Mutant: takes the value of an option for a word.
NpmWordsOnly(argv) == SelectSeq(argv, LAMBDA a : a \notin Options)

NpmPositionals(argv) ==
    FoldLeft(LAMBDA read, a :
                CASE read.skip -> [read EXCEPT !.skip = FALSE]
                  [] ~read.skip /\ a \in NpmValueOptions -> [read EXCEPT !.skip = TRUE]
                  [] ~read.skip /\ a \notin Options -> [read EXCEPT !.words = Append(@, a)]
                  [] OTHER -> read,
             [skip |-> FALSE, words |-> <<>>], argv).words

Nth(words, n) == IF n <= Len(words) THEN words[n] ELSE ""
First(words, n) == SubSeq(words, 1, Min({n, Len(words)}))
NpmCommand(argv) ==
    LET first == Nth(NpmPositionals(argv), 1)
    IN IF first = "dist-tags" THEN "dist-tag" ELSE first

NpmDistTagAdd == {"add", "a", "set", "s"}
NpmDistTagRemove == {"rm", "r", "del", "d", "remove"}
NpmDistTagAction(argv) ==
    LET sub == Nth(NpmPositionals(argv), 2)
    IN CASE NpmCommand(argv) # "dist-tag" -> "none"
         [] sub \in NpmDistTagAdd -> "add"
         [] sub \in NpmDistTagRemove -> "rm"
         [] OTHER -> "ls"

\* Moving latest and removing a tag are confirmed; a --tag is the tag to move if no other
\* is given, and neither the environment nor a default names another than latest.
NpmDistTagConfirmation(argv) ==
    LET words == NpmPositionals(argv)
        tag == IF Nth(words, 4) # "" THEN Nth(words, 4)
               ELSE IF After(argv, "--tag") # <<>> THEN After(argv, "--tag")[1] ELSE "latest"
    IN CASE NpmDistTagAction(argv) = "add" -> Nth(words, 3) # "" /\ tag = "latest"
         [] NpmDistTagAction(argv) = "rm" -> Nth(words, 3) # "" /\ Nth(words, 4) # ""
         [] OTHER -> FALSE

NpmIsMutation(argv) ==
    \/ NpmDistTagAction(argv) \in {"add", "rm"}
    \/ NpmCommand(argv) \in {"unpublish", "deprecate", "undeprecate"}

\* _inject_npm_override: the host that the registry option names.
NpmUploads(argv) == NpmCommand(argv) = "publish" \/ NpmIsMutation(argv)

-----------------------------------------------------------------------------
(* mvn, docker, helm and oras *)

MavenGoal(word) == IF word = "deploy:deploy-file" THEN "deploy-file" ELSE word
MavenIsUpload(argv) ==
    \E i \in DOMAIN argv : argv[i] \notin Options
                           /\ MavenGoal(argv[i]) \in {"deploy", "deploy-file"}

\* The arguments after the global options.
AfterGlobals(argv, values, flags) ==
    FoldLeft(LAMBDA read, a :
                CASE read.rest # <<>> -> [read EXCEPT !.rest = Append(@, a)]
                  [] read.rest = <<>> /\ read.skip -> [read EXCEPT !.skip = FALSE]
                  [] read.rest = <<>> /\ ~read.skip /\ a \in values -> [read EXCEPT !.skip = TRUE]
                  [] read.rest = <<>> /\ ~read.skip /\ a \in flags \cup Attached(values) -> read
                  [] OTHER -> [read EXCEPT !.rest = <<a>>],
             [skip |-> FALSE, rest |-> <<>>], argv).rest

DockerCommand(argv) ==
    LET rest == AfterGlobals(argv, DockerGlobalValues, RootFlags)
        groups == {"image", "buildx", "manifest"}
    IN First(rest, IF First(rest, 2) = <<"buildx", "imagetools">> THEN 3
                       ELSE IF Nth(rest, 1) \in groups THEN 2 ELSE 1)
DockerPublishing(argv) ==
    \/ DockerCommand(argv) \in {<<"push">>, <<"image", "push">>, <<"manifest", "push">>,
                                <<"buildx", "imagetools", "create">>}
    \/ /\ DockerCommand(argv) \in {<<"build">>, <<"image", "build">>, <<"buildx", "build">>}
       /\ IndexOf(argv, {"--push"}) # {}

\* A short image name is tagged with the full one, before a push or instead of it.
Tagging(argv) ==
    LET command == DockerCommand(argv)
    IN CASE command \in {<<"push">>, <<"image", "push">>} -> "first"
         [] command \in {<<"tag">>, <<"image", "tag">>} -> "only"
         [] OTHER -> "no"

\* Options may stand anywhere in a helm line: its command is the first word.
HelmCommand(argv) == Nth(AfterGlobals(argv, HelmValues, RootFlags), 1)

\* The commands whose operands may be short names.
ShortNames(name, argv) ==
    \/ /\ name = "docker"
       /\ DockerCommand(argv) \in UNION {{<<c>>, <<"image", c>>} : c \in {"push", "pull", "tag"}}
    \/ /\ name = "helm"
       /\ HelmCommand(argv) \in {"push", "pull", "install", "upgrade", "show", "template"}

OrasCommand(argv) ==
    LET rest == AfterGlobals(argv, {}, RootFlags)
    IN First(rest, IF First(rest, 2) = <<"manifest", "index">> THEN 3
                       ELSE IF Nth(rest, 1) \in {"manifest", "blob", "repo"} THEN 2 ELSE 1)
OrasPublishing(argv) ==
    OrasCommand(argv) \in {<<"push">>, <<"cp">>, <<"copy">>, <<"attach">>, <<"tag">>,
        <<"manifest", "push">>, <<"blob", "push">>, <<"restore">>,
        <<"manifest", "index", "create">>, <<"manifest", "index", "update">>}
OrasDeleting(argv) == OrasCommand(argv) \in {<<"manifest", "delete">>, <<"blob", "delete">>}
OrasLocalOnly(argv) ==
    \/ IndexOf(argv, {"--version"}) # {}
    \/ OrasCommand(argv) \in {<<>>, <<"version">>, <<"help">>, <<"completion">>}
    \/ /\ IndexOf(argv, {"--oci-layout"}) # {}
       /\ Nth(OrasCommand(argv), 1) \notin {"login", "logout", "cp", "copy"}

-----------------------------------------------------------------------------
(* Rights, questions and previews *)

Oci == {"docker", "helm", "oras"}
NativeTool == {"pip", "npm", "uv", "twine", "mvn"}

IsPublishing(name, argv) ==
    CASE name = "twine" -> IndexOf(argv, {"upload"}) # {}
      [] name = "uv" -> IndexOf(argv, {"publish"}) # {}
      [] name = "npm" -> NpmCommand(argv) = "publish"
      [] name = "mvn" -> MavenIsUpload(argv)
      [] name = "docker" -> DockerPublishing(argv)
      [] name = "helm" -> HelmCommand(argv) = "push"
      [] name = "oras" -> OrasPublishing(argv)
      [] OTHER -> FALSE

\* twine has the right to publish whatever it does.
OperationsFor(name, argv) ==
    CASE name = "twine" -> {"publish"}
      [] name \in {"uv", "npm"} /\ IsPublishing(name, argv) -> {"publish"}
      [] name = "npm" /\ NpmCommand(argv) = "unpublish" -> Operation
      [] name = "npm" /\ NpmCommand(argv) # "unpublish" /\ NpmIsMutation(argv) -> ReadPublish
      [] name = "mvn" /\ MavenIsUpload(argv) -> ReadPublish
      [] name = "oras" /\ OrasDeleting(argv) -> {"read", "delete"}
      [] name \in Oci /\ IsPublishing(name, argv) -> ReadPublish
      [] OTHER -> ReadOnly

Local(name, argv) ==
    \/ name = "oras" /\ OrasLocalOnly(argv)
    \/ name \in NativeTool /\ argv = <<"--version">>
Asks(name, argv) == IsPublishing(name, argv) \/ (name = "npm" /\ NpmDistTagConfirmation(argv))

\* native_artifacts: the files that a publisher of Python packages is shown.
Shown(name, argv) ==
    LET read == FoldLeft(LAMBDA seen, a :
                    CASE seen.skip -> [seen EXCEPT !.skip = FALSE]
                      [] ~seen.skip /\ a \in PypiValueOptions -> [seen EXCEPT !.skip = TRUE]
                      [] ~seen.skip /\ a \in PypiSwitches -> seen
                      [] ~seen.skip /\ a \in Options \ (PypiValueOptions \cup PypiSwitches) ->
                            [seen EXCEPT !.known = FALSE]
                      [] OTHER -> [seen EXCEPT !.files = @ \cup {a}],
                    [skip |-> FALSE, known |-> IndexOf(argv, {"--directory"}) = {}, files |-> {}],
                    After(argv, IF name = "uv" THEN "publish" ELSE "upload"))
    IN IF name \in {"uv", "twine"} /\ read.known /\ read.files # {} THEN read.files ELSE ToolSelects

-----------------------------------------------------------------------------
(* The lines, and what they mean to the tool that gets them *)

\* Words, and per tool the options that it takes after so many of them.
ToolWords(name) ==
    CASE name = "pip" -> {<<"install", "publish">>}
      [] name = "npm" ->
            {<<"install", "publish">>, <<"publish">>, <<"publish", "file">>, <<"unpublish", "pkg">>,
             <<"deprecate", "pkg">>, <<"dist-tag">>, <<"dist-tags", "pkg">>}
            \cup {<<d, a>> \o s : d \in {"dist-tag", "dist-tags"}, a \in {"add", "set", "rm", "del", "ls"},
                                  s \in {<<>>, <<"pkg">>, <<"pkg", "latest">>, <<"pkg", "beta">>}}
      [] name = "uv" -> {<<"add", "pkg">>, <<"publish">>, <<"publish", "file">>}
      [] name = "twine" -> {<<"upload", "file">>, <<"upload", "file", "other">>, <<"check", "file">>}
      [] name = "mvn" -> {<<"package">>, <<"package", "deploy">>, <<"deploy:deploy-file">>}
      [] name = "docker" ->
            {<<"push", "image">>, <<"image", "push", "image">>, <<"manifest", "push", "image">>,
             <<"buildx", "imagetools", "create">>, <<"buildx", "build", "--push">>,
             <<"build", "--push">>, <<"build", "push">>,
             <<"pull", "image">>, <<"tag", "image", "push">>, <<"buildx", "ls">>}
      [] name = "helm" -> {<<"push", "file">>, <<"pull", "push">>, <<"install", "push">>}
      [] name = "oras" ->
            {<<"push", "file">>, <<"cp", "image">>, <<"manifest", "delete", "image">>,
             <<"manifest", "index", "create">>, <<"blob", "delete", "image">>, <<"pull", "push">>,
             <<"discover", "--oci-layout">>, <<"repo", "ls">>, <<"version">>}
CommandLength(words) ==
    CASE First(words, 2) \in {<<"buildx", "imagetools">>, <<"manifest", "index">>} -> 3
      [] words[1] \in {"image", "buildx", "manifest", "blob", "repo"} /\ Nth(words, 2) # "index"
            /\ Nth(words, 2) # "imagetools" -> 2
      [] OTHER -> 1
OptionsAt(name, words, place) ==
    LET inside == place < CommandLength(words)
    IN CASE name = "npm" -> {<<"--loglevel", "publish">>, <<"--tag", "beta">>, <<"--global">>,
                             <<"--omit", "publish">>}
         [] name = "pip" -> {<<"--quiet">>}
         [] name = "mvn" -> {<<"--quiet">>, <<"--projects", "deploy">>}
         [] name = "helm" -> {<<"--namespace", "push">>, <<"--debug">>}
         [] name = "uv" /\ place = 0 -> {<<"--verbose">>, <<"--directory", "publish">>,
                                         <<"--cache-dir", "publish">>}
         [] name \in {"uv", "twine"} /\ place > 0 -> {<<"--repository", "publish">>, <<"--verbose">>,
                                                      <<"--comment", "upload">>}
         [] name = "docker" /\ place = 0 -> {<<"--context", "push">>, <<"--debug">>}
         [] name = "docker" /\ place > 0 /\ inside /\ words[1] = "buildx" -> {<<"--builder", "push">>}
         [] name = "docker" /\ ~inside /\ "build" \in Range(words) -> {<<"--tag", "push">>}
         [] name = "docker" /\ ~inside /\ words[1] \in {"push", "pull", "image"} ->
                {<<"--platform", "push">>, <<"--quiet">>}
         [] name = "oras" /\ inside -> {<<"--debug">>}
         [] name = "oras" /\ ~inside -> {<<"--debug">>, <<"--artifact-type", "delete">>}
         [] OTHER -> {}
Elsewhere(name, publishing) ==
    LET options == RegistryOptions(name, publishing)
    IN {<<option, "users">> : option \in options} \cup {<<option>> : option \in Attached(options \ {"-i", "-s"})}
ElsewhereAt(name, words) ==
    CASE name = "docker" -> {0}
      [] name = "oras" -> {Len(words)}
      [] name \in {"uv", "twine"} -> 1..Len(words)
      [] OTHER -> 0..Len(words)

Line(name, words, options, place, mirrors) ==
    [name |-> name, words |-> words, options |-> options, place |-> place, mirrors |-> mirrors,
     argv |-> First(words, place) \o options \o SubSeq(words, place + 1, Len(words))]
LinesOf(name, words) ==
    {Line(name, words, <<>>, 0, mirrors) : mirrors \in IF name = "mvn" THEN Mirrors ELSE {<<>>}}
    \cup UNION {{Line(name, words, option, place, <<>>) : option \in OptionsAt(name, words, place)} :
                    place \in 0..Len(words)}
    \cup {Line(name, words, option, place, <<>>) :
            option \in Elsewhere(name, words[1] = "publish"), place \in ElsewhereAt(name, words)}
Lines == UNION {UNION {LinesOf(name, words) : words \in ToolWords(name) \cup {<<"--version">>}} :
                name \in Oci \cup NativeTool}

\* The rights that the tool's own reading of the words needs.
Needs(line) ==
    LET w == line.words
    IN CASE w = <<"--version">> -> {}
         [] line.name = "npm" /\ w[1] = "publish" -> {"publish"}
         [] line.name = "npm" /\ w[1] = "unpublish" -> Operation
         [] line.name = "npm" /\ w[1] = "deprecate" -> ReadPublish
         [] line.name = "npm" /\ w[1] \in {"dist-tag", "dist-tags"} ->
                IF Nth(w, 2) \in {"add", "set", "rm", "del"} THEN ReadPublish ELSE ReadOnly
         [] line.name = "uv" /\ w[1] = "publish" -> {"publish"}
         [] line.name = "twine" /\ w[1] = "check" -> {}
         [] line.name = "twine" /\ w[1] = "upload" -> {"publish"}
         [] line.name = "mvn" /\ w \in {<<"package", "deploy">>, <<"deploy:deploy-file">>} -> ReadPublish
         [] line.name = "docker" ->
                IF \/ w[1] = "push" \/ Nth(w, 3) = "create" \/ "--push" \in Range(w)
                   \/ w[1] \in {"image", "manifest"} /\ Nth(w, 2) = "push"
                THEN ReadPublish ELSE ReadOnly
         [] line.name = "helm" -> IF w[1] = "push" THEN ReadPublish ELSE ReadOnly
         [] line.name = "oras" ->
                IF w \in {<<"version">>, <<"discover", "--oci-layout">>} THEN {}
                ELSE IF w[1] \in {"push", "cp"} \/ Nth(w, 2) = "index" THEN ReadPublish
                ELSE IF Nth(w, 2) = "delete" THEN {"read", "delete"} ELSE ReadOnly
         [] OTHER -> ReadOnly

\* A publication, a moved latest and a removed tag.
Asked(line) ==
    LET w == line.words
        beta == line.options = <<"--tag", "beta">>
    IN CASE line.name = "npm" /\ w[1] \in {"dist-tag", "dist-tags"} ->
              \/ Nth(w, 2) \in {"add", "set"} /\ Len(w) > 2 /\ (Nth(w, 4) = "latest" \/ (Len(w) = 3 /\ ~beta))
              \/ Nth(w, 2) \in {"rm", "del"} /\ Len(w) > 3
         [] line.name = "npm" -> w[1] = "publish"
         [] OTHER -> "publish" \in Needs(line)

\* The files a Python tool uploads, if its words name any.
Uploaded(line) ==
    IF line.name \in {"uv", "twine"} /\ Len(line.words) > 1
    THEN {line.words[i] : i \in 2..Len(line.words)} ELSE ToolSelects

\* The registry that the tool works with, and whether the mirrors of other repositories are
\* as the user set them.
WorksWith(line) ==
    IF line.name = "mvn" /\ CentralUses(line.mirrors) # "target" THEN "users"
    ELSE Uses(line.name, IsPublishing(line.name, line.argv), line.argv)

\* Lines that rvs may read otherwise than the tool: it takes the value of an option that it
\* does not list for a word - npm's before the command or in a change of a tag, uv's before
\* its command - or an option between the words of a docker or oras command for one of them.
Misread(line) ==
    \/ /\ line.options = <<"--omit", "publish">>
       /\ line.place = 0 \/ line.words = <<"--version">>
                         \/ Nth(line.words, 2) \in {"add", "set", "rm", "del"}
    \/ line.options = <<"--cache-dir", "publish">>
    \/ /\ line.name \in {"docker", "oras"} /\ line.options # <<>>
       /\ line.place \in 1..(CommandLength(line.words) - 1)

\* pip keeps its own registry if that stands before its command.
Routed(line) == line.name # "pip" \/ line.argv[1] \notin Options \ {"--quiet"}

\* What rvs makes of a line, and what the tool makes of it.  For uv, twine and mvn rvs looks
\* for a word anywhere, and may take too much for a publication.
Reading(line) ==
    [family |-> IF line.name \in Oci THEN "oci" ELSE "native",
     local |-> Local(line.name, line.argv),
     rights |-> OperationsFor(line.name, line.argv),
     asks |-> Asks(line.name, line.argv),
     uploads |-> line.name = "npm" /\ NpmUploads(line.argv),
     tags |-> IF line.name # "docker" THEN "no" ELSE Tagging(line.argv),
     shown |-> Shown(line.name, line.argv),
     short |-> ShortNames(line.name, line.argv), goes |-> WorksWith(line), keeps |-> OthersKeep(line.mirrors)]
Meaning(line) ==
    [misread |-> Misread(line), needs |-> Needs(line), asked |-> Asked(line), exact |-> line.name \notin {"uv", "twine", "mvn"},
     uploads |-> line.name = "npm" /\ "publish" \in Needs(line), files |-> Uploaded(line),
     routed |-> Routed(line), shadowed |-> Shadowed(line.mirrors)]
Understood == {[reading |-> Reading(line), meaning |-> Meaning(line)] : line \in Lines}
=============================================================================
