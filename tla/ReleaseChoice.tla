--------------------------- MODULE ReleaseChoice ---------------------------
(***************************************************************************)
(* Which release rvs update takes (rvs/update.py, portable_update.py): the *)
(* signed channel manifest is fetched and checked - no older one than this *)
(* user has accepted, none that has expired - a release is chosen in it or *)
(* named as a candidate, and for a portable installation or a candidate    *)
(* its archive is downloaded, checked against the signed inventory and     *)
(* unpacked.  The publisher's server may answer with anything that was     *)
(* ever signed, and with things that were not.  Several commands check at  *)
(* once and share one file without a lock.  What a chosen release does to  *)
(* the installation is in PortableUpdate, WindowsUpdate and ManagedUpdate. *)
(*                                                                         *)
(* A version is <<major, minor, patch, final, rc>>; a channel is a major   *)
(* version, a minor line a pair.                                           *)
(***************************************************************************)
EXTENDS Naturals, Sequences, SequencesExt

CONSTANTS
    Checker,        \* commands that check for updates at once
    Release,        \* the releases there are, in their order
    Manifest,       \* the channel manifests that were signed
    Machine,        \* platforms an archive is built for
    MaxDay,         \* bound: the clock
    MaxChecks,      \* bound: checks in all
    NoRelease       \* nothing

ASSUME ReleaseAssumption ==
    /\ Release \in Seq([1..5 -> Nat])
    /\ \A m \in Manifest : {m.made, m.expires} \subseteq Nat
    /\ MaxDay \in Nat \ {0} /\ MaxChecks \in Nat

VARIABLES
    seen,       \* release-channels.json: when the newest accepted manifest was made
    check,      \* per command: its check
    choice,     \* the command that goes on after its check
    day, checks,
    newest,     \* history: when the newest manifest that was accepted was made
    lapsed      \* history: checks overlapped, or one could not read or write the file

releaseVars == <<seen, check, choice, day, checks, newest, lapsed>>

Versions == Range(Release)
NoCheck == [at |-> "idle", manifest |-> NoRelease, last |-> 0, floor |-> 0, judged |-> 0]
NoChoice == [at |-> "none", form |-> "portable", installed |-> NoRelease, current |-> 0,
             to |-> <<>>, manifest |-> NoRelease, version |-> NoRelease, machine |-> NoRelease,
             archive |-> NoRelease]

ReleaseInit ==
    /\ seen = 0 /\ newest = 0 /\ checks = 0 /\ lapsed = FALSE
    /\ day = 1
    /\ check = [c \in Checker |-> NoCheck]
    /\ choice = NoChoice

-----------------------------------------------------------------------------
(* Versions *)

Channel(v) == v[1]
Minor(v) == <<v[1], v[2]>>
IsCandidate(v) == v[4] = 0

\* version_key: a candidate comes before its release.  Debian's ~rc orders the same way.
Above(v, w) == \E i \in 1..5 : v[i] > w[i] /\ \A j \in 1..(i - 1) : v[j] = w[j]

ASSUME OrderAssumption == \A i, j \in DOMAIN Release : i < j => Above(Release[j], Release[i])

\* What is signed names releases.
ASSUME ManifestAssumption ==
    \A m \in Manifest : \A c \in DOMAIN m.channels :
        /\ m.channels[c].latest \in Versions
        /\ \A line \in DOMAIN m.channels[c].minors : m.channels[c].minors[line] \in Versions

-----------------------------------------------------------------------------
(* The manifest *)

\* Mutant: takes a minor line's target from anywhere in the channel.
ValidInChannel(m) ==
    /\ m.recommended \in DOMAIN m.channels
    /\ \A c \in DOMAIN m.channels :
           LET targets == m.channels[c].minors
           IN /\ Channel(m.channels[c].latest) = c
              /\ DOMAIN targets # {}
              /\ \A line \in DOMAIN targets : Channel(targets[line]) = c

\* Both readers: every release is of its channel and of its minor line.
Valid(m) ==
    /\ m.recommended \in DOMAIN m.channels
    /\ \A c \in DOMAIN m.channels :
           LET targets == m.channels[c].minors
           IN /\ Channel(m.channels[c].latest) = c
              /\ DOMAIN targets # {}
              /\ \A line \in DOMAIN targets :
                     Minor(targets[line]) = line /\ Channel(targets[line]) = c

CheckTo(c, rec) == check' = [check EXCEPT ![c] = rec]
Checking(c) == check[c].at \in {"compare", "remember"}

CheckBegin(c) ==
    /\ check[c] = NoCheck /\ checks < MaxChecks /\ choice = NoChoice
    /\ checks' = checks + 1
    /\ CheckTo(c, [NoCheck EXCEPT !.at = "fetch"])
    /\ UNCHANGED <<seen, choice, day, newest, lapsed>>

\* Whatever was signed by now may be served, or something that is not signed, or nothing.
Fetch(c) ==
    /\ check[c].at = "fetch"
    /\ \/ \E m \in Manifest : /\ m.made <= day /\ Valid(m)
                              /\ CheckTo(c, [check[c] EXCEPT !.at = "last", !.manifest = m])
       \/ CheckTo(c, [check[c] EXCEPT !.at = "refused"])
    /\ UNCHANGED <<seen, choice, day, checks, newest, lapsed>>

\* The clock and the file are read, which is as if there were none when it cannot be read or
\* is not what rvs wrote; a second check before the first has written overlaps.
ReadSeen(c) ==
    /\ check[c].at = "last"
    /\ \E read \in {seen, 0} :
        /\ CheckTo(c, [check[c] EXCEPT !.at = "compare", !.last = read, !.judged = day,
                                        !.floor = newest])
        /\ lapsed' = (lapsed \/ read # seen \/ \E d \in Checker \ {c} : Checking(d))
    /\ UNCHANGED <<seen, choice, day, checks, newest>>

\* check_manifest_freshness; a manifest that is new is remembered first.
Judge(c, new) ==
    /\ check[c].at = "compare"
    /\ LET m == check[c].manifest
           expired == m.expires <= m.made \/ m.expires <= check[c].judged
       IN CheckTo(c, [check[c] EXCEPT !.at = IF expired \/ m.made < check[c].last THEN "refused"
                                             ELSE IF new THEN "remember" ELSE "accepted"])
    /\ newest' = IF check'[c].at = "accepted" /\ check[c].manifest.made > newest
                 THEN check[c].manifest.made ELSE newest
    /\ UNCHANGED <<seen, choice, day, checks, lapsed>>

\* Mutant: remembers only the first manifest it sees.
CompareOnce(c) == Judge(c, check[c].last = 0)

Compare(c) == Judge(c, check[c].manifest.made > check[c].last)

\* _remember_generated_at: best effort; the manifest is accepted all the same.
Remember(c) ==
    /\ check[c].at = "remember"
    /\ LET made == check[c].manifest.made
       IN /\ \/ seen' = made /\ UNCHANGED lapsed
             \/ UNCHANGED seen /\ lapsed' = TRUE
          /\ newest' = IF made > newest THEN made ELSE newest
    /\ CheckTo(c, [check[c] EXCEPT !.at = "accepted"])
    /\ UNCHANGED <<choice, day, checks>>

-----------------------------------------------------------------------------
(* The choice *)

\* latest_for_channel, latest_for_minor: nothing from a channel that is not supported.
Supported(m, c) == c \in DOMAIN m.channels /\ m.channels[c].supported
LatestOf(m, c) == {m.channels[x].latest : x \in {y \in {c} : Supported(m, y)}}
LatestOfMinor(m, line) ==
    {m.channels[x].minors[line] : x \in {y \in {line[1]} : Supported(m, y) /\
                                             line \in DOMAIN m.channels[y].minors}}

\* _requested_target: the current channel, a channel that is not earlier, or a minor line
\* of one.
Requested(m, current, to) ==
    CASE to = <<>> -> LatestOf(m, current)
      [] Len(to) = 1 /\ to[1] >= current -> LatestOf(m, to[1])
      [] Len(to) = 2 /\ to[1] >= current -> LatestOfMinor(m, to)
      [] OTHER -> {}

\* An installation that is portable has a receipt, which must be that of the running
\* program and of this machine; brew and winget have no package of a minor line.
Installations == [form : {"portable", "nix", "series", "apt"}, installed : Versions,
                  machine : Machine]
Requests == {<<>>} \cup {<<Channel(v)>> : v \in Versions} \cup {Minor(v) : v \in Versions}

Chosen(i, current, to, m, v) ==
    choice' = [NoChoice EXCEPT !.form = i.form, !.installed = i.installed, !.current = current,
                 !.to = to, !.manifest = m, !.version = v, !.machine = i.machine,
                 !.at = IF i.form \in {"portable", "candidate"} THEN "download" ELSE "handed"]

\* One command's choice is enough: what it takes depends on its manifest alone.
FirstChoice == choice = NoChoice /\ checks = 1
Leaves(c) == CheckTo(c, NoCheck) /\ UNCHANGED <<seen, day, checks, newest, lapsed>>

\* _portable_update, _delegate_package_manager_update, _update_series and update itself: a
\* newer release, or the end.  The channel of an APT installation is that of its source.
Choose(c) ==
    /\ check[c].at = "accepted" /\ FirstChoice
    /\ \/ \E i \in Installations, to \in Requests, current \in {Channel(v) : v \in Versions} :
            LET m == check[c].manifest
            IN /\ i.form = "series" => Len(to) # 2
               /\ i.form # "apt" => current = Channel(i.installed)
               /\ \E v \in Requested(m, current, to) :
                      Above(v, i.installed) /\ Chosen(i, current, to, m, v)
       \/ UNCHANGED choice
    /\ Leaves(c)

\* A plain APT update without a manifest, or whose channel is not in it, takes what APT
\* offers of the channel - of any channel, if the source is not recognized (0).
ChooseOffered(c) ==
    /\ check[c].at \in {"refused", "accepted"} /\ FirstChoice
    /\ \/ \E i \in Installations, current \in {0} \cup {Channel(v) : v \in Versions}, v \in Versions :
            /\ i.form = "apt"
            /\ check[c].at = "accepted" => ~Supported(check[c].manifest, current)
            /\ Above(v, i.installed)
            /\ current # 0 => Channel(v) = current
            /\ Chosen([i EXCEPT !.form = "offered"], current, <<>>, NoRelease, v)
       \/ UNCHANGED choice
    /\ Leaves(c)

\* --candidate, for APT and portable installations: no manifest, any candidate that is
\* newer.
ChooseCandidate ==
    /\ choice = NoChoice /\ checks = 0
    /\ \E i \in Installations, v \in Versions :
        /\ i.form \in {"portable", "apt"} /\ IsCandidate(v) /\ Above(v, i.installed)
        /\ Chosen([i EXCEPT !.form = IF @ = "apt" THEN "candidate" ELSE @],
                  Channel(i.installed), <<>>, NoRelease, v)
    /\ UNCHANGED <<seen, check, day, checks, newest, lapsed>>

-----------------------------------------------------------------------------
(* The archive *)

ArchiveName(v, machine) == <<v, machine>>
Archive == Versions \X Machine
Inventory(v) == {<<ArchiveName(v, t), <<v, t>>>> : t \in Machine}

\* download_verified_assets: the published release of that tag and kind; any inventory
\* that was signed may be served with it, and any content.  The inventory must list the
\* archive's name, and the content must be what it lists.
Download ==
    /\ choice.at = "download"
    /\ \/ \E listed \in Versions, content \in Archive :
            /\ <<ArchiveName(choice.version, choice.machine), content>> \in Inventory(listed)
            /\ choice' = [choice EXCEPT !.archive = content, !.at = "unpack"]
       \/ choice' = [choice EXCEPT !.at = "failed"]
    /\ UNCHANGED <<seen, check, day, checks, newest, lapsed>>

\* extract_release, _download_candidate: every member is below the directory of that
\* version and machine, with a launcher; a candidate's package says what it is.
UnpackArchive ==
    /\ choice.at = "unpack"
    /\ choice' = [choice EXCEPT !.at = IF choice.archive = <<choice.version, choice.machine>>
                                       THEN "handed" ELSE "failed"]
    /\ UNCHANGED <<seen, check, day, checks, newest, lapsed>>

-----------------------------------------------------------------------------
\* The clock matters once a command checks.
Tomorrow ==
    /\ checks # 0 /\ day < MaxDay
    /\ day' = day + 1
    /\ UNCHANGED <<seen, check, choice, checks, newest, lapsed>>

\* A command ends, or is killed.
CheckEnds(c) ==
    /\ check[c] # NoCheck
    /\ CheckTo(c, NoCheck)
    /\ UNCHANGED <<seen, choice, day, checks, newest, lapsed>>

ReleaseStep ==
    \/ \E c \in Checker : Fetch(c) \/ ReadSeen(c) \/ Compare(c) \/ Remember(c) \/ Choose(c)
                          \/ ChooseOffered(c)
    \/ Download \/ UnpackArchive
ReleaseOthers ==
    \/ \E c \in Checker : CheckBegin(c) \/ CheckEnds(c)
    \/ ChooseCandidate \/ Tomorrow
ReleaseNext == ReleaseStep \/ ReleaseOthers

-----------------------------------------------------------------------------
ReleaseSpec == ReleaseInit /\ [][ReleaseNext]_releaseVars

\* Every variable has its type.
ReleaseTypeOK ==
    /\ {seen, newest} \subseteq {0} \cup {m.made : m \in Manifest}
    /\ day \in 1..MaxDay /\ checks \in 0..MaxChecks /\ lapsed \in BOOLEAN
    /\ \A c \in Checker :
           /\ check[c].at \in {"idle", "fetch", "last", "compare", "remember", "accepted",
                               "refused"}
           /\ check[c].manifest \in Manifest \cup {NoRelease}
    /\ choice.at \in {"none", "download", "unpack", "handed", "failed"}
    /\ choice.version \in Versions \cup {NoRelease}
    /\ choice.archive \in Archive \cup {NoRelease}

\* No command goes on from a manifest that had expired or was signed before one that an
\* earlier command of the user accepted, however the server repeats old ones and commands
\* are killed - unless checks overlapped, or the file could not be read or written: an older
\* manifest is then accepted, and remembered in the place of the newer one
\* (portable_update.py 93-139).
ManifestsFresh ==
    \A c \in Checker :
        check[c].at = "accepted" =>
            /\ check[c].manifest.expires > check[c].judged
            /\ ~lapsed => check[c].manifest.made >= check[c].floor

\* The release an update takes is newer than the installed one and the one that was asked
\* for: of the current channel, or of the channel or minor line named, which is never an
\* earlier channel; what is handed to the installation is its archive for this machine,
\* whatever inventory and content were served (update.py 250-267 and 352-470,
\* portable_update.py 142-303).
Place(v) == CHOOSE i \in DOMAIN Release : Release[i] = v
ReleaseChosen ==
    choice.at \in {"download", "unpack", "handed"} =>
        LET v == choice.version
        IN /\ Place(v) > Place(choice.installed)
           /\ choice.manifest # NoRelease =>
                  /\ Channel(v) = IF choice.to = <<>> THEN choice.current ELSE choice.to[1]
                  /\ Channel(v) >= choice.current
                  /\ Len(choice.to) = 2 => Minor(v) = choice.to
           /\ choice.archive # NoRelease => choice.archive = <<v, choice.machine>>
=============================================================================
