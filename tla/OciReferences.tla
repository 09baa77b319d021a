--------------------------- MODULE OciReferences ---------------------------
(***************************************************************************)
(* What a docker, helm or oras line under rvs refers to (rvs/oci/runner.py,*)
(* docker.py, helm.py): short names are put below the root of the target,  *)
(* the spelling of readable roots is made the registry's, and a line that  *)
(* refers to another repository of the registry is refused.                *)
(***************************************************************************)
CONSTANTS
    Repository,     \* permanent repository identities
    Name            \* readable names, each of one repository at a time

\* A repository has three roots on the registry's host: its readable name, its permanent
\* identity and the path that comes with a token.
Root == [form : {"readable"}, of : Name] \cup [form : {"permanent", "issued"}, of : Repository]

\* A reference is a short name, a root on the host as rvs spells it, in the registry's lower
\* case or not, or something else: a local file, another registry, a URL.
ShortReference == [to |-> "short"]
OtherReference == [to |-> "elsewhere"]
HostReference(root, mixed) == [to |-> "host", root |-> root, mixed |-> mixed]
Reference ==
    {ShortReference, OtherReference}
    \cup {HostReference(root, FALSE) : root \in Root}
    \cup {HostReference(root, TRUE) : root \in {root \in Root : root.form = "readable"}}

\* The roots of the target, as the mint names it.
Accepted(target) ==
    {[form |-> "readable", of |-> target.name], [form |-> "permanent", of |-> target.id],
     [form |-> "issued", of |-> target.id]}

\* docker push, pull and tag and the chart commands of helm have short names.
Expanded(reference, short, target) ==
    IF short /\ reference = ShortReference
    THEN HostReference([form |-> "issued", of |-> target.id], FALSE) ELSE reference

\* A readable root in another case is that root, if it is accepted.
Normalized(reference) ==
    IF reference.to = "host" THEN [reference EXCEPT !.mixed = FALSE] ELSE reference

\* Only accepted roots may be referred to.  An issued path of another repository is refused
\* if it looks like a root, which the service's are free not to do.
Refused(reference, target) ==
    /\ reference.to = "host"
    /\ reference.root \notin Accepted(target)

MayPass(reference, target) ==
    \/ ~Refused(reference, target)
    \/ reference.to = "host" /\ reference.root.form = "issued"
=============================================================================
