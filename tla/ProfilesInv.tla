---------------------------- MODULE ProfilesInv ----------------------------
(***************************************************************************)
(* The inductive invariant of Profiles: the order of the steps a command   *)
(* has left, and what each of them has been promised by those before it.   *)
(***************************************************************************)
EXTENDS Profiles

-----------------------------------------------------------------------------
(* The steps a command has left *)

ResetSteps == {"dropAll", "baseline", "restart"}
Final == {"sync", "endpoints", "ensure", "select", "default", "enter"}

\* Which step on a profile's credentials another may follow.
Follows == {<<"hold", "metadata">>, <<"drop", "clear">>, <<"drop", "remove">>, <<"clear", "remove">>,
            <<"rename", "dropOld">>, <<"rename", "clear">>, <<"dropOld", "clear">>}

\* Of the steps on one profile's credentials each is there once and in order; credentials
\* are recorded in the store that holds them.
Ordered(todo) ==
    \A i, j \in DOMAIN todo :
        i < j /\ todo[i].p = todo[j].p /\ todo[i].do \in Credential /\ todo[j].do \in Credential =>
            /\ <<todo[i].do, todo[j].do>> \in Follows
            /\ todo[i].do = "hold" => todo[j].x.store = todo[i].x

\* Credentials that are stored will be recorded, and those that are removed forgotten.
Completed(todo) ==
    \A i \in DOMAIN todo :
        /\ todo[i].do = "hold" => \E j \in DOMAIN todo : j > i /\ todo[j].do = "metadata" /\ todo[j].p = todo[i].p
        /\ todo[i].do = "drop" => \E j \in DOMAIN todo : j > i /\ todo[j].do = "clear" /\ todo[j].p = todo[i].p
        /\ todo[i].do = "dropAll" => \E j \in DOMAIN todo : j > i /\ todo[j].do = "baseline" /\ todo[i].p \in todo[j].x

\* A step that may end the command is the last but for one on the session, a session is
\* left only after the profile is removed, and a reset is nothing else.
Placed(todo) ==
    \A i, j \in DOMAIN todo :
        /\ i < j => /\ todo[i].do \notin Final
                    /\ todo[i].do = "remove" => todo[j].do = "leave"
                    /\ todo[j].do \notin {"rename", "default"}
                    /\ todo[i].do = "baseline" => todo[j].do = "restart"
        /\ j = i + 1 /\ todo[j].do = "leave" => todo[i].do = "remove"
        /\ todo[i].do \in ResetSteps => todo[j].do \in ResetSteps

WellFormed(todo) == Ordered(todo) /\ Completed(todo) /\ Placed(todo)

Resets(todo) == \E i \in DOMAIN todo : todo[i].do \in ResetSteps
Has(todo, dos, p) == \E i \in DOMAIN todo : todo[i].do \in dos /\ todo[i].p = p

\* A command runs only on a configuration that can be read, but for a reset, and works on one.
Runs(c) ==
    /\ WellFormed(c.todo)
    /\ c.todo # << >> => Resets(c.todo) \/ cfg.valid
    /\ c.base # None => c.base.valid

\* A command has a configuration in hand only for a step that needs one: a rename the one
\* in which it checked both names, and a deletion the one it saved.
Checked(c) ==
    /\ c.base # None => c.todo # << >> /\ Head(c.todo).do \in (InConfig \ {"baseline"}) \cup InSession
    /\ c.todo # << >> =>
          /\ Head(c.todo).do = "rename" =>
                /\ c.base # None
                /\ Head(c.todo).p \in Names(c.base) /\ Head(c.todo).x \notin Names(c.base)
          /\ Head(c.todo).do = "leave" => c.base # None

CommandsRun == \A s \in Shell : Runs(client[s]) /\ Checked(client[s])

-----------------------------------------------------------------------------
(* Profiles and their credentials *)

HeldIn(p) == {st \in Store : <<st, p>> \in held}
SignedIn(c, p) == p \in Names(c) /\ c.profiles[p].owner # None
Matches(p) == HeldIn(p) = IF SignedIn(cfg, p) THEN {cfg.profiles[p].store} ELSE {}

\* At most one command is on the credentials of a settled profile.
OneCommand ==
    \A p \in Profile \ unsettled : \A s, t \in Shell :
        p \in Touched(client[s].todo) /\ p \in Touched(client[t].todo) => s = t

\* What the command that is on a settled profile's credentials has done so far.
Promised(p, todo) ==
    /\ Has(todo, {"hold", "drop"}, p) => Matches(p)
    /\ \A i \in DOMAIN todo : todo[i].do = "metadata" /\ todo[i].p = p =>
          /\ ~Has(todo, {"hold"}, p) => HeldIn(p) = {todo[i].x.store}
          /\ SignedIn(cfg, p) /\ ~todo[i].x.given => todo[i].x.api = cfg.profiles[p].api
    /\ Has(todo, {"clear", "remove"}, p) /\ ~Has(todo, {"drop"}, p) => HeldIn(p) = {}
    /\ \A i \in DOMAIN todo : todo[i].do = "baseline" /\ p \in todo[i].x =>
          Has(todo, {"dropAll"}, p) \/ HeldIn(p) = {}

\* A setter that finds no profile finds no credentials to forget.
NothingToClear(p, c) ==
    c.todo # << >> /\ Head(c.todo).do \in {"clear", "remove"} /\ Head(c.todo).p = p
    /\ c.base # None /\ p \notin Names(c.base) => ~SignedIn(cfg, p)

SettledKept ==
    \A p \in Profile \ unsettled :
        /\ (\A s \in Shell : p \notin Touched(client[s].todo)) => Matches(p)
        /\ \A s \in Shell : p \in Touched(client[s].todo) =>
              Promised(p, client[s].todo) /\ NothingToClear(p, client[s])

\* A profile that a command is to rename or to make the default is still there, and both
\* names of a renaming are unsettled or being reset.
NamesThere ==
    \A s \in Shell : \A i \in DOMAIN client[s].todo :
        LET step == client[s].todo[i]
        IN /\ step.do \in {"rename", "default"} => step.p \in Names(cfg)
           /\ step.do = "rename" => step.x \in unsettled \/ \E t \in Shell :
                                    Resets(client[t].todo) /\ step.x \in Touched(client[t].todo)

DefaultThere == cfg.default \in Names(cfg) \cup {Default}

Unraced == SettledKept /\ NamesThere /\ DefaultThere

\* Steps of a renaming are on a profile that stays unsettled meanwhile.
RenameUnsettled ==
    \A s \in Shell : \A p \in Profile :
        Has(client[s].todo, {"rename", "dropOld"}, p) => p \in unsettled

ProfilesInv ==
    /\ TypeOK /\ CommandsRun /\ SessionOwnsAccount /\ OneCommand /\ RenameUnsettled
    /\ ~raced => Unraced
=============================================================================
