------------------------------ MODULE Profiles ------------------------------
(***************************************************************************)
(* Local profiles: the configuration file (rvs/config.py), the session of  *)
(* an integrated shell, the credentials the stores hold, and the commands  *)
(* of rvs auth, rvs profile, rvs account and rvs art select that change    *)
(* them.  A command is a sequence of steps.  A step that changes the       *)
(* configuration loads the whole file and later replaces it with its own   *)
(* version: there is no lock, so a command of another shell can come       *)
(* between.                                                                *)
(*                                                                         *)
(* One profile's access and refresh token are one entry here, the store is *)
(* one that the preflight accepted, and the server's part of a login or a  *)
(* logout is in DeviceSession.  The shell's environment seeds the API URL  *)
(* of a profile that is not saved yet; a login takes the profile's own     *)
(* unless its --api-url gives another.                                     *)
(***************************************************************************)
EXTENDS Naturals, Sequences, FiniteSets, Functions, SequencesExt

CONSTANTS
    Shell, Integrated,  \* shells, and those with RVS_SESSION_ID
    Profile, Default,   \* profile names, and the one called "default"
    Account, Personal,  \* accounts, and the personal account of the user
    Store, Implicit,    \* credential stores, and those "auto" tries
    Target,             \* what rvs art select can choose
    Url, Env,           \* API URLs, and the one each shell's environment names
    MaxCommands,        \* bound: commands begun in all
    MaxKills,           \* bound: commands killed in all
    None

ASSUME ProfilesAssumption ==
    /\ Integrated \subseteq Shell /\ Default \in Profile
    /\ Personal \in Account /\ Implicit \subseteq Store
    /\ Env \in [Shell -> Url]
    /\ Shell # {} /\ Target # {}
    /\ MaxCommands \in Nat /\ MaxKills \in Nat
    /\ IsFiniteSet(Profile)

VARIABLES
    cfg,        \* config.toml
    session,    \* per shell: the profile and account it chose
    held,       \* <<store, profile>>: the credentials in the stores
    client,     \* per shell: the steps its command still has, and what it loaded
    commands, kills,
    raced,      \* history: a save undid another, or took a profile from a running command
    unsettled   \* history: profiles whose credentials may be elsewhere

vars == <<cfg, session, held, client, commands, kills, raced, unsettled>>

AutoStore == "auto"
Preferences == Store \cup {AutoStore}
Saved == [store: Preferences \cup {None}, owner: {Personal, None},
          active: Account \cup {None}, api: Url,
          selected: UNION {[A -> Target \cup {None}] : A \in SUBSET Account}]
Config == [valid: BOOLEAN, default: Profile, store: Preferences,
           profiles: UNION {[P -> Saved] : P \in SUBSET Profile}]

ASSUME NoneAssumption ==
    /\ None \notin Profile \cup Account \cup Preferences \cup Config
    /\ AutoStore \notin Store

Baseline == [valid |-> TRUE, default |-> Default, store |-> AutoStore, profiles |-> <<>>]
NoSession == [profile |-> None, account |-> None]
Idle == [todo |-> <<>>, base |-> None]

Fresh(url) == [store |-> None, owner |-> None, active |-> None, api |-> url,
               selected |-> <<>>]
Names(c) == DOMAIN c.profiles
ProfileOf(s, c, p) == IF p \in Names(c) THEN c.profiles[p] ELSE Fresh(Env[s])
Put(c, p, saved) == [c EXCEPT !.profiles = [q \in Names(c) \cup {p} |->
                                            IF q = p THEN saved ELSE c.profiles[q]]]

-----------------------------------------------------------------------------
(* What applies to a shell *)

CurrentProfile(s) == IF session[s].profile # None THEN session[s].profile ELSE cfg.default

CurrentAccount(s, p) ==
    IF session[s].account # None /\ session[s].profile \in {None, p} THEN session[s].account
    ELSE IF p \notin Names(cfg) THEN None
    ELSE IF cfg.profiles[p].active # None THEN cfg.profiles[p].active
    ELSE cfg.profiles[p].owner

\* The stores a command on the profile looks in: its own, or the configured ones.
Preference(c, p) ==
    IF p \in Names(c) /\ c.profiles[p].store # None THEN c.profiles[p].store ELSE c.store
Candidates(preference) == IF preference = AutoStore THEN Implicit ELSE {preference}

-----------------------------------------------------------------------------
(* The steps of a command *)

Step(do, p, x) == [do |-> do, p |-> p, x |-> x]
Credential == {"hold", "metadata", "drop", "dropOld", "dropAll", "clear", "remove", "rename"}
InSession == {"enter", "leave", "follow", "act", "restart"}
InConfig == {"prefer", "metadata", "endpoints", "clear", "remove", "rename", "default",
             "cache", "activate", "select", "baseline"}

Head1(s) == Head(client[s].todo)
At(s, dos) == client[s].todo # <<>> /\ Head1(s).do \in dos
Touches(step, p) ==
    IF step.do = "baseline" THEN p \in step.x ELSE step.do \in Credential /\ step.p = p
Touched(todo) == {p \in Profile : \E i \in DOMAIN todo : Touches(todo[i], p)}
Uses(s, p) == \E i \in DOMAIN client[s].todo : client[s].todo[i].p = p
Busy(p) == \E s \in Shell : p \in Touched(client[s].todo)

\* A command starts: the configuration must be readable.  Two commands at once on the
\* credentials of one profile leave them unsettled; a reset alone settles its profiles.
Start(s, todo) ==
    /\ client[s] = Idle /\ commands < MaxCommands
    /\ commands' = commands + 1
    /\ client' = [client EXCEPT ![s].todo = todo]
    /\ unsettled' = {p \in Touched(todo) : Busy(p)} \cup
                    (unsettled \ {p \in Touched(todo) : \E i \in DOMAIN todo : todo[i].do = "baseline"})
    /\ UNCHANGED <<cfg, session, held, kills, raced>>

\* login: the store that passes the preflight, or the vault or plaintext file that is set
\* up for it first and becomes the configured store.  Its API URL is the one it is given, or
\* the profile's.
Wanted(p, requested) == Candidates(IF requested = None THEN Preference(cfg, p) ELSE requested)
SetUp(store) == <<Step("prefer", None, store)>>
Login(s) ==
    \E p \in Profile, requested \in Preferences \cup {None}, setup \in BOOLEAN, api \in Url :
        \E store \in Wanted(p, requested) :
            cfg.valid /\ Start(s, (IF setup THEN SetUp(store) ELSE <<>>) \o
               <<Step("hold", p, store),
                 Step("metadata", p, [store |-> store, api |-> api,
                                      given |-> api # ProfileOf(s, cfg, p).api]),
                 Step("sync", p, None)>>)

\* storage set, storage setup
StorageSet(s) == \E store \in Preferences : cfg.valid /\ Start(s, SetUp(store))

\* logout of one profile, or of every profile that is saved.
SignOut(p) == <<Step("drop", p, None), Step("clear", p, None)>>
SignOutEach(names) ==
    [i \in 1..(2 * Len(names)) |-> IF i % 2 = 1 THEN Step("drop", names[(i + 1) \div 2], None)
                                               ELSE Step("clear", names[i \div 2], None)]
Logout(s) ==
    /\ cfg.valid
    /\ \/ \E p \in Profile : Start(s, SignOut(p))
       \/ Names(cfg) # {} /\ Start(s, SignOutEach(SetToSeq(Names(cfg))))

\* Mutant: removes the profile first and its credentials after it.
DeleteProfileFirst(s) ==
    \E p \in Names(cfg) :
        cfg.valid /\ Start(s, <<Step("remove", p, None), Step("leave", p, None)>> \o SignOut(p))

DeleteProfile(s) ==
    \E p \in Names(cfg) :
        cfg.valid /\ Start(s, SignOut(p) \o
                              <<Step("remove", p, None), Step("leave", p, None)>>)

\* delete --all also repairs a configuration that cannot be loaded.
DeleteAll(s) ==
    LET names == SetToSeq(Names(cfg))
    IN Start(s, [i \in DOMAIN names |-> Step("dropAll", names[i], None)] \o
                <<Step("baseline", None, Names(cfg)), Step("restart", Default, None)>>)

\* rename changes the configuration it loaded when it checked the names.
Rename(s) ==
    \E p \in Names(cfg), new \in Profile \ Names(cfg) :
        /\ cfg.valid /\ client[s] = Idle /\ commands < MaxCommands
        /\ commands' = commands + 1
        /\ client' = [client EXCEPT ![s] =
               [todo |-> <<Step("rename", p, new), Step("follow", p, new),
                           Step("dropOld", p, None), Step("clear", p, None)>>,
                base |-> cfg]]
        /\ unsettled' = unsettled \cup {p, new}
        /\ UNCHANGED <<cfg, session, held, kills, raced>>

UseProfile(s) ==
    \E p \in Names(cfg) :
        cfg.valid /\ Start(s, <<Step(IF s \in Integrated THEN "enter" ELSE "default", p, None)>>)

\* account switch: a selector is resolved and cached first, a choice from the list is not.
SwitchAccount(s) ==
    \E p \in Profile, x \in Account, listed \in BOOLEAN :
        cfg.valid /\ Start(s, (IF listed THEN <<>> ELSE <<Step("cache", p, x)>>) \o
                              <<Step("activate", p, x), Step("act", p, x)>>)

\* art select and art clear (no target): the account is that of --account, which is
\* resolved and cached first, of RVS_ACCOUNT_REF, or the one that applies.  A wrapper does
\* the same up to the last step.
SelectTarget(s) ==
    \E p \in Profile, x \in Account \cup {None}, option \in BOOLEAN,
       target \in Target \cup {None}, owner \in Account :
        /\ cfg.valid
        /\ option => x # None
        /\ target = None => option \/ x = None
        /\ (target = None \/ x # None) => owner = IF x = None THEN Personal ELSE x
        /\ Start(s, (IF option THEN <<Step("cache", p, x)>> ELSE <<>>) \o
                    <<Step("ensure", p, [account |-> x, option |-> option,
                                         target |-> target, owner |-> owner])>>)

Begin(s) ==
    /\ client[s] = Idle /\ commands < MaxCommands
    /\ \/ Login(s) \/ StorageSet(s) \/ Logout(s) \/ DeleteProfile(s) \/ DeleteAll(s)
       \/ Rename(s) \/ UseProfile(s) \/ SwitchAccount(s) \/ SelectTarget(s)

-----------------------------------------------------------------------------
(* Configuration *)

\* Mutant: forgets the target selected for an account it caches again.
CacheAnew(saved, x) ==
    [saved EXCEPT !.selected = [y \in DOMAIN @ \cup {x} |-> IF y = x THEN None ELSE @[y]]]

Cache(saved, x) ==
    [saved EXCEPT !.selected = [y \in DOMAIN @ \cup {x} |-> IF y \in DOMAIN @ THEN @[y] ELSE None]]

\* Mutant: leaves a default profile that is gone.
RemoveOnly(c, p) == [c EXCEPT !.profiles = Restrict(@, Names(c) \ {p})]

\* Mutant: no default when the last profile is gone.
WithoutDefault(c, p) ==
    [c EXCEPT !.profiles = Restrict(@, Names(c) \ {p}), !.default = IF @ = p THEN None ELSE @]

Without(c, p) ==
    LET left == Names(c) \ {p}
    IN [c EXCEPT !.profiles = Restrict(@, left),
                 !.default = IF @ # p THEN @
                             ELSE IF left = {} THEN Default ELSE CHOOSE q \in left : TRUE]

Renamed(c, p, new) ==
    [c EXCEPT !.profiles = [q \in (Names(c) \ {p}) \cup {new} |->
                              IF q = new THEN c.profiles[p] ELSE c.profiles[q]],
              !.default = IF @ = p THEN new ELSE @]

\* Mutant: follows the environment of the shell.
WithLoginHere(s, c, p, x) ==
    Put(c, p, [ProfileOf(s, c, p) EXCEPT !.store = x.store, !.owner = Personal, !.api = Env[s]])

\* set_profile_metadata after a login
WithLogin(s, c, p, x) ==
    Put(c, p, [ProfileOf(s, c, p) EXCEPT !.store = x.store, !.owner = Personal, !.api = x.api])

\* Mutant: makes the account active for every shell.
ActivateEverywhere(s, c, p, x) ==
    Put(c, p, [Cache(ProfileOf(s, c, p), x) EXCEPT !.active = x])

\* cache_account with activate: only a shell without a session makes it the profile's.
Activate(s, c, p, x) ==
    Put(c, p, [Cache(ProfileOf(s, c, p), x) EXCEPT !.active = IF s \in Integrated THEN @ ELSE x])

\* A setter that finds nothing to change does not save; select reports an error.
Applies(c, step) ==
    CASE step.do \in {"clear", "remove"} -> step.p \in Names(c)
      [] step.do = "select" -> step.p \in Names(c) /\ step.x.account \in DOMAIN c.profiles[step.p].selected
      [] OTHER -> TRUE

Changed(s, c, step) ==
    LET p == step.p  x == step.x
    IN CASE step.do = "prefer" -> [c EXCEPT !.store = x]
         [] step.do = "metadata" -> WithLogin(s, c, p, x)
         [] step.do = "endpoints" -> Put(c, p, ProfileOf(s, c, p))
         [] step.do = "clear" -> [c EXCEPT !.profiles[p].owner = None]
         [] step.do = "remove" -> Without(c, p)
         [] step.do = "rename" -> Renamed(c, p, x)
         [] step.do = "default" -> [c EXCEPT !.default = p]
         [] step.do = "cache" -> Put(c, p, Cache(ProfileOf(s, c, p), x))
         [] step.do = "activate" -> Activate(s, c, p, x)
         [] step.do = "select" -> [c EXCEPT !.profiles[p].selected[x.account] = x.target]
         [] step.do = "baseline" -> Baseline

\* load(): a configuration of another version or a malformed one is an error.
Load(s) ==
    /\ At(s, InConfig \ {"baseline"}) /\ client[s].base = None
    /\ client' = [client EXCEPT ![s] = IF cfg.valid THEN [@ EXCEPT !.base = cfg] ELSE Idle]
    /\ UNCHANGED <<cfg, session, held, commands, kills, raced, unsettled>>

\* What follows a step that changes the configuration.
Rest(s) ==
    LET tail == Tail(client[s].todo)
    IN IF s \notin Integrated /\ tail # <<>> /\ Head(tail).do \in InSession THEN Tail(tail) ELSE tail

\* save(): replaces the whole file by the version that was loaded and changed; a reset
\* loads nothing.  A shell without integration has no session file to change after it.
Save(s) ==
    /\ At(s, InConfig) /\ (client[s].base # None \/ Head1(s).do = "baseline")
    /\ LET step == Head1(s)
           base == client[s].base
           rest == Rest(s)
       IN /\ IF Applies(base, step)
             THEN /\ cfg' = Changed(s, base, step)
                  /\ raced' = \/ raced
                              \/ IF step.do = "baseline" THEN Names(cfg) # step.x ELSE cfg # base
                              \/ \E t \in Shell \ {s}, p \in Names(cfg) \ Names(cfg') : Uses(t, p)
                  /\ client' = [client EXCEPT ![s] =
                         [todo |-> rest,
                          base |-> IF rest # <<>> /\ Head(rest).do \in InSession
                                   THEN cfg' ELSE None]]
             ELSE /\ client' = [client EXCEPT ![s] =
                         [todo |-> IF step.do = "clear" THEN rest ELSE <<>>, base |-> None]]
                  /\ UNCHANGED <<cfg, raced>>
    /\ UNCHANGED <<session, held, commands, kills, unsettled>>

\* sync_native_registries: advisory, and only for a profile that is still saved.
Discover(s) ==
    /\ At(s, {"sync"})
    /\ \/ client' = [client EXCEPT ![s] = Idle]
       \/ /\ cfg.valid /\ Head1(s).p \in Names(cfg)
          /\ client' = [client EXCEPT ![s].todo = <<Step("endpoints", Head1(s).p, None)>>]
    /\ UNCHANGED <<cfg, session, held, commands, kills, raced, unsettled>>

\* ensure_active_account: the account that applies, or the personal one; an account that
\* is not cached yet is cached and, unless an option named it, made active.
Ensured(p, x, account) ==
    IF p \in Names(cfg) /\ account \in DOMAIN cfg.profiles[p].selected THEN <<>>
    ELSE IF x.option THEN <<Step("cache", p, account)>>
    ELSE <<Step("activate", p, account), Step("act", p, account)>>

Ensure(s) ==
    /\ At(s, {"ensure"})
    /\ LET p == Head1(s).p
           x == Head1(s).x
           current == CurrentAccount(s, p)
           account == IF x.account # None THEN x.account
                      ELSE IF current # None THEN current ELSE Personal
       IN client' = [client EXCEPT ![s].todo =
              Ensured(p, x, account) \o
              (IF x.target = None THEN <<>> ELSE <<Step("cache", p, x.owner)>>) \o
              <<Step("select", p, [account |-> account, target |-> x.target])>>]
    /\ UNCHANGED <<cfg, session, held, commands, kills, raced, unsettled>>

-----------------------------------------------------------------------------
(* Sessions and stores *)

\* save_session of this shell.
SessionAfter(s, step, c) ==
    CASE step.do \in {"enter", "restart"} -> [profile |-> step.p, account |-> None]
      [] step.do = "act" -> [profile |-> step.p, account |-> step.x]
      [] step.do = "leave" /\ session[s].profile = step.p -> [profile |-> c.default, account |-> None]
      [] step.do = "follow" /\ session[s].profile = step.p -> [session[s] EXCEPT !.profile = step.x]
      [] OTHER -> session[s]

SaveSession(s) ==
    /\ At(s, InSession)
    /\ session' = [session EXCEPT ![s] = SessionAfter(s, Head1(s), client[s].base)]
    /\ client' = [client EXCEPT ![s] = [todo |-> Tail(@.todo), base |-> None]]
    /\ UNCHANGED <<cfg, held, commands, kills, raced, unsettled>>

\* set_token, set_refresh_token: what another store holds stays there.
Hold(s) ==
    /\ At(s, {"hold"})
    /\ LET step == Head1(s)
       IN /\ held' = held \cup {<<step.x, step.p>>}
          /\ unsettled' = IF \E st \in Store \ {step.x} : <<st, step.p>> \in held
                          THEN unsettled \cup {step.p} ELSE unsettled
    /\ client' = [client EXCEPT ![s].todo = Tail(@)]
    /\ UNCHANGED <<cfg, session, commands, kills, raced>>

\* delete_token and delete_token_from_all_stores
StoresOf(c, step) == IF step.do = "dropAll" THEN Store ELSE Candidates(Preference(c, step.p))

\* The credentials of the profile in those stores; an error in the configuration ends
\* the command before.
Drop(s) ==
    /\ At(s, {"drop", "dropOld", "dropAll"})
    /\ IF cfg.valid \/ Head1(s).do = "dropAll"
       THEN /\ held' = held \ {<<st, Head1(s).p>> : st \in StoresOf(cfg, Head1(s))}
            /\ client' = [client EXCEPT ![s].todo = Tail(@)]
       ELSE /\ client' = [client EXCEPT ![s] = Idle]
            /\ UNCHANGED held
    /\ UNCHANGED <<cfg, session, commands, kills, raced, unsettled>>

Kill(s) ==
    /\ client[s] # Idle /\ kills < MaxKills
    /\ kills' = kills + 1
    /\ client' = [client EXCEPT ![s] = Idle]
    /\ unsettled' = unsettled \cup Touched(client[s].todo)
    /\ UNCHANGED <<cfg, session, held, commands, raced>>

-----------------------------------------------------------------------------
SavedAs(store) ==
    [Fresh(Env[CHOOSE s \in Shell : TRUE]) EXCEPT !.store = store, !.owner = Personal,
        !.selected = [x \in {Personal} |-> CHOOSE t \in Target : TRUE]]

\* A new user, users of one store with a selected target, and a configuration of another
\* version.
Init ==
    /\ \E names \in SUBSET Profile, store \in Store, valid \in BOOLEAN :
        /\ Default \in names \/ names = {}
        /\ cfg = [Baseline EXCEPT !.valid = valid,
                                  !.profiles = [p \in names |-> SavedAs(store)]]
        /\ held = {store} \X names
    /\ session = [s \in Shell |-> NoSession]
    /\ client = [s \in Shell |-> Idle]
    /\ commands = 0 /\ kills = 0 /\ raced = FALSE /\ unsettled = {}

Run(s) == Load(s) \/ Save(s) \/ Discover(s) \/ Ensure(s) \/ SaveSession(s) \/ Hold(s) \/ Drop(s)
Next == \E s \in Shell : Begin(s) \/ Run(s) \/ Kill(s)

Spec == Init /\ [][Next]_vars

-----------------------------------------------------------------------------
(* Properties *)

\* The steps, with what each is given.
Recorded == [store: Store, api: Url, given: BOOLEAN]
StepType ==
    [do: {"hold"}, p: Profile, x: Store] \cup [do: {"metadata"}, p: Profile, x: Recorded]
    \cup [do: {"drop", "dropOld", "dropAll", "clear", "remove", "leave", "enter", "default", "sync",
               "endpoints"}, p: Profile, x: {None}]
    \cup [do: {"rename", "follow"}, p: Profile, x: Profile] \cup [do: {"restart"}, p: {Default}, x: {None}]
    \cup [do: {"cache", "activate", "act"}, p: Profile, x: Account]
    \cup [do: {"ensure"}, p: Profile, x: [account: Account \cup {None}, option: BOOLEAN,
                                         target: Target \cup {None}, owner: Account]]
    \cup [do: {"select"}, p: Profile, x: [account: Account, target: Target \cup {None}]]
    \cup [do: {"prefer"}, p: {None}, x: Preferences] \cup [do: {"baseline"}, p: {None}, x: SUBSET Profile]
SessionState == [profile: Profile \cup {None}, account: Account \cup {None}]
ClientState == [todo: Seq(StepType), base: Config \cup {None}]

\* Every variable has its type.
TypeOK ==
    /\ cfg \in Config
    /\ session \in [Shell -> SessionState] /\ client \in [Shell -> ClientState]
    /\ held \subseteq Store \X Profile
    /\ commands \in 0..MaxCommands /\ kills \in 0..MaxKills
    /\ raced \in BOOLEAN /\ unsettled \subseteq Profile

\* Unless commands raced, the default profile is saved or is the one called
\* "default": use checks it, delete and rename move it (config.py 1096-1219).
DefaultKnown == ~raced => cfg.default \in Names(cfg) \cup {Default}

\* A settled profile's credentials are in exactly the store it names, and nowhere when it
\* is signed out, deleted or was never saved: no command leaves some where logout would
\* not look (credentials.py 669-691, commands.py 465-729).
Paired ==
    ~raced => \A p \in Profile \ unsettled :
        ~Busy(p) =>
            {st \in Store : <<st, p>> \in held} =
                IF p \in Names(cfg) /\ cfg.profiles[p].owner # None
                THEN {cfg.profiles[p].store} ELSE {}

\* A session that names an account also names the profile it belongs to: otherwise the
\* account would apply to whatever profile a command uses (config.py 287-303).
SessionOwnsAccount ==
    \A s \in Shell : session[s].account # None => session[s].profile # None

\* The target selected for an account of a profile changes only when a command selects or
\* clears that very target, or removes or renames profiles: no login, account switch or
\* caching of an account forgets it (config.py 1117-1202).
SelectionOf(c, p, x) ==
    IF p \in Names(c) /\ x \in DOMAIN c.profiles[p].selected THEN c.profiles[p].selected[x] ELSE None
Selects(s, p, x) ==
    /\ At(s, InConfig)
    /\ \/ Head1(s).do \in {"remove", "rename", "baseline"}
       \/ Head1(s).do = "select" /\ Head1(s).p = p /\ Head1(s).x.account = x
SelectionSurvives ==
    [][\A p \in Profile, x \in Account :
          SelectionOf(cfg', p, x) # SelectionOf(cfg, p, x) =>
              raced' \/ \E s \in Shell : client'[s] # client[s] /\ Selects(s, p, x)]_vars

\* What an integrated shell switches, uses or selects is its own: in another shell the
\* profile and account that apply stay the same (config.py 1096-1160).
Applying(s) == <<CurrentProfile(s), CurrentAccount(s, CurrentProfile(s))>>
ShellsApart ==
    [][\A s \in Integrated : \A t \in Shell \ {s} :
          (/\ client'[s] # client[s]
           /\ At(s, {"enter", "act", "cache", "activate", "select", "ensure"})) =>
              raced' \/ Applying(t)' = Applying(t)]_vars

\* The API URL of a profile that is signed in changes only when a login that was given
\* another records it, whatever the environment of the shell that logs in again
\* (config.py 971-984, device.py 53-63).
ApiUrlStays ==
    [][\A p \in Names(cfg) \cap Names(cfg') :
          cfg.profiles[p].owner # None /\ p \notin unsettled' /\ ~raced' =>
              \/ cfg'.profiles[p].api = cfg.profiles[p].api
              \/ \E s \in Shell : /\ client'[s] # client[s] /\ At(s, {"metadata"})
                                  /\ Head1(s).p = p /\ Head1(s).x.given]_vars

\* What CHANGELOG.md 204-205 and command-reference.md 22-24 promise of logout, profile
\* delete and profile rename: the local credentials are removed.
SignOutRemoves ==
    [][\A s \in Shell :
          (At(s, {"drop", "dropOld"}) /\ client'[s] # client[s] /\ client'[s] # Idle) =>
              ~\E st \in Store : <<st, Head1(s).p>> \in held']_vars
=============================================================================
