-------------------------- MODULE Profiles_proofs --------------------------
(***************************************************************************)
(* Theorems about Profiles, for every set of shells, profiles, accounts    *)
(* and stores.                                                             *)
(***************************************************************************)
EXTENDS ProfilesInv, FiniteSetTheorems, TLAPS

-----------------------------------------------------------------------------
(* Configurations *)

\* The parts of a configuration, and how one is made.
LEMMA ConfigTyped ==
    ASSUME NEW c \in Config
    PROVE  /\ Names(c) \subseteq Profile /\ c.profiles \in [Names(c) -> Saved]
           /\ c.valid \in BOOLEAN /\ c.default \in Profile /\ c.store \in Preferences
           /\ \A P \in SUBSET Profile : \A f \in [P -> Saved] : \A d \in Profile :
                 /\ [c EXCEPT !.profiles = f] \in Config
                 /\ [c EXCEPT !.profiles = f, !.default = d] \in Config
           /\ \A st \in Preferences : [c EXCEPT !.store = st] \in Config
           /\ \A d \in Profile : [c EXCEPT !.default = d] \in Config
BY DEF Config, Names

LEMMA BaselineTyped == Baseline \in Config /\ Names(Baseline) = {} /\ Baseline.valid /\ Baseline.default = Default
<1>1. << >> \in [{} -> Saved] /\ DOMAIN << >> = {}
  OBVIOUS
<1>2. Default \in Profile /\ AutoStore \in Preferences
  BY ProfilesAssumption DEF Preferences
<1> QED  BY <1>1, <1>2 DEF Baseline, Config, Names

\* A profile's entry, and what a setter makes of it.
LEMMA SavedTyped ==
    ASSUME NEW saved \in Saved
    PROVE  /\ saved.store \in Preferences \cup {None} /\ saved.owner \in {Personal, None}
           /\ saved.active \in Account \cup {None} /\ saved.api \in Url
           /\ DOMAIN saved.selected \subseteq Account
           /\ saved.selected \in [DOMAIN saved.selected -> Target \cup {None}]
           /\ \A A \in SUBSET Account : \A f \in [A -> Target \cup {None}] :
                 [saved EXCEPT !.selected = f] \in Saved
           /\ \A st \in Store : \A url \in Url :
                 [saved EXCEPT !.store = st, !.owner = Personal, !.api = url] \in Saved
           /\ [saved EXCEPT !.owner = None] \in Saved
           /\ \A x \in Account : [saved EXCEPT !.active = x] \in Saved
BY DEF Saved, Preferences

LEMMA FreshTyped ==
    ASSUME NEW url \in Url
    PROVE  /\ Fresh(url) \in Saved /\ Fresh(url).owner = None /\ Fresh(url).active = None
           /\ DOMAIN Fresh(url).selected = {}
<1>1. << >> \in [{} -> Target \cup {None}] /\ DOMAIN << >> = {} /\ {} \in SUBSET Account
  OBVIOUS
<1> QED  BY <1>1 DEF Fresh, Saved

LEMMA ProfileTyped ==
    ASSUME NEW c \in Config, NEW s \in Shell, NEW p
    PROVE  /\ ProfileOf(s, c, p) \in Saved
           /\ p \in Names(c) => ProfileOf(s, c, p) = c.profiles[p]
           /\ p \notin Names(c) => /\ ProfileOf(s, c, p).owner = None /\ ProfileOf(s, c, p).active = None
                                   /\ DOMAIN ProfileOf(s, c, p).selected = {}
<1>1. Env[s] \in Url
  BY ProfilesAssumption
<1> QED  BY <1>1, ConfigTyped, FreshTyped DEF ProfileOf

LEMMA CacheTyped ==
    ASSUME NEW saved \in Saved, NEW x \in Account
    PROVE  /\ Cache(saved, x) \in Saved
           /\ Cache(saved, x).owner = saved.owner /\ Cache(saved, x).store = saved.store
           /\ Cache(saved, x).api = saved.api /\ Cache(saved, x).active = saved.active
           /\ DOMAIN Cache(saved, x).selected = DOMAIN saved.selected \cup {x}
           /\ \A y \in DOMAIN saved.selected : Cache(saved, x).selected[y] = saved.selected[y]
           /\ x \notin DOMAIN saved.selected => Cache(saved, x).selected[x] = None
<1> DEFINE A == DOMAIN saved.selected \cup {x}
           f == [y \in A |-> IF y \in DOMAIN saved.selected THEN saved.selected[y] ELSE None]
<1>1. A \in SUBSET Account /\ f \in [A -> Target \cup {None}]
  BY SavedTyped
<1>2. Cache(saved, x) = [saved EXCEPT !.selected = f]
  BY DEF Cache
<1>3. [saved EXCEPT !.selected = f] \in Saved
  BY <1>1, SavedTyped
<1>4. [saved EXCEPT !.selected = f].selected = f
  BY DEF Saved
<1> HIDE DEF f
<1>5. /\ Cache(saved, x).owner = saved.owner /\ Cache(saved, x).store = saved.store
      /\ Cache(saved, x).api = saved.api /\ Cache(saved, x).active = saved.active
  BY <1>2 DEF Saved
<1> QED  BY <1>2, <1>3, <1>4, <1>5 DEF f

\* A setter saves one profile's entry and leaves the others.
LEMMA PutTyped ==
    ASSUME NEW c \in Config, NEW p \in Profile, NEW saved \in Saved
    PROVE  /\ Put(c, p, saved) \in Config /\ Names(Put(c, p, saved)) = Names(c) \cup {p}
           /\ Put(c, p, saved).profiles[p] = saved
           /\ \A q \in Names(c) : q # p => Put(c, p, saved).profiles[q] = c.profiles[q]
           /\ Put(c, p, saved).valid = c.valid /\ Put(c, p, saved).default = c.default
<1> DEFINE f == [q \in Names(c) \cup {p} |-> IF q = p THEN saved ELSE c.profiles[q]]
<1>1. f \in [Names(c) \cup {p} -> Saved] /\ Names(c) \cup {p} \in SUBSET Profile
  BY ConfigTyped
<1>2. Put(c, p, saved) = [c EXCEPT !.profiles = f]
  BY DEF Put
<1>3. [c EXCEPT !.profiles = f] \in Config
  BY <1>1, ConfigTyped
<1>4. Put(c, p, saved).profiles = f /\ Put(c, p, saved).valid = c.valid /\ Put(c, p, saved).default = c.default
  BY <1>2 DEF Config
<1> QED  BY <1>2, <1>3, <1>4 DEF Names

\* Removing a profile moves the default to one that is left, and renaming follows it.
LEMMA WithoutTyped ==
    ASSUME NEW c \in Config, NEW p \in Profile
    PROVE  /\ Without(c, p) \in Config /\ Names(Without(c, p)) = Names(c) \ {p}
           /\ \A q \in Names(c) \ {p} : Without(c, p).profiles[q] = c.profiles[q]
           /\ Without(c, p).valid = c.valid
           /\ c.default \in Names(c) \cup {Default} =>
                 Without(c, p).default \in Names(Without(c, p)) \cup {Default}
<1> DEFINE left == Names(c) \ {p}
           f == Restrict(c.profiles, left)
           d == IF c.default # p THEN c.default
                ELSE IF left = {} THEN Default ELSE CHOOSE q \in left : TRUE
<1>1. /\ f \in [left -> Saved] /\ left \in SUBSET Profile
      /\ \A q \in left : f[q] = c.profiles[q]
  BY ConfigTyped DEF Restrict
<1>2. left # {} => (CHOOSE q \in left : TRUE) \in left
  OBVIOUS
<1>3. d \in Profile
  BY <1>1, <1>2, ConfigTyped, ProfilesAssumption
<1>4. c.default \in Names(c) \cup {Default} => d \in left \cup {Default}
  BY <1>2
<1>5. Without(c, p) = [c EXCEPT !.profiles = f, !.default = d]
  BY DEF Without, Config
<1> HIDE DEF d, f
<1>6. [c EXCEPT !.profiles = f, !.default = d] \in Config
  BY <1>1, <1>3, ConfigTyped
<1>7. Without(c, p).profiles = f /\ Without(c, p).valid = c.valid /\ Without(c, p).default = d
  BY <1>5 DEF Config
<1>8. Names(Without(c, p)) = left
  BY <1>1, <1>7 DEF Names
<1> QED  BY <1>1, <1>4, <1>5, <1>6, <1>7, <1>8

LEMMA RenamedTyped ==
    ASSUME NEW c \in Config, NEW p \in Names(c), NEW new \in Profile \ Names(c)
    PROVE  /\ Renamed(c, p, new) \in Config /\ Names(Renamed(c, p, new)) = (Names(c) \ {p}) \cup {new}
           /\ \A q \in Names(c) \ {p} : Renamed(c, p, new).profiles[q] = c.profiles[q]
           /\ Renamed(c, p, new).profiles[new] = c.profiles[p]
           /\ Renamed(c, p, new).valid = c.valid
           /\ c.default \in Names(c) \cup {Default} =>
                 Renamed(c, p, new).default \in Names(Renamed(c, p, new)) \cup {Default}
<1> DEFINE names == (Names(c) \ {p}) \cup {new}
           f == [q \in names |-> IF q = new THEN c.profiles[p] ELSE c.profiles[q]]
           d == IF c.default = p THEN new ELSE c.default
<1>1. f \in [names -> Saved] /\ names \in SUBSET Profile /\ d \in Profile
  BY ConfigTyped
<1>2. c.default \in Names(c) \cup {Default} => d \in names \cup {Default}
  OBVIOUS
<1>3. Renamed(c, p, new) = [c EXCEPT !.profiles = f, !.default = d]
  BY DEF Renamed, Config
<1>4. \A q \in names : f[q] = IF q = new THEN c.profiles[p] ELSE c.profiles[q]
  OBVIOUS
<1>5. DOMAIN f = names
  OBVIOUS
<1> HIDE DEF d, f
<1>6. [c EXCEPT !.profiles = f, !.default = d] \in Config
  BY <1>1, ConfigTyped
<1>7. Renamed(c, p, new).profiles = f /\ Renamed(c, p, new).valid = c.valid /\ Renamed(c, p, new).default = d
  BY <1>3 DEF Config
<1>8. Names(Renamed(c, p, new)) = names
  BY <1>5, <1>7 DEF Names
<1> QED  BY <1>2, <1>3, <1>4, <1>6, <1>7, <1>8

\* What a login, an activation and a selection make of a configuration.
LEMMA LoginTyped ==
    ASSUME NEW c \in Config, NEW s \in Shell, NEW p \in Profile, NEW x \in Recorded
    PROVE  /\ WithLogin(s, c, p, x) \in Config /\ Names(WithLogin(s, c, p, x)) = Names(c) \cup {p}
           /\ WithLogin(s, c, p, x).profiles[p].owner = Personal
           /\ WithLogin(s, c, p, x).profiles[p].store = x.store
           /\ WithLogin(s, c, p, x).profiles[p].api = x.api
           /\ WithLogin(s, c, p, x).profiles[p].selected = ProfileOf(s, c, p).selected
           /\ \A q \in Names(c) : q # p => WithLogin(s, c, p, x).profiles[q] = c.profiles[q]
           /\ WithLogin(s, c, p, x).valid = c.valid /\ WithLogin(s, c, p, x).default = c.default
<1> DEFINE saved == [ProfileOf(s, c, p) EXCEPT !.store = x.store, !.owner = Personal, !.api = x.api]
<1>1. ProfileOf(s, c, p) \in Saved
  BY ProfileTyped
<1>2. saved \in Saved
  BY <1>1, SavedTyped DEF Recorded
<1>3. /\ saved.owner = Personal /\ saved.store = x.store /\ saved.api = x.api
      /\ saved.selected = ProfileOf(s, c, p).selected
  BY <1>1 DEF Saved
<1>4. WithLogin(s, c, p, x) = Put(c, p, saved)
  BY DEF WithLogin
<1> HIDE DEF saved
<1> QED  BY <1>2, <1>3, <1>4, PutTyped

LEMMA ActivateTyped ==
    ASSUME NEW c \in Config, NEW s \in Shell, NEW p \in Profile, NEW x \in Account
    PROVE  \E saved \in Saved :
             /\ Activate(s, c, p, x) = Put(c, p, saved)
             /\ saved.owner = ProfileOf(s, c, p).owner /\ saved.store = ProfileOf(s, c, p).store
             /\ saved.api = ProfileOf(s, c, p).api
             /\ saved.selected = Cache(ProfileOf(s, c, p), x).selected
             /\ s \in Integrated => saved.active = ProfileOf(s, c, p).active
<1> DEFINE old == Cache(ProfileOf(s, c, p), x)
           saved == [old EXCEPT !.active = IF s \in Integrated THEN @ ELSE x]
<1>1. /\ old \in Saved /\ old.owner = ProfileOf(s, c, p).owner /\ old.store = ProfileOf(s, c, p).store
      /\ old.api = ProfileOf(s, c, p).api /\ old.active = ProfileOf(s, c, p).active
  BY ProfileTyped, CacheTyped
<1>2. Activate(s, c, p, x) = Put(c, p, saved)
  BY DEF Activate
<1> HIDE DEF old
<1>3. /\ saved \in Saved /\ saved.owner = old.owner /\ saved.store = old.store
      /\ saved.api = old.api /\ saved.selected = old.selected
      /\ s \in Integrated => saved.active = old.active
  BY <1>1 DEF Saved
<1> QED  BY <1>1, <1>2, <1>3 DEF old

LEMMA SelectTyped ==
    ASSUME NEW c \in Config, NEW p \in Names(c), NEW x \in DOMAIN c.profiles[p].selected,
           NEW target \in Target \cup {None}
    PROVE  \E saved \in Saved :
             /\ [c EXCEPT !.profiles[p].selected[x] = target] = Put(c, p, saved)
             /\ saved.owner = c.profiles[p].owner /\ saved.store = c.profiles[p].store
             /\ saved.api = c.profiles[p].api /\ saved.active = c.profiles[p].active
             /\ DOMAIN saved.selected = DOMAIN c.profiles[p].selected
             /\ \A y \in DOMAIN saved.selected : y # x => saved.selected[y] = c.profiles[p].selected[y]
<1> DEFINE old == c.profiles[p]
           f == [old.selected EXCEPT ![x] = target]
           saved == [old EXCEPT !.selected = f]
<1>1. old \in Saved
  BY ConfigTyped
<1>2. f \in [DOMAIN old.selected -> Target \cup {None}] /\ DOMAIN old.selected \in SUBSET Account
  BY <1>1, SavedTyped
<1>3. saved \in Saved
  BY <1>1, <1>2, SavedTyped
<1>4. /\ saved.owner = old.owner /\ saved.store = old.store
      /\ saved.api = old.api /\ saved.active = old.active /\ saved.selected = f
  BY <1>1 DEF Saved
<1>5. [c EXCEPT !.profiles[p].selected[x] = target] = [c EXCEPT !.profiles = [@ EXCEPT ![p] = saved]]
  OBVIOUS
<1>6. [c.profiles EXCEPT ![p] = saved] = [q \in Names(c) \cup {p} |-> IF q = p THEN saved ELSE c.profiles[q]]
  BY ConfigTyped
<1>7. [c EXCEPT !.profiles[p].selected[x] = target] = Put(c, p, saved)
  BY <1>5, <1>6 DEF Put
<1>8. DOMAIN f = DOMAIN old.selected /\ \A y \in DOMAIN f : y # x => f[y] = old.selected[y]
  BY <1>2
<1> QED  BY <1>3, <1>4, <1>7, <1>8

\* A sign-out keeps all but the account of the user.
LEMMA ClearTyped ==
    ASSUME NEW c \in Config, NEW p \in Names(c)
    PROVE  \E saved \in Saved :
             /\ [c EXCEPT !.profiles[p].owner = None] = Put(c, p, saved)
             /\ saved.owner = None /\ saved.api = c.profiles[p].api
             /\ saved.selected = c.profiles[p].selected
<1> DEFINE old == c.profiles[p]
           saved == [old EXCEPT !.owner = None]
<1>1. old \in Saved
  BY ConfigTyped
<1>2. saved \in Saved
  BY <1>1, SavedTyped
<1>3. saved.owner = None /\ saved.api = old.api /\ saved.selected = old.selected
  BY <1>1 DEF Saved
<1>4. [c EXCEPT !.profiles[p].owner = None] = [c EXCEPT !.profiles = [@ EXCEPT ![p] = saved]]
  OBVIOUS
<1>5. [c.profiles EXCEPT ![p] = saved] = [q \in Names(c) \cup {p} |-> IF q = p THEN saved ELSE c.profiles[q]]
  BY ConfigTyped
<1>6. [c EXCEPT !.profiles[p].owner = None] = Put(c, p, saved)
  BY <1>4, <1>5 DEF Put
<1> QED  BY <1>2, <1>3, <1>6

\* What a configuration keeps of a profile's credentials.
Alike(c, d, q) ==
    /\ SignedIn(d, q) <=> SignedIn(c, q)
    /\ SignedIn(c, q) => d.profiles[q].store = c.profiles[q].store /\ d.profiles[q].api = c.profiles[q].api

\* A profile whose entry does not change, or changes elsewhere.
LEMMA PutAlike ==
    ASSUME NEW c \in Config, NEW p \in Profile, NEW saved \in Saved, NEW q \in Profile,
           q = p => /\ q \in Names(c) => /\ saved.owner = c.profiles[q].owner
                                         /\ saved.store = c.profiles[q].store
                                         /\ saved.api = c.profiles[q].api
                    /\ q \notin Names(c) => saved.owner = None
    PROVE  Alike(c, Put(c, p, saved), q)
BY PutTyped DEF Alike, SignedIn

\* The same for a step of a command.
LEMMA StepTyped ==
    ASSUME NEW step \in StepType
    PROVE  /\ step.p \in Profile \cup {None}
           /\ step.do \in Credential \cup (InSession \ {"restart"}) \cup {"default", "sync", "endpoints", "cache",
                 "activate", "ensure", "select"} => step.p \in Profile
           /\ step.do = "hold" => step.x \in Store
           /\ step.do = "metadata" => step.x \in Recorded
           /\ step.do \in {"rename", "follow"} => step.x \in Profile
           /\ step.do = "restart" => step.p = Default
           /\ step.do \in {"cache", "activate", "act"} => step.x \in Account
           /\ step.do = "ensure" => step.x \in [account: Account \cup {None}, option: BOOLEAN,
                                                target: Target \cup {None}, owner: Account]
           /\ step.do = "select" => step.x \in [account: Account, target: Target \cup {None}]
           /\ step.do = "prefer" => step.x \in Preferences
           /\ step.do = "baseline" => step.x \in SUBSET Profile
           /\ step.do \in {"hold", "metadata", "drop", "dropOld", "dropAll", "clear", "remove", "leave", "enter",
                           "default", "sync", "endpoints", "rename", "follow", "restart", "cache", "activate",
                           "act", "ensure", "select", "prefer", "baseline"}
<1>1. \/ step.do = "hold" /\ step.p \in Profile /\ step.x \in Store
      \/ step.do = "metadata" /\ step.p \in Profile /\ step.x \in Recorded
      \/ /\ step.do \in {"drop", "dropOld", "dropAll", "clear", "remove", "leave", "enter", "default", "sync",
                        "endpoints"}
         /\ step.p \in Profile
      \/ step.do \in {"rename", "follow"} /\ step.p \in Profile /\ step.x \in Profile
      \/ step.do = "restart" /\ step.p = Default
      \/ step.do \in {"cache", "activate", "act"} /\ step.p \in Profile /\ step.x \in Account
      \/ /\ step.do = "ensure" /\ step.p \in Profile
         /\ step.x \in [account: Account \cup {None}, option: BOOLEAN, target: Target \cup {None}, owner: Account]
      \/ /\ step.do = "select" /\ step.p \in Profile
         /\ step.x \in [account: Account, target: Target \cup {None}]
      \/ step.do = "prefer" /\ step.p = None /\ step.x \in Preferences
      \/ step.do = "baseline" /\ step.p = None /\ step.x \in SUBSET Profile
  BY DEF StepType
<1> QED  BY <1>1, ProfilesAssumption DEF Credential, InSession

\* What each step makes of the configuration it loaded.
CredentialsOf(c, d, step) ==
    \A q \in Profile :
        \/ step.do = "baseline" \/ (step.do = "rename" /\ q = step.x)
        \/ q = step.p /\ step.do \in {"metadata", "clear", "remove", "rename"}
        \/ Alike(c, d, q)

LEMMA ChangedTyped ==
    ASSUME NEW c \in Config, NEW s \in Shell, NEW step \in StepType,
           step.do \in InConfig, Applies(c, step),
           step.do = "rename" => step.p \in Names(c) /\ step.x \notin Names(c)
    PROVE  /\ Changed(s, c, step) \in Config /\ CredentialsOf(c, Changed(s, c, step), step)
           /\ c.valid \/ step.do = "baseline" => Changed(s, c, step).valid
           /\ step.do \notin {"remove", "rename", "baseline"} => Names(c) \subseteq Names(Changed(s, c, step))
           /\ step.do \in {"clear", "remove", "rename"} => ~SignedIn(Changed(s, c, step), step.p)
           /\ step.do = "clear" => Changed(s, c, step).profiles[step.p].api = c.profiles[step.p].api
           /\ step.do = "remove" => step.p \notin Names(Changed(s, c, step))
           /\ step.do = "baseline" => Names(Changed(s, c, step)) = {}
           /\ step.do = "metadata" =>
                 /\ SignedIn(Changed(s, c, step), step.p)
                 /\ Changed(s, c, step).profiles[step.p].store = step.x.store
                 /\ Changed(s, c, step).profiles[step.p].api = step.x.api
           /\ c.default \in Names(c) \cup {Default} /\ (step.do = "default" => step.p \in Names(c)) =>
                 Changed(s, c, step).default \in Names(Changed(s, c, step)) \cup {Default}
<1> DEFINE d == Changed(s, c, step)
           p == step.p
           Goal == /\ d \in Config /\ CredentialsOf(c, d, step)
                   /\ c.valid \/ step.do = "baseline" => d.valid
                   /\ step.do \notin {"remove", "rename", "baseline"} => Names(c) \subseteq Names(d)
                   /\ step.do \in {"clear", "remove", "rename"} => ~SignedIn(d, p)
                   /\ step.do = "clear" => d.profiles[p].api = c.profiles[p].api
                   /\ step.do = "remove" => p \notin Names(d)
                   /\ step.do = "baseline" => Names(d) = {}
                   /\ step.do = "metadata" => /\ SignedIn(d, p) /\ d.profiles[p].store = step.x.store
                                              /\ d.profiles[p].api = step.x.api
                   /\ c.default \in Names(c) \cup {Default} /\ (step.do = "default" => p \in Names(c)) =>
                         d.default \in Names(d) \cup {Default}
<1> SUFFICES Goal
  OBVIOUS
<1>1. Personal # None /\ Names(c) \subseteq Profile
  BY ProfilesAssumption, NoneAssumption, ConfigTyped
<1>2. CASE step.do = "prefer"
  <2>1. d = [c EXCEPT !.store = step.x] /\ step.x \in Preferences
    BY <1>2, StepTyped DEF Changed
  <2>2. d \in Config /\ d.profiles = c.profiles /\ d.valid = c.valid /\ d.default = c.default
    BY <2>1, ConfigTyped DEF Config
  <2> HIDE DEF d
  <2> QED  BY <1>2, <2>2 DEF CredentialsOf, Alike, SignedIn, Names
<1>3. CASE step.do = "default"
  <2>1. d = [c EXCEPT !.default = p] /\ p \in Profile
    BY <1>3, StepTyped DEF Changed
  <2>2. d \in Config /\ d.profiles = c.profiles /\ d.valid = c.valid /\ d.default = p
    BY <2>1, ConfigTyped DEF Config
  <2> HIDE DEF d
  <2> QED  BY <1>3, <2>2 DEF CredentialsOf, Alike, SignedIn, Names
<1>4. CASE step.do = "baseline"
  <2>1. d = Baseline
    BY <1>4 DEF Changed
  <2> HIDE DEF d
  <2> QED  BY <1>4, <2>1, BaselineTyped DEF CredentialsOf
<1>5. CASE step.do = "remove"
  <2>1. d = Without(c, p) /\ p \in Profile
    BY <1>5, StepTyped DEF Changed, Credential
  <2> HIDE DEF d
  <2>2. /\ d \in Config /\ Names(d) = Names(c) \ {p} /\ d.valid = c.valid
        /\ \A q \in Names(c) \ {p} : d.profiles[q] = c.profiles[q]
        /\ c.default \in Names(c) \cup {Default} => d.default \in Names(d) \cup {Default}
    BY <2>1, WithoutTyped
  <2> QED  BY <1>5, <2>2 DEF CredentialsOf, Alike, SignedIn
<1>6. CASE step.do = "rename"
  <2>1. d = Renamed(c, p, step.x) /\ p \in Names(c) /\ step.x \in Profile \ Names(c)
    BY <1>6, StepTyped DEF Changed
  <2> HIDE DEF d
  <2>2. /\ d \in Config /\ Names(d) = (Names(c) \ {p}) \cup {step.x} /\ d.valid = c.valid
        /\ \A q \in Names(c) \ {p} : d.profiles[q] = c.profiles[q]
        /\ c.default \in Names(c) \cup {Default} => d.default \in Names(d) \cup {Default}
    BY <2>1, RenamedTyped
  <2> QED  BY <1>6, <2>1, <2>2 DEF CredentialsOf, Alike, SignedIn
<1>7. CASE step.do = "metadata"
  <2>1. d = WithLogin(s, c, p, step.x) /\ p \in Profile /\ step.x \in Recorded
    BY <1>7, StepTyped DEF Changed, Credential
  <2> HIDE DEF d
  <2>2. /\ d \in Config /\ Names(d) = Names(c) \cup {p} /\ d.valid = c.valid /\ d.default = c.default
        /\ d.profiles[p].owner = Personal /\ d.profiles[p].store = step.x.store
        /\ d.profiles[p].api = step.x.api
        /\ \A q \in Names(c) : q # p => d.profiles[q] = c.profiles[q]
    BY <2>1, LoginTyped
  <2> QED  BY <1>1, <1>7, <2>2 DEF CredentialsOf, Alike, SignedIn
<1>8. CASE step.do = "clear"
  <2> HIDE DEF d
  <2>1. p \in Names(c) /\ d = [c EXCEPT !.profiles[p].owner = None]
    BY <1>8 DEF Changed, Applies, d
  <2>2. PICK saved \in Saved : d = Put(c, p, saved) /\ saved.owner = None /\ saved.api = c.profiles[p].api
    BY <2>1, ClearTyped
  <2>4. p \in Profile
    BY <1>1, <2>1
  <2>3. /\ d \in Config /\ Names(d) = Names(c) \cup {p} /\ d.valid = c.valid /\ d.default = c.default
        /\ d.profiles[p] = saved /\ \A q \in Names(c) : q # p => d.profiles[q] = c.profiles[q]
    BY <2>2, <2>4, PutTyped
  <2> QED  BY <1>8, <2>2, <2>3 DEF CredentialsOf, Alike, SignedIn
\* The other steps change what has nothing to do with credentials.
<1>9. ASSUME NEW saved \in Saved, d = Put(c, p, saved), p \in Profile,
             step.do \in {"endpoints", "cache", "activate", "select"},
             p \in Names(c) => /\ saved.owner = c.profiles[p].owner /\ saved.store = c.profiles[p].store
                               /\ saved.api = c.profiles[p].api,
             p \notin Names(c) => saved.owner = None
      PROVE  Goal
  <2> HIDE DEF d
  <2>1. \A q \in Profile : Alike(c, d, q)
    BY <1>9, PutAlike
  <2>2. /\ d \in Config /\ Names(d) = Names(c) \cup {p} /\ d.valid = c.valid /\ d.default = c.default
    BY <1>9, PutTyped
  <2> QED  BY <1>9, <2>1, <2>2 DEF CredentialsOf
<1>10. CASE step.do = "endpoints"
  <2>1. d = Put(c, p, ProfileOf(s, c, p)) /\ p \in Profile
    BY <1>10, StepTyped DEF Changed
  <2> HIDE DEF d, Goal
  <2> QED  BY <1>9, <1>10, <2>1, ProfileTyped
<1>11. CASE step.do = "cache"
  <2>1. d = Put(c, p, Cache(ProfileOf(s, c, p), step.x)) /\ p \in Profile /\ step.x \in Account
    BY <1>11, StepTyped DEF Changed
  <2>2. /\ Cache(ProfileOf(s, c, p), step.x) \in Saved
        /\ Cache(ProfileOf(s, c, p), step.x).owner = ProfileOf(s, c, p).owner
        /\ Cache(ProfileOf(s, c, p), step.x).store = ProfileOf(s, c, p).store
        /\ Cache(ProfileOf(s, c, p), step.x).api = ProfileOf(s, c, p).api
    BY <2>1, ProfileTyped, CacheTyped
  <2> HIDE DEF d, Goal
  <2> QED  BY <1>9, <1>11, <2>1, <2>2, ProfileTyped
<1>12. CASE step.do = "activate"
  <2>1. d = Activate(s, c, p, step.x) /\ p \in Profile /\ step.x \in Account
    BY <1>12, StepTyped DEF Changed
  <2>2. PICK saved \in Saved :
           /\ d = Put(c, p, saved)
           /\ saved.owner = ProfileOf(s, c, p).owner /\ saved.store = ProfileOf(s, c, p).store
           /\ saved.api = ProfileOf(s, c, p).api
    BY <2>1, ActivateTyped
  <2> HIDE DEF d, Goal
  <2> QED  BY <1>9, <1>12, <2>1, <2>2, ProfileTyped
<1>13. CASE step.do = "select"
  <2> DEFINE account == step.x.account
             target == step.x.target
  <2>1. /\ d = [c EXCEPT !.profiles[p].selected[account] = target]
        /\ p \in Names(c) /\ account \in DOMAIN c.profiles[p].selected
        /\ target \in Target \cup {None}
    BY <1>13, StepTyped DEF Changed, Applies
  <2> HIDE DEF d, account, target, Goal
  <2>2. PICK saved \in Saved :
           /\ d = Put(c, p, saved)
           /\ saved.owner = c.profiles[p].owner /\ saved.store = c.profiles[p].store
           /\ saved.api = c.profiles[p].api
    <3>1. \E saved \in Saved :
             /\ [c EXCEPT !.profiles[p].selected[account] = target] = Put(c, p, saved)
             /\ saved.owner = c.profiles[p].owner /\ saved.store = c.profiles[p].store
             /\ saved.api = c.profiles[p].api
      <4>1. c \in Config /\ p \in Names(c) /\ account \in DOMAIN c.profiles[p].selected
            /\ target \in Target \cup {None}
        BY <1>1, <2>1
      <4> HIDE DEF p
      <4> QED  BY <4>1, SelectTyped
    <3> QED  BY <2>1, <3>1
  <2> QED  BY <1>1, <1>9, <1>13, <2>1, <2>2
<1> QED  BY <1>2, <1>3, <1>4, <1>5, <1>6, <1>7, <1>8, <1>10, <1>11, <1>12, <1>13 DEF InConfig

-----------------------------------------------------------------------------
(* The steps that are left *)

\* A command has done its first step; one on the session that follows may fall out with it.
Goes(todo, new) ==
    /\ todo # << >>
    /\ \/ new = Tail(todo)
       \/ Tail(todo) # << >> /\ Head(Tail(todo)).do \in InSession /\ new = Tail(Tail(todo))

\* What is left is what was left but the first step, and in the same order.
LEMMA GoesOn ==
    ASSUME NEW todo \in Seq(StepType), NEW new, Goes(todo, new)
    PROVE  /\ Head(todo) \in StepType /\ new \in Seq(StepType) /\ new # todo
           /\ \A i \in DOMAIN new : \E j \in DOMAIN todo : j > 1 /\ new[i] = todo[j]
           /\ \A j \in DOMAIN todo : \/ todo[j] = Head(todo) \/ todo[j].do \in InSession
                                     \/ \E i \in DOMAIN new : new[i] = todo[j]
           /\ WellFormed(todo) => WellFormed(new)
           /\ WellFormed(todo) /\ new # << >> /\ Head(new).do = "leave" => Head(todo).do = "remove"
<1> DEFINE k == IF new = Tail(todo) THEN 1 ELSE 2
<1>1. /\ todo # << >> /\ Len(todo) \in Nat /\ Len(todo) > 0 /\ DOMAIN todo = 1..Len(todo)
      /\ 1 \in DOMAIN todo /\ Head(todo) = todo[1]
      /\ \A j \in DOMAIN todo : todo[j] \in StepType
  BY DEF Goes
<1>2. /\ Tail(todo) \in Seq(StepType) /\ Len(Tail(todo)) = Len(todo) - 1
      /\ \A i \in 1..(Len(todo) - 1) : Tail(todo)[i] = todo[i + 1]
  BY <1>1
<1>3. /\ new \in Seq(StepType) /\ Len(new) = Len(todo) - k /\ k \in {1, 2}
      /\ \A i \in 1..Len(new) : new[i] = todo[i + k]
      /\ k = 2 => 2 \in DOMAIN todo /\ todo[2].do \in InSession
  <2>1. CASE new = Tail(todo)
    BY <1>1, <1>2, <2>1
  <2>2. CASE new # Tail(todo)
    <3> DEFINE tail == Tail(todo)
    <3>1. tail # << >> /\ Head(tail).do \in InSession /\ new = Tail(tail) /\ k = 2
      BY <2>2 DEF Goes
    <3>2. tail \in Seq(StepType) /\ Len(tail) = Len(todo) - 1
          /\ \A i \in 1..(Len(todo) - 1) : tail[i] = todo[i + 1]
      BY <1>2
    <3> HIDE DEF tail, k
    <3>3. Len(tail) > 0 /\ Head(tail) = tail[1] /\ new \in Seq(StepType) /\ Len(new) = Len(tail) - 1
          /\ \A i \in 1..Len(new) : new[i] = tail[i + 1]
      BY ONLY <3>1, <3>2
    <3>4. 1 \in 1..(Len(todo) - 1) /\ 2 \in DOMAIN todo
      BY ONLY <1>1, <3>2, <3>3
    <3>7. tail[1] = todo[2]
      BY ONLY <3>2, <3>4
    <3>5. \A i \in 1..Len(new) : i + 1 \in 1..(Len(todo) - 1) /\ (i + 1) + 1 = i + 2
      BY ONLY <1>1, <3>2, <3>3
    <3>6. \A i \in 1..Len(new) : new[i] = todo[i + 2]
      BY ONLY <3>2, <3>3, <3>5
    <3>8. Len(new) = Len(todo) - 2
      BY ONLY <1>1, <3>2, <3>3
    <3>9. k \in {1, 2} /\ Len(new) = Len(todo) - k /\ \A i \in 1..Len(new) : new[i] = todo[i + k]
      BY ONLY <3>1, <3>6, <3>8
    <3> QED  BY ONLY <3>1, <3>3, <3>4, <3>7, <3>9
  <2> QED  BY <2>1, <2>2
<1> HIDE DEF k
<1>4. DOMAIN new = 1..Len(new) /\ Len(new) \in Nat
  BY <1>3
<1>5. \A i \in DOMAIN new : i + k \in DOMAIN todo /\ i + k > 1 /\ new[i] = todo[i + k] /\ i \in Nat
  BY <1>1, <1>3, <1>4
<1>6. \A j \in DOMAIN todo : j > k => j - k \in DOMAIN new /\ new[j - k] = todo[j] /\ j \in Nat
  <2> SUFFICES ASSUME NEW j \in DOMAIN todo, j > k
               PROVE  j - k \in DOMAIN new /\ new[j - k] = todo[j] /\ j \in Nat
    OBVIOUS
  <2>1. j \in Nat /\ j - k \in 1..Len(new) /\ (j - k) + k = j
    BY <1>1, <1>3
  <2> QED  BY <1>3, <1>4, <2>1
<1>7. \A j \in DOMAIN todo : \/ todo[j] = Head(todo) \/ todo[j].do \in InSession
                             \/ \E i \in DOMAIN new : new[i] = todo[j]
  <2> SUFFICES ASSUME NEW j \in DOMAIN todo, ~(j > k)
               PROVE  todo[j] = Head(todo) \/ todo[j].do \in InSession
    BY <1>6
  <2>1. j = 1 \/ (j = 2 /\ k = 2)
    BY <1>1, <1>3
  <2> QED  BY <1>1, <1>3, <2>1
<1>8. ASSUME WellFormed(todo) PROVE WellFormed(new)
  <2> USE DEF WellFormed
  <2>1. Ordered(new)
    <3> SUFFICES ASSUME NEW i \in DOMAIN new, NEW j \in DOMAIN new, i < j, new[i].p = new[j].p,
                        new[i].do \in Credential, new[j].do \in Credential
                 PROVE  /\ <<new[i].do, new[j].do>> \in Follows
                        /\ new[i].do = "hold" => new[j].x.store = new[i].x
      BY DEF Ordered
    <3>1. /\ i + k \in DOMAIN todo /\ j + k \in DOMAIN todo /\ i + k < j + k
          /\ new[i] = todo[i + k] /\ new[j] = todo[j + k]
      BY <1>3, <1>5
    <3> QED  BY <1>8, <3>1 DEF Ordered
  <2>2. Completed(new)
    <3> SUFFICES ASSUME NEW i \in DOMAIN new
                 PROVE  /\ new[i].do = "hold" => \E j \in DOMAIN new : j > i /\ new[j].do = "metadata" /\ new[j].p = new[i].p
                        /\ new[i].do = "drop" => \E j \in DOMAIN new : j > i /\ new[j].do = "clear" /\ new[j].p = new[i].p
                        /\ new[i].do = "dropAll" => \E j \in DOMAIN new : j > i /\ new[j].do = "baseline" /\ new[i].p \in new[j].x
      BY DEF Completed
    <3>1. i + k \in DOMAIN todo /\ new[i] = todo[i + k] /\ i \in Nat
      BY <1>5
    <3>2. \A j \in DOMAIN todo : j > i + k => j - k \in DOMAIN new /\ new[j - k] = todo[j] /\ j - k > i
      BY <1>1, <1>3, <1>6, <3>1
    <3>3. /\ new[i].do = "hold" => \E j \in DOMAIN todo : j > i + k /\ todo[j].do = "metadata" /\ todo[j].p = new[i].p
          /\ new[i].do = "drop" => \E j \in DOMAIN todo : j > i + k /\ todo[j].do = "clear" /\ todo[j].p = new[i].p
          /\ new[i].do = "dropAll" => \E j \in DOMAIN todo : j > i + k /\ todo[j].do = "baseline" /\ new[i].p \in todo[j].x
      BY <1>8, <3>1 DEF Completed
    <3> QED  BY <3>2, <3>3
  <2>3. Placed(new)
    <3> SUFFICES ASSUME NEW i \in DOMAIN new, NEW j \in DOMAIN new
                 PROVE  /\ i < j => /\ new[i].do \notin Final
                                    /\ new[i].do = "remove" => new[j].do = "leave"
                                    /\ new[j].do \notin {"rename", "default"}
                                    /\ new[i].do = "baseline" => new[j].do = "restart"
                        /\ j = i + 1 /\ new[j].do = "leave" => new[i].do = "remove"
                        /\ new[i].do \in ResetSteps => new[j].do \in ResetSteps
      BY DEF Placed
    <3>1. /\ i + k \in DOMAIN todo /\ j + k \in DOMAIN todo /\ (i < j => i + k < j + k)
          /\ j = i + 1 => j + k = (i + k) + 1
          /\ new[i] = todo[i + k] /\ new[j] = todo[j + k]
      <4>1. i \in Nat /\ j \in Nat
        BY <1>5
      <4>2. i + k \in DOMAIN todo /\ new[i] = todo[i + k]
        BY <1>5
      <4>3. j + k \in DOMAIN todo /\ new[j] = todo[j + k]
        BY <1>5
      <4>4. (i < j => i + k < j + k) /\ (j = i + 1 => j + k = (i + k) + 1)
        BY <1>3, <4>1
      <4> QED  BY <4>2, <4>3, <4>4
    <3>2. ASSUME i < j
          PROVE  /\ new[i].do \notin Final
                 /\ new[i].do = "remove" => new[j].do = "leave"
                 /\ new[j].do \notin {"rename", "default"}
                 /\ new[i].do = "baseline" => new[j].do = "restart"
      <4>1. i + k < j + k
        BY <3>1, <3>2
      <4>2. /\ todo[i + k].do \notin Final
            /\ todo[i + k].do = "remove" => todo[j + k].do = "leave"
            /\ todo[j + k].do \notin {"rename", "default"}
            /\ todo[i + k].do = "baseline" => todo[j + k].do = "restart"
        BY <1>8, <3>1, <4>1 DEF Placed
      <4> QED  BY <3>1, <4>2
    <3>3. ASSUME j = i + 1, new[j].do = "leave"
          PROVE  new[i].do = "remove"
      BY <1>8, <3>1, <3>3 DEF Placed
    <3>4. new[i].do \in ResetSteps => new[j].do \in ResetSteps
      BY <1>8, <3>1 DEF Placed
    <3> QED  BY <3>2, <3>3, <3>4
  <2> QED  BY <2>1, <2>2, <2>3
<1>9. new # todo
  BY <1>1, <1>3
<1>10. ASSUME WellFormed(todo), new # << >>, Head(new).do = "leave" PROVE Head(todo).do = "remove"
  <2>1. 1 \in DOMAIN new /\ Head(new) = new[1]
    BY <1>3, <1>10
  <2>2. 1 + k \in DOMAIN todo /\ todo[1 + k].do = "leave"
    BY <1>5, <1>10, <2>1
  <2>3. k \in DOMAIN todo /\ 1 + k = k + 1 /\ k \in {1, 2}
    BY <1>1, <1>3
  <2>4. todo[k].do = "remove"
    BY <1>10, <2>2, <2>3 DEF WellFormed, Placed
  <2> QED  BY <1>1, <1>3, <2>3, <2>4 DEF InSession
<1> QED  BY <1>1, <1>3, <1>5, <1>7, <1>8, <1>9, <1>10

\* What a command has left to do for a profile is what it had, but for its first step.
LEMMA GoesTouches ==
    ASSUME NEW todo \in Seq(StepType), NEW new, Goes(todo, new), NEW p \in Profile
    PROVE  /\ p \in Touched(todo) <=> Touches(Head(todo), p) \/ p \in Touched(new)
           /\ \A dos \in SUBSET Credential :
                 Has(todo, dos, p) <=> (Head(todo).do \in dos /\ Head(todo).p = p) \/ Has(new, dos, p)
           /\ Resets(todo) /\ WellFormed(todo) /\ Head(todo).do # "restart" =>
                 Head(todo).do \in {"dropAll", "baseline"}
           /\ Resets(new) => Resets(todo)
           /\ new # << >> /\ Resets(todo) /\ WellFormed(todo) => Resets(new)
<1>1. /\ \A i \in DOMAIN new : \E j \in DOMAIN todo : new[i] = todo[j]
      /\ \A j \in DOMAIN todo : \/ todo[j] = Head(todo) \/ todo[j].do \in InSession
                                \/ \E i \in DOMAIN new : new[i] = todo[j]
      /\ new \in Seq(StepType)
  BY GoesOn
<1>2. todo # << >> /\ 1 \in DOMAIN todo /\ Head(todo) = todo[1]
  BY DEF Goes
<1>3. \A step : step.do \in InSession => ~Touches(step, p) /\ step.do \notin Credential
  BY DEF InSession, Touches, Credential
<1>4. p \in Touched(todo) <=> Touches(Head(todo), p) \/ p \in Touched(new)
  BY <1>1, <1>2, <1>3 DEF Touched
<1>5. ASSUME NEW dos \in SUBSET Credential
      PROVE  Has(todo, dos, p) <=> (Head(todo).do \in dos /\ Head(todo).p = p) \/ Has(new, dos, p)
  BY <1>1, <1>2, <1>3 DEF Has
<1>6. Resets(new) => Resets(todo)
  BY <1>1 DEF Resets
<1>7. Resets(todo) /\ WellFormed(todo) => \A j \in DOMAIN todo : todo[j].do \in ResetSteps
  BY DEF Resets, WellFormed, Placed
<1>8. new # << >> => 1 \in DOMAIN new
  BY <1>1
<1> QED  BY <1>1, <1>2, <1>4, <1>5, <1>6, <1>7, <1>8 DEF Resets, ResetSteps

\* What the first step says of those after it.
LEMMA HeadRest ==
    ASSUME NEW todo \in Seq(StepType), WellFormed(todo), NEW new, Goes(todo, new)
    PROVE  /\ \A i \in DOMAIN new :
                 /\ new[i].p = Head(todo).p /\ new[i].do \in Credential /\ Head(todo).do \in Credential =>
                       /\ <<Head(todo).do, new[i].do>> \in Follows
                       /\ Head(todo).do = "hold" => new[i].x.store = Head(todo).x
                 /\ Head(todo).do \notin Final
                 /\ Head(todo).do = "remove" => new[i].do = "leave"
                 /\ Head(todo).do = "baseline" => new[i].do = "restart"
                 /\ new[i].do \notin {"rename", "default"}
                 /\ new[i].do \in ResetSteps <=> Head(todo).do \in ResetSteps
           /\ Head(todo).do = "hold" => Has(new, {"metadata"}, Head(todo).p)
           /\ Head(todo).do = "drop" => Has(new, {"clear"}, Head(todo).p)
           /\ Head(todo).do = "dropAll" => \E i \in DOMAIN new : new[i].do = "baseline" /\ Head(todo).p \in new[i].x
<1>1. /\ \A i \in DOMAIN new : \E j \in DOMAIN todo : j > 1 /\ new[i] = todo[j]
      /\ \A j \in DOMAIN todo : \/ todo[j] = Head(todo) \/ todo[j].do \in InSession
                                \/ \E i \in DOMAIN new : new[i] = todo[j]
  BY GoesOn
<1>2. todo # << >> /\ 1 \in DOMAIN todo /\ Head(todo) = todo[1]
  BY DEF Goes
<1> DEFINE h == Head(todo)
<1>3. ASSUME NEW i \in DOMAIN new
      PROVE  /\ new[i].p = h.p /\ new[i].do \in Credential /\ h.do \in Credential =>
                   /\ <<h.do, new[i].do>> \in Follows
                   /\ h.do = "hold" => new[i].x.store = h.x
             /\ h.do \notin Final
             /\ h.do = "remove" => new[i].do = "leave"
             /\ h.do = "baseline" => new[i].do = "restart"
             /\ new[i].do \notin {"rename", "default"}
             /\ new[i].do \in ResetSteps <=> h.do \in ResetSteps
  <2>1. PICK j \in DOMAIN todo : j > 1 /\ new[i] = todo[j]
    BY <1>1
  <2>2. 1 < j
    BY <2>1
  <2>3. /\ todo[1].p = todo[j].p /\ todo[1].do \in Credential /\ todo[j].do \in Credential =>
             /\ <<todo[1].do, todo[j].do>> \in Follows
             /\ todo[1].do = "hold" => todo[j].x.store = todo[1].x
    BY <1>2, <2>2 DEF WellFormed, Ordered
  <2>4. /\ todo[1].do \notin Final
        /\ todo[1].do = "remove" => todo[j].do = "leave"
        /\ todo[1].do = "baseline" => todo[j].do = "restart"
        /\ todo[j].do \notin {"rename", "default"}
        /\ todo[j].do \in ResetSteps <=> todo[1].do \in ResetSteps
    BY <1>2, <2>2 DEF WellFormed, Placed
  <2> QED  BY <1>2, <2>1, <2>3, <2>4
<1>4. \A j \in DOMAIN todo : j > 1 /\ todo[j].do \in {"metadata", "clear", "baseline"} =>
         \E i \in DOMAIN new : new[i] = todo[j]
  <2> SUFFICES ASSUME NEW j \in DOMAIN todo, j > 1, todo[j].do \in {"metadata", "clear", "baseline"},
                      todo[j] = Head(todo)
               PROVE  FALSE
    BY <1>1 DEF InSession
  <2>1. /\ <<todo[1].do, todo[j].do>> \in Follows \/ todo[1].do = "baseline"
        /\ todo[1].do = "baseline" => todo[j].do = "restart"
    BY <1>2 DEF WellFormed, Ordered, Placed, Credential
  <2> QED  BY <1>2, <2>1 DEF Follows
<1>5. /\ h.do = "hold" => \E j \in DOMAIN todo : j > 1 /\ todo[j].do = "metadata" /\ todo[j].p = h.p
      /\ h.do = "drop" => \E j \in DOMAIN todo : j > 1 /\ todo[j].do = "clear" /\ todo[j].p = h.p
      /\ h.do = "dropAll" => \E j \in DOMAIN todo : j > 1 /\ todo[j].do = "baseline" /\ h.p \in todo[j].x
  BY <1>2 DEF WellFormed, Completed
<1> QED  BY <1>3, <1>4, <1>5 DEF Has

-----------------------------------------------------------------------------
(* What a step keeps *)

\* Shell s takes the step, and no other command's.
Only(s) == client' \in [Shell -> ClientState] /\ \A t \in Shell \ {s} : client'[t] = client[t]

\* The steps of a command keep their order and settle no profile.
Order == CommandsRun /\ OneCommand /\ RenameUnsettled

LEMMA OrderKept ==
    ASSUME TypeOK, Order, NEW s \in Shell, Only(s), cfg.valid => cfg'.valid, unsettled \subseteq unsettled',
           Touched(client'[s].todo) \subseteq Touched(client[s].todo) \cup unsettled',
           WellFormed(client'[s].todo), Checked(client'[s]),
           client'[s].todo # << >> => Resets(client'[s].todo) \/ cfg'.valid,
           client'[s].base # None => client'[s].base.valid,
           \A p \in Profile : Has(client'[s].todo, {"rename", "dropOld"}, p) =>
                              Has(client[s].todo, {"rename", "dropOld"}, p) \/ p \in unsettled'
    PROVE  Order'
<1>1. \A t \in Shell : t = s \/ client'[t] = client[t]
  BY DEF Only
<1>2. CommandsRun'
  <2> SUFFICES ASSUME NEW t \in Shell
               PROVE  Runs(client[t])' /\ Checked(client'[t])
    BY DEF CommandsRun, Checked
  <2>1. CASE t = s
    BY <2>1 DEF Runs
  <2>2. CASE client'[t] = client[t]
    BY <2>2 DEF Runs, Order, CommandsRun
  <2> QED  BY <1>1, <2>1, <2>2
<1>3. OneCommand'
  <2> SUFFICES ASSUME NEW p \in Profile, p \notin unsettled', NEW t \in Shell, NEW u \in Shell,
                      p \in Touched(client'[t].todo), p \in Touched(client'[u].todo)
               PROVE  t = u
    BY DEF OneCommand, Touched
  <2>1. p \notin unsettled /\ p \in Touched(client[t].todo) /\ p \in Touched(client[u].todo)
    BY <1>1
  <2> QED  BY <2>1 DEF Order, OneCommand
<1>4. RenameUnsettled'
  <2> SUFFICES ASSUME NEW t \in Shell, NEW p \in Profile, Has(client'[t].todo, {"rename", "dropOld"}, p)
               PROVE  p \in unsettled'
    BY DEF RenameUnsettled, Has
  <2>1. Has(client[t].todo, {"rename", "dropOld"}, p) \/ p \in unsettled'
    BY <1>1
  <2> QED  BY <2>1 DEF Order, RenameUnsettled
<1> QED  BY <1>2, <1>3, <1>4 DEF Order

\* What is promised of a profile does not change with what has nothing to do with it.
LEMMA PromiseStays ==
    ASSUME NEW p \in Profile, NEW todo, Promised(p, todo), HeldIn(p)' = HeldIn(p),
           \/ Alike(cfg, cfg', p)
           \/ Resets(todo) /\ WellFormed(todo)
    PROVE  Promised(p, todo)'
<1>1. CASE Alike(cfg, cfg', p)
  <2>1. SignedIn(cfg', p) <=> SignedIn(cfg, p)
    BY <1>1 DEF Alike
  <2>2. /\ SignedIn(cfg, p) => cfg'.profiles[p].store = cfg.profiles[p].store
                            /\ cfg'.profiles[p].api = cfg.profiles[p].api
    BY <1>1 DEF Alike
  <2> QED  BY <2>1, <2>2 DEF Promised, Matches, SignedIn, Has
<1>2. CASE Resets(todo) /\ WellFormed(todo)
  <2>1. \A i \in DOMAIN todo : todo[i].do \in ResetSteps
    BY <1>2 DEF Resets, WellFormed, Placed
  <2> QED  BY <2>1 DEF Promised, Has, ResetSteps
<1> QED  BY <1>1, <1>2

LEMMA MatchStays ==
    ASSUME NEW p \in Profile, HeldIn(p)' = HeldIn(p), Alike(cfg, cfg', p), Matches(p)
    PROVE  Matches(p)'
BY DEF Alike, SignedIn, Matches

\* A step that keeps its promises for the profiles its command is on, and leaves the
\* others, keeps every settled profile's credentials where they belong.
LEMMA SettledStep ==
    ASSUME TypeOK, Order, SettledKept, NEW s \in Shell, Only(s), unsettled \subseteq unsettled',
           Touched(client'[s].todo) \subseteq Touched(client[s].todo) \cup unsettled',
           \A p \in Profile \ unsettled' : p \notin Touched(client[s].todo) =>
              /\ HeldIn(p)' = HeldIn(p)
              /\ \/ Alike(cfg, cfg', p)
                 \/ \E t \in Shell : Resets(client[t].todo) /\ p \in Touched(client[t].todo),
           \A p \in Profile \ unsettled' : p \in Touched(client[s].todo) =>
              IF p \in Touched(client'[s].todo) THEN Promised(p, client[s].todo)' /\ NothingToClear(p, client[s])'
              ELSE Matches(p)'
    PROVE  SettledKept'
<1>1. \A t \in Shell : t = s \/ client'[t] = client[t]
  BY DEF Only
<1> SUFFICES ASSUME NEW p \in Profile, p \notin unsettled'
             PROVE  /\ (\A t \in Shell : p \notin Touched(client'[t].todo)) => Matches(p)'
                    /\ \A t \in Shell : p \in Touched(client'[t].todo) =>
                          Promised(p, client[t].todo)' /\ NothingToClear(p, client[t])'
  BY DEF SettledKept
<1>2. p \notin unsettled
  OBVIOUS
<1>3. CASE p \in Touched(client[s].todo)
  <2>1. \A t \in Shell : t # s => p \notin Touched(client'[t].todo)
    BY <1>1, <1>2, <1>3 DEF Order, OneCommand
  <2> QED  BY <1>3, <2>1
<1>4. CASE p \notin Touched(client[s].todo)
  <2>1. /\ HeldIn(p)' = HeldIn(p)
        /\ \/ Alike(cfg, cfg', p)
           \/ \E t \in Shell : Resets(client[t].todo) /\ p \in Touched(client[t].todo)
    BY <1>4
  <2>2. \A t \in Shell : p \in Touched(client'[t].todo) <=> p \in Touched(client[t].todo)
    BY <1>1, <1>4
  <2>3. ASSUME \A t \in Shell : p \notin Touched(client'[t].todo) PROVE Matches(p)'
    BY <1>2, <2>1, <2>2, <2>3, MatchStays DEF SettledKept
  <2>4. ASSUME NEW t \in Shell, p \in Touched(client'[t].todo)
        PROVE  Promised(p, client[t].todo)' /\ NothingToClear(p, client[t])'
    <3>1. t # s /\ client'[t] = client[t] /\ p \in Touched(client[t].todo)
      BY <1>1, <1>4, <2>2, <2>4
    <3>2. Promised(p, client[t].todo) /\ NothingToClear(p, client[t])
      BY <1>2, <3>1 DEF SettledKept
    <3>3. Alike(cfg, cfg', p) \/ Resets(client[t].todo)
      BY <1>2, <2>1, <3>1 DEF Order, OneCommand
    <3>4. WellFormed(client[t].todo)
      BY DEF Order, CommandsRun, Runs
    <3>5. PICK c : c = client[t]
      OBVIOUS
    <3>6. Promised(p, c.todo) /\ (Alike(cfg, cfg', p) \/ (Resets(c.todo) /\ WellFormed(c.todo)))
      BY <3>2, <3>3, <3>4, <3>5
    <3>7. Promised(p, c.todo)'
      BY <2>1, <3>6, PromiseStays
    <3>8. NothingToClear(p, c)'
      <4>1. Resets(c.todo) /\ WellFormed(c.todo) => \A i \in DOMAIN c.todo : c.todo[i].do \in ResetSteps
        BY DEF Resets, WellFormed, Placed
      <4>2. c.todo \in Seq(StepType)
        BY <3>5 DEF TypeOK, ClientState
      <4>3. c.todo # << >> => 1 \in DOMAIN c.todo /\ Head(c.todo) = c.todo[1]
        BY <4>2
      <4>4. CASE Resets(c.todo) /\ WellFormed(c.todo)
        BY <4>1, <4>3, <4>4 DEF NothingToClear, ResetSteps
      <4>5. CASE Alike(cfg, cfg', p)
        BY <3>2, <3>5, <4>5 DEF NothingToClear, Alike, SignedIn
      <4> QED  BY <3>6, <4>4, <4>5
    <3>9. c = client'[t]
      BY <3>1, <3>5
    <3> QED  BY <3>7, <3>8, <3>9 DEF Promised, NothingToClear, Has, Matches
  <2> QED  BY <2>3, <2>4
<1> QED  BY <1>3, <1>4

\* Names are there that a command is to rename or to make the default.
LEMMA NamesStep ==
    ASSUME TypeOK, Order, NamesThere, NEW s \in Shell, Only(s), unsettled \subseteq unsettled',
           \A t \in Shell \ {s}, p \in Names(cfg) \ Names(cfg') : ~Uses(t, p),
           \/ \A i \in DOMAIN client'[s].todo : client'[s].todo[i].do \in {"rename", "default"} =>
                 /\ client'[s].todo[i].p \in Names(cfg')
                 /\ client'[s].todo[i].do = "rename" => client'[s].todo[i].x \in unsettled'
           \/ client'[s].todo = client[s].todo /\ Names(cfg') = Names(cfg),
           \A p \in Profile : Resets(client[s].todo) /\ p \in Touched(client[s].todo) =>
              \/ p \in unsettled' \/ Names(cfg') = {}
              \/ Resets(client'[s].todo) /\ p \in Touched(client'[s].todo)
    PROVE  NamesThere'
<1>1. \A t \in Shell : t = s \/ client'[t] = client[t]
  BY DEF Only
<1>2. SUFFICES ASSUME NEW t \in Shell, NEW i \in DOMAIN client'[t].todo,
                      client'[t].todo[i].do \in {"rename", "default"}
               PROVE  /\ client'[t].todo[i].p \in Names(cfg')
                      /\ client'[t].todo[i].do = "rename" =>
                            client'[t].todo[i].x \in unsettled' \/ \E u \in Shell :
                                Resets(client'[u].todo) /\ client'[t].todo[i].x \in Touched(client'[u].todo)
  BY DEF NamesThere, Names, Resets, Touched
<1>3. SUFFICES ASSUME client'[t].todo = client[t].todo /\ (t # s \/ Names(cfg') = Names(cfg))
               PROVE  /\ client'[t].todo[i].p \in Names(cfg')
                      /\ client'[t].todo[i].do = "rename" =>
                            client'[t].todo[i].x \in unsettled' \/ \E u \in Shell :
                                Resets(client'[u].todo) /\ client'[t].todo[i].x \in Touched(client'[u].todo)
  BY <1>1, <1>2
<1> DEFINE step == client[t].todo[i]
<1>4. /\ i \in DOMAIN client[t].todo /\ step = client'[t].todo[i]
      /\ step.p \in Names(cfg)
      /\ step.do = "rename" => step.x \in unsettled \/ \E u \in Shell :
            Resets(client[u].todo) /\ step.x \in Touched(client[u].todo)
  BY <1>2, <1>3 DEF NamesThere
<1>5. step.p \in Names(cfg')
  <2>1. Uses(t, step.p)
    BY <1>4 DEF Uses
  <2> QED  BY <1>3, <1>4, <2>1
<1>6. ASSUME step.do = "rename", NEW u \in Shell, Resets(client[u].todo), step.x \in Touched(client[u].todo)
      PROVE  \/ step.x \in unsettled'
             \/ Resets(client'[u].todo) /\ step.x \in Touched(client'[u].todo)
  <2>1. step.x \in Profile
    BY <1>6 DEF Touched
  <2>2. CASE u = s
    BY <1>5, <1>6, <2>1, <2>2
  <2>3. CASE u # s
    BY <1>1, <1>6, <2>3
  <2> QED  BY <2>2, <2>3
<1> HIDE DEF step
<1> QED  BY <1>4, <1>5, <1>6

-----------------------------------------------------------------------------
(* Commands that begin *)

\* What the steps of a command know of the configuration it begins on.
Prepared(todo) ==
    /\ todo \in Seq(StepType) /\ WellFormed(todo)
    /\ todo # << >> /\ (Resets(todo) \/ cfg.valid) /\ Head(todo).do # "leave"
    /\ \A i \in DOMAIN todo :
          LET step == todo[i]
          IN /\ step.do \notin {"rename", "dropOld"}
             /\ step.do = "default" => step.p \in Names(cfg)
             /\ step.do = "metadata" =>
                   /\ Has(todo, {"hold"}, step.p)
                   /\ SignedIn(cfg, step.p) /\ ~step.x.given => step.x.api = cfg.profiles[step.p].api
             /\ step.do \in {"clear", "remove"} => Has(todo, {"drop"}, step.p)
             /\ step.do = "baseline" => \A p \in step.x : Has(todo, {"dropAll"}, p)

LEMMA IdleEmpty ==
    Idle \in ClientState /\ Idle.todo = << >> /\ Idle.base = None /\ Touched(Idle.todo) = {}
<1>1. << >> \in Seq(StepType) /\ DOMAIN << >> = {}
  OBVIOUS
<1> QED  BY <1>1 DEF Idle, ClientState, Touched

LEMMA StartKeeps ==
    ASSUME ProfilesInv, NEW s \in Shell, NEW todo, Prepared(todo), Start(s, todo)
    PROVE  ProfilesInv'
<1>1. /\ client[s] = Idle /\ commands < MaxCommands /\ commands' = commands + 1
      /\ client' = [client EXCEPT ![s].todo = todo]
      /\ unsettled' = {p \in Touched(todo) : Busy(p)} \cup
                      (unsettled \ {p \in Touched(todo) : \E i \in DOMAIN todo : todo[i].do = "baseline"})
      /\ cfg' = cfg /\ session' = session /\ held' = held /\ kills' = kills /\ raced' = raced
  BY DEF Start
<1>2. TypeOK /\ CommandsRun /\ OneCommand /\ RenameUnsettled /\ SessionOwnsAccount
  BY DEF ProfilesInv
<1>3. client' \in [Shell -> ClientState] /\ client'[s] = [todo |-> todo, base |-> None]
      /\ \A t \in Shell : t = s \/ client'[t] = client[t]
  BY <1>1, <1>2, IdleEmpty DEF TypeOK, ClientState, Idle, Prepared
<1>4. Touched(todo) \subseteq Profile
  BY DEF Touched
<1>5. TypeOK'
  <2>1. commands' \in 0..MaxCommands
    BY <1>1, <1>2, ProfilesAssumption DEF TypeOK
  <2> QED  BY <1>1, <1>2, <1>3, <1>4, <2>1 DEF TypeOK
<1>6. \A p \in Profile : p \notin unsettled' /\ p \in Touched(todo) =>
         \A t \in Shell : t # s => p \notin Touched(client'[t].todo)
  BY <1>1, <1>3 DEF Busy
<1>7. \A p \in Profile : p \notin unsettled' /\ p \notin Touched(todo) => p \notin unsettled
  BY <1>1
<1>8. CommandsRun'
  <2> SUFFICES ASSUME NEW t \in Shell
               PROVE  Runs(client[t])' /\ Checked(client'[t])
    BY DEF CommandsRun, Checked
  <2>1. CASE t = s
    <3>1. Runs(client[s])'
      BY <1>1, <1>3 DEF Runs, Prepared
    <3>2. Head(todo) = todo[1] /\ 1 \in DOMAIN todo
      BY DEF Prepared
    <3>3. Checked(client'[s])
      BY <1>3, <3>2 DEF Checked, Prepared
    <3> QED  BY <2>1, <3>1, <3>3
  <2>2. CASE client'[t] = client[t]
    BY <1>1, <1>2, <2>2 DEF Runs, CommandsRun
  <2> QED  BY <1>3, <2>1, <2>2
<1>9. OneCommand'
  <2> SUFFICES ASSUME NEW p \in Profile, p \notin unsettled', NEW t \in Shell, NEW u \in Shell,
                      p \in Touched(client'[t].todo), p \in Touched(client'[u].todo)
               PROVE  t = u
    BY DEF OneCommand, Touched
  <2>1. CASE p \in Touched(todo)
    BY <1>6, <2>1
  <2>2. CASE p \notin Touched(todo)
    <3>1. t # s /\ u # s
      BY <1>3, <2>2
    <3> QED  BY <1>2, <1>3, <1>7, <2>2, <3>1 DEF OneCommand
  <2> QED  BY <2>1, <2>2
<1>10. RenameUnsettled'
  <2> SUFFICES ASSUME NEW t \in Shell, NEW p \in Profile, Has(client'[t].todo, {"rename", "dropOld"}, p)
               PROVE  p \in unsettled'
    BY DEF RenameUnsettled, Has
  <2>1. t # s
    BY <1>3 DEF Has, Prepared
  <2>2. client'[t] = client[t] /\ p \in unsettled
    BY <1>2, <1>3, <2>1 DEF RenameUnsettled
  <2>3. p \in Touched(client[t].todo)
    BY <2>2 DEF Has, Touched, Touches, Credential
  <2>4. Busy(p)
    BY <2>3 DEF Busy
  <2> QED  BY <1>1, <2>2, <2>4
<1>11. SessionOwnsAccount'
  BY <1>1, <1>2 DEF SessionOwnsAccount
<1>12. ASSUME ~raced' PROVE Unraced'
  <2>1. SettledKept /\ NamesThere /\ DefaultThere
    BY <1>1, <1>12 DEF ProfilesInv, Unraced
  <2>2. SettledKept'
    <3> SUFFICES ASSUME NEW p \in Profile, p \notin unsettled'
                 PROVE  /\ (\A t \in Shell : p \notin Touched(client'[t].todo)) => Matches(p)'
                        /\ \A t \in Shell : p \in Touched(client'[t].todo) =>
                              Promised(p, client[t].todo)' /\ NothingToClear(p, client[t])'
      BY DEF SettledKept
    <3>1. CASE p \notin Touched(todo)
      <4>1. p \notin unsettled
        BY <1>7, <3>1
      <4>2. \A t \in Shell : p \in Touched(client'[t].todo) =>
               client'[t] = client[t] /\ p \in Touched(client[t].todo)
        BY <1>3, <3>1
      <4>3. \A t \in Shell : p \in Touched(client[t].todo) => p \in Touched(client'[t].todo)
        BY <1>1, <1>3, IdleEmpty
      <4>4. HeldIn(p)' = HeldIn(p) /\ Alike(cfg, cfg', p)
        BY <1>1 DEF HeldIn, Alike
      <4>5. (\A t \in Shell : p \notin Touched(client'[t].todo)) => Matches(p)'
        BY <2>1, <4>1, <4>3, <4>4, MatchStays DEF SettledKept
      <4>6. ASSUME NEW t \in Shell, p \in Touched(client'[t].todo)
            PROVE  Promised(p, client[t].todo)' /\ NothingToClear(p, client[t])'
        <5>1. client'[t] = client[t] /\ Promised(p, client[t].todo) /\ NothingToClear(p, client[t])
          BY <2>1, <4>1, <4>2, <4>6 DEF SettledKept
        <5>2. PICK todo_t : todo_t = client[t].todo
          OBVIOUS
        <5>3. Promised(p, todo_t)'
          BY <4>4, <5>1, <5>2, PromiseStays
        <5>4. client'[t].todo = todo_t
          BY <5>1, <5>2
        <5>5. Promised(p, client[t].todo)'
          BY <5>3, <5>4 DEF Promised, Has, Matches
        <5>6. NothingToClear(p, client[t])'
          BY <1>1, <5>1 DEF NothingToClear, SignedIn
        <5> QED  BY <5>5, <5>6
      <4> QED  BY <4>5, <4>6
    <3>2. CASE p \in Touched(todo)
      <4>1. \A t \in Shell : t # s => p \notin Touched(client'[t].todo)
        BY <1>6, <3>2
      <4>2. NothingToClear(p, client[s])'
        BY <1>3 DEF NothingToClear
      <4>3. Promised(p, todo)'
        <5>1. CASE Resets(todo)
          <6>1. \A i \in DOMAIN todo : todo[i].do \in ResetSteps
            BY <5>1 DEF Resets, Prepared, WellFormed, Placed
          <6> QED  BY <6>1 DEF Promised, Has, ResetSteps, Prepared
        <5>2. CASE ~Resets(todo)
          <6>1. p \notin unsettled /\ ~Busy(p)
            BY <1>1, <3>2, <5>2 DEF Resets, ResetSteps
          <6>2. Matches(p)
            BY <2>1, <6>1 DEF SettledKept, Busy
          <6>3. Matches(p)'
            BY <1>1, <6>2 DEF Matches, HeldIn, SignedIn
          <6>4. \A i \in DOMAIN todo : todo[i].do # "baseline"
            BY <5>2 DEF Resets, ResetSteps
          <6>5. \A i \in DOMAIN todo : todo[i].do = "metadata" /\ todo[i].p = p =>
                   Has(todo, {"hold"}, p) /\ (SignedIn(cfg', p) /\ ~todo[i].x.given => todo[i].x.api = cfg'.profiles[p].api)
            BY <1>1 DEF Prepared
          <6>6. Has(todo, {"clear", "remove"}, p) => Has(todo, {"drop"}, p)
            <7>1. \A i \in DOMAIN todo : todo[i].do \in {"clear", "remove"} => Has(todo, {"drop"}, todo[i].p)
              BY DEF Prepared
            <7> QED  BY <7>1 DEF Has
          <6> QED  BY <6>3, <6>4, <6>5, <6>6 DEF Promised
        <5> QED  BY <5>1, <5>2
      <4> QED  BY <1>3, <3>2, <4>1, <4>2, <4>3 DEF Promised, Has, Matches
    <3> QED  BY <3>1, <3>2
  <2>3. NamesThere'
    <3> SUFFICES ASSUME NEW t \in Shell, NEW i \in DOMAIN client'[t].todo,
                        client'[t].todo[i].do \in {"rename", "default"}
                 PROVE  /\ client'[t].todo[i].p \in Names(cfg')
                        /\ client'[t].todo[i].do = "rename" =>
                              client'[t].todo[i].x \in unsettled' \/ \E u \in Shell :
                                  Resets(client'[u].todo) /\ client'[t].todo[i].x \in Touched(client'[u].todo)
      BY DEF NamesThere, Names, Resets, Touched
    <3>1. CASE t = s
      BY <1>1, <1>3, <3>1 DEF Prepared
    <3>2. CASE t # s
      <4> DEFINE x == client'[t].todo[i].x
      <4>1. /\ client'[t] = client[t] /\ client'[t].todo[i].p \in Names(cfg')
            /\ client'[t].todo[i].do = "rename" =>
                  x \in unsettled \/ \E u \in Shell : Resets(client[u].todo) /\ x \in Touched(client[u].todo)
        BY <1>1, <1>3, <2>1, <3>2 DEF NamesThere
      <4>2. \A u \in Shell : x \in Touched(client[u].todo) => u # s /\ client'[u] = client[u]
        BY <1>1, <1>3, IdleEmpty
      <4>3. x \in unsettled /\ x \notin unsettled' =>
               x \in Touched(todo) /\ \E j \in DOMAIN todo : todo[j].do = "baseline"
        BY <1>1
      <4>4. x \in unsettled => x \in unsettled' \/ (Resets(client'[s].todo) /\ x \in Touched(client'[s].todo))
        BY <1>3, <4>3 DEF Resets, ResetSteps
      <4> HIDE DEF x
      <4> QED  BY <4>1, <4>2, <4>4 DEF x
    <3> QED  BY <3>1, <3>2
  <2> QED  BY <1>1, <2>1, <2>2, <2>3 DEF Unraced, DefaultThere
<1> QED  BY <1>2, <1>5, <1>8, <1>9, <1>10, <1>11, <1>12 DEF ProfilesInv

\* A command of one step that is on no credentials, resets nothing and renames nothing.
LEMMA OneStep ==
    ASSUME NEW step \in StepType, cfg.valid,
           step.do \notin Credential \cup ResetSteps \cup {"leave"},
           step.do = "default" => step.p \in Names(cfg)
    PROVE  Prepared(<<step>>)
<1> DEFINE todo == <<step>>
<1>1. /\ todo \in Seq(StepType) /\ DOMAIN todo = {1} /\ todo[1] = step /\ todo # << >>
      /\ Head(todo) = step
  OBVIOUS
<1> HIDE DEF todo
<1>2. WellFormed(todo)
  BY <1>1 DEF WellFormed, Ordered, Completed, Placed, Credential
<1> QED  BY <1>1, <1>2 DEF Prepared, Credential, ResetSteps, todo

\* A step of that kind in front of a command.
LEMMA StepInFront ==
    ASSUME NEW step \in StepType, cfg.valid, step.do \in {"prefer", "cache"},
           NEW todo, Prepared(todo), ~Resets(todo), \A i \in DOMAIN todo : todo[i].do # "default"
    PROVE  Prepared(<<step>> \o todo)
<1> DEFINE new == <<step>> \o todo
<1>1. /\ todo \in Seq(StepType) /\ Len(todo) \in Nat /\ DOMAIN todo = 1..Len(todo) /\ todo # << >>
      /\ Head(todo) = todo[1] /\ 1 \in DOMAIN todo /\ WellFormed(todo) /\ Head(todo).do # "leave"
  BY DEF Prepared
<1>2. <<step>> \in Seq(StepType) /\ Len(<<step>>) = 1 /\ <<step>>[1] = step
  OBVIOUS
<1>3. new \in Seq(StepType) /\ Len(new) = Len(todo) + 1 /\ DOMAIN new = 1..(Len(todo) + 1)
  BY <1>1, <1>2
<1>4. new[1] = step /\ Head(new) = step /\ 1 \in DOMAIN new /\ new # << >>
  BY <1>1, <1>2, <1>3
<1>5. \A i \in DOMAIN todo : i + 1 \in DOMAIN new /\ new[i + 1] = todo[i] /\ i \in Nat
  BY <1>1, <1>2, <1>3
<1>6. \A i \in DOMAIN new : i = 1 \/ (i > 1 /\ i \in Nat /\ i - 1 \in DOMAIN todo /\ new[i] = todo[i - 1])
  <2> SUFFICES ASSUME NEW i \in DOMAIN new, i # 1
               PROVE  i > 1 /\ i \in Nat /\ i - 1 \in DOMAIN todo /\ new[i] = todo[i - 1]
    OBVIOUS
  <2>1. i > 1 /\ i \in Nat /\ i - 1 \in DOMAIN todo /\ (i - 1) + 1 = i
    BY <1>1, <1>3
  <2> QED  BY <1>5, <2>1
<1> HIDE DEF new
<1>7. step.do \notin Credential \cup ResetSteps \cup Final \cup {"leave", "rename", "default", "remove", "baseline"}
  BY DEF Credential, ResetSteps, Final
<1>8. Ordered(new)
  <2> SUFFICES ASSUME NEW i \in DOMAIN new, NEW j \in DOMAIN new, i < j, new[i].p = new[j].p,
                      new[i].do \in Credential, new[j].do \in Credential
               PROVE  /\ <<new[i].do, new[j].do>> \in Follows
                      /\ new[i].do = "hold" => new[j].x.store = new[i].x
    BY DEF Ordered
  <2>1. /\ i - 1 \in DOMAIN todo /\ j - 1 \in DOMAIN todo /\ i - 1 < j - 1
        /\ new[i] = todo[i - 1] /\ new[j] = todo[j - 1]
    BY <1>4, <1>6, <1>7
  <2> QED  BY <1>1, <2>1 DEF WellFormed, Ordered
<1>9. Completed(new)
  <2> SUFFICES ASSUME NEW i \in DOMAIN new, i > 1, i - 1 \in DOMAIN todo, new[i] = todo[i - 1]
               PROVE  /\ new[i].do = "hold" => \E j \in DOMAIN new : j > i /\ new[j].do = "metadata" /\ new[j].p = new[i].p
                      /\ new[i].do = "drop" => \E j \in DOMAIN new : j > i /\ new[j].do = "clear" /\ new[j].p = new[i].p
                      /\ new[i].do = "dropAll" => \E j \in DOMAIN new : j > i /\ new[j].do = "baseline" /\ new[i].p \in new[j].x
    BY <1>4, <1>6, <1>7 DEF Completed, Credential
  <2>1. \A j \in DOMAIN todo : j > i - 1 => j + 1 \in DOMAIN new /\ new[j + 1] = todo[j] /\ j + 1 > i
    BY <1>5, <1>6
  <2>2. /\ new[i].do = "hold" => \E j \in DOMAIN todo : j > i - 1 /\ todo[j].do = "metadata" /\ todo[j].p = new[i].p
        /\ new[i].do = "drop" => \E j \in DOMAIN todo : j > i - 1 /\ todo[j].do = "clear" /\ todo[j].p = new[i].p
        /\ new[i].do = "dropAll" => \E j \in DOMAIN todo : j > i - 1 /\ todo[j].do = "baseline" /\ new[i].p \in todo[j].x
    BY <1>1 DEF WellFormed, Completed
  <2> QED  BY <2>1, <2>2
<1>10. Placed(new)
  <2>0. \A j \in DOMAIN todo : todo[j].do \notin {"rename", "default"} \cup ResetSteps
    BY DEF Prepared, Resets
  <2> SUFFICES ASSUME NEW i \in DOMAIN new, NEW j \in DOMAIN new
               PROVE  /\ i < j => /\ new[i].do \notin Final
                                  /\ new[i].do = "remove" => new[j].do = "leave"
                                  /\ new[j].do \notin {"rename", "default"}
                                  /\ new[i].do = "baseline" => new[j].do = "restart"
                      /\ j = i + 1 /\ new[j].do = "leave" => new[i].do = "remove"
                      /\ new[i].do \in ResetSteps => new[j].do \in ResetSteps
    BY DEF Placed
  <2>1. CASE i = 1
    <3>1. j = 2 => new[j] = Head(todo)
      BY <1>1, <1>6
    <3>2. j # 1 => \E k \in DOMAIN todo : new[j] = todo[k]
      BY <1>6
    <3> QED  BY <1>1, <1>4, <1>7, <2>0, <2>1, <3>1, <3>2
  <2>2. CASE i # 1 /\ j = 1
    BY <1>4, <1>6, <1>7, <2>0, <2>2
  <2>3. CASE i # 1 /\ j # 1
    <3>1. /\ i - 1 \in DOMAIN todo /\ j - 1 \in DOMAIN todo /\ (i < j => i - 1 < j - 1)
          /\ (j = i + 1 => j - 1 = (i - 1) + 1) /\ new[i] = todo[i - 1] /\ new[j] = todo[j - 1]
      BY <1>6, <2>3
    <3> QED  BY <1>1, <3>1 DEF WellFormed, Placed
  <2> QED  BY <2>1, <2>2, <2>3
<1>11. \A dos \in SUBSET Credential, p \in Profile : Has(todo, dos, p) => Has(new, dos, p)
  BY <1>5 DEF Has
<1>12. \A i \in DOMAIN new : new[i] = step \/ \E j \in DOMAIN todo : new[i] = todo[j]
  BY <1>4, <1>6
<1>13. \A i \in DOMAIN todo : todo[i].do \in {"metadata", "clear", "remove"} => todo[i].p \in Profile
  BY <1>1, StepTyped DEF Credential
<1>14. {"hold"} \in SUBSET Credential /\ {"drop"} \in SUBSET Credential
  BY DEF Credential
<1>15. \A i \in DOMAIN todo :
          LET st == todo[i]
          IN /\ st.do \notin {"rename", "dropOld", "default", "baseline"}
             /\ st.do = "metadata" =>
                   /\ Has(new, {"hold"}, st.p)
                   /\ SignedIn(cfg, st.p) /\ ~st.x.given => st.x.api = cfg.profiles[st.p].api
             /\ st.do \in {"clear", "remove"} => Has(new, {"drop"}, st.p)
  <2> SUFFICES ASSUME NEW i \in DOMAIN todo
               PROVE  /\ todo[i].do \notin {"rename", "dropOld", "default", "baseline"}
                      /\ todo[i].do = "metadata" =>
                            /\ Has(new, {"hold"}, todo[i].p)
                            /\ SignedIn(cfg, todo[i].p) /\ ~todo[i].x.given => todo[i].x.api = cfg.profiles[todo[i].p].api
                      /\ todo[i].do \in {"clear", "remove"} => Has(new, {"drop"}, todo[i].p)
    OBVIOUS
  <2>1. todo[i].do # "baseline"
    BY DEF Resets, ResetSteps
  <2>2. /\ todo[i].do \notin {"rename", "dropOld"}
        /\ todo[i].do = "metadata" =>
              /\ Has(todo, {"hold"}, todo[i].p)
              /\ SignedIn(cfg, todo[i].p) /\ ~todo[i].x.given => todo[i].x.api = cfg.profiles[todo[i].p].api
        /\ todo[i].do \in {"clear", "remove"} => Has(todo, {"drop"}, todo[i].p)
    BY DEF Prepared
  <2> QED  BY <1>11, <1>13, <1>14, <2>1, <2>2
<1>16. /\ step.do \notin {"rename", "dropOld", "default", "baseline", "metadata", "clear", "remove", "leave"}
  BY <1>7 DEF Credential
<1>17. WellFormed(new)
  BY <1>8, <1>9, <1>10 DEF WellFormed
<1>18. Prepared(new)
  <2> SUFFICES ASSUME NEW i \in DOMAIN new
               PROVE  /\ new[i].do \notin {"rename", "dropOld"}
                      /\ new[i].do = "default" => new[i].p \in Names(cfg)
                      /\ new[i].do = "metadata" =>
                            /\ Has(new, {"hold"}, new[i].p)
                            /\ SignedIn(cfg, new[i].p) /\ ~new[i].x.given => new[i].x.api = cfg.profiles[new[i].p].api
                      /\ new[i].do \in {"clear", "remove"} => Has(new, {"drop"}, new[i].p)
                      /\ new[i].do = "baseline" => \A p \in new[i].x : Has(new, {"dropAll"}, p)
    BY <1>3, <1>4, <1>16, <1>17 DEF Prepared
  <2>1. CASE new[i] = step
    BY <1>16, <2>1
  <2>2. CASE \E j \in DOMAIN todo : new[i] = todo[j]
    <3>1. PICK j \in DOMAIN todo : new[i] = todo[j]
      BY <2>2
    <3> QED  BY <1>15, <3>1
  <2> QED  BY <1>12, <2>1, <2>2
<1> QED  BY <1>18 DEF new

\* The steps that commands are made of.
LEMMA StepsMade ==
    /\ \A do, p, x : Step(do, p, x).do = do /\ Step(do, p, x).p = p /\ Step(do, p, x).x = x
    /\ \A p \in Profile :
          /\ \A st \in Store : Step("hold", p, st) \in StepType
          /\ \A x \in Recorded : Step("metadata", p, x) \in StepType
          /\ \A do \in {"drop", "dropOld", "dropAll", "clear", "remove", "leave", "enter", "default", "sync",
                        "endpoints"} : Step(do, p, None) \in StepType
          /\ \A do \in {"rename", "follow"}, q \in Profile : Step(do, p, q) \in StepType
          /\ \A do \in {"cache", "activate", "act"}, x \in Account : Step(do, p, x) \in StepType
          /\ \A x \in [account: Account \cup {None}, option: BOOLEAN, target: Target \cup {None},
                       owner: Account] : Step("ensure", p, x) \in StepType
          /\ \A x \in [account: Account, target: Target \cup {None}] : Step("select", p, x) \in StepType
    /\ Step("restart", Default, None) \in StepType
    /\ \A x \in Preferences : Step("prefer", None, x) \in StepType
    /\ \A x \in SUBSET Profile : Step("baseline", None, x) \in StepType
BY DEF Step, StepType

LEMMA LoginPrepared ==
    ASSUME TypeOK, cfg.valid, NEW s \in Shell, NEW p \in Profile, NEW store \in Store,
           NEW api \in Url
    PROVE  LET todo == <<Step("hold", p, store),
                         Step("metadata", p, [store |-> store, api |-> api, given |-> api # ProfileOf(s, cfg, p).api]),
                         Step("sync", p, None)>>
           IN Prepared(todo) /\ ~Resets(todo) /\ \A i \in DOMAIN todo : todo[i].do # "default"
<1> DEFINE record == [store |-> store, api |-> api, given |-> api # ProfileOf(s, cfg, p).api]
           a == Step("hold", p, store)
           b == Step("metadata", p, record)
           c == Step("sync", p, None)
           todo == <<a, b, c>>
<1>1. record \in Recorded /\ record.store = store /\ record.api = api
      /\ record.given = (api # ProfileOf(s, cfg, p).api)
  BY DEF Recorded
<1> HIDE DEF record
<1>2. /\ a \in StepType /\ b \in StepType /\ c \in StepType
      /\ a.do = "hold" /\ b.do = "metadata" /\ c.do = "sync"
      /\ a.p = p /\ b.p = p /\ c.p = p /\ a.x = store /\ b.x = record
  BY <1>1, StepsMade
<1> HIDE DEF a, b, c
<1>3. /\ todo \in Seq(StepType) /\ DOMAIN todo = {1, 2, 3} /\ todo # << >> /\ Head(todo) = a
      /\ todo[1] = a /\ todo[2] = b /\ todo[3] = c
  BY <1>2
<1> HIDE DEF todo
<1>4. WellFormed(todo)
  <2>1. Ordered(todo)
    BY <1>1, <1>2, <1>3 DEF Ordered, Credential, Follows
  <2>2. Completed(todo)
    BY <1>2, <1>3 DEF Completed
  <2>3. Placed(todo)
    BY <1>2, <1>3 DEF Placed, Final, ResetSteps
  <2> QED  BY <2>1, <2>2, <2>3 DEF WellFormed
<1>5. Has(todo, {"hold"}, p)
  BY <1>2, <1>3 DEF Has
<1>6. SignedIn(cfg, p) /\ ~record.given => record.api = cfg.profiles[p].api
  BY <1>1 DEF SignedIn, ProfileOf
<1>7. \A i \in DOMAIN todo :
         /\ todo[i].do \in {"hold", "metadata", "sync"}
         /\ todo[i].do = "metadata" => todo[i] = b
  BY <1>2, <1>3
<1>8. Prepared(todo)
  BY <1>2, <1>3, <1>4, <1>5, <1>6, <1>7 DEF Prepared
<1>9. ~Resets(todo) /\ \A i \in DOMAIN todo : todo[i].do # "default"
  BY <1>7 DEF Resets, ResetSteps
<1> QED  BY <1>8, <1>9 DEF todo, a, b, c, record

LEMMA SignOutPrepared ==
    ASSUME cfg.valid, NEW p \in Profile
    PROVE  /\ Prepared(SignOut(p))
           /\ Prepared(SignOut(p) \o <<Step("remove", p, None), Step("leave", p, None)>>)
<1> DEFINE a == Step("drop", p, None)
           b == Step("clear", p, None)
           c == Step("remove", p, None)
           d == Step("leave", p, None)
<1>1. /\ a \in StepType /\ b \in StepType /\ c \in StepType /\ d \in StepType
      /\ a.do = "drop" /\ b.do = "clear" /\ c.do = "remove" /\ d.do = "leave"
      /\ a.p = p /\ b.p = p /\ c.p = p /\ d.p = p
  BY StepsMade
<1>2. SignOut(p) = <<a, b>>
  BY DEF SignOut
<1> HIDE DEF a, b, c, d
<1>3. ASSUME NEW todo \in Seq(StepType), todo[1] = a, todo[2] = b, Head(todo) = a, todo # << >>,
             \/ DOMAIN todo = {1, 2}
             \/ DOMAIN todo = {1, 2, 3, 4} /\ todo[3] = c /\ todo[4] = d
      PROVE  Prepared(todo)
  <2>1. \A i \in DOMAIN todo : \/ (i = 1 /\ todo[i] = a) \/ (i = 2 /\ todo[i] = b)
                               \/ (i = 3 /\ todo[i] = c) \/ (i = 4 /\ todo[i] = d)
    BY <1>3
  <2>2. 1 \in DOMAIN todo /\ 2 \in DOMAIN todo
    BY <1>3
  <2>3. Ordered(todo)
    BY <1>1, <2>1 DEF Ordered, Credential, Follows
  <2>4. Completed(todo)
    BY <1>1, <1>3, <2>1, <2>2 DEF Completed
  <2>5. Placed(todo)
    BY <1>1, <2>1 DEF Placed, Final, ResetSteps
  <2>6. Has(todo, {"drop"}, p)
    BY <1>1, <1>3, <2>2 DEF Has
  <2> QED  BY <1>1, <1>3, <2>1, <2>3, <2>4, <2>5, <2>6 DEF Prepared, WellFormed
<1>4. Prepared(<<a, b>>)
  <2> DEFINE todo == <<a, b>>
  <2>1. todo \in Seq(StepType) /\ todo[1] = a /\ todo[2] = b /\ Head(todo) = a /\ todo # << >> /\ DOMAIN todo = {1, 2}
    BY <1>1
  <2> HIDE DEF todo
  <2>2. Prepared(todo)
    BY <1>3, <2>1
  <2> QED  BY <2>2 DEF todo
<1>5. Prepared(<<a, b>> \o <<c, d>>)
  <2> DEFINE todo == <<a, b>> \o <<c, d>>
  <2>1. /\ <<a, b>> \in Seq(StepType) /\ Len(<<a, b>>) = 2 /\ <<a, b>>[1] = a /\ <<a, b>>[2] = b
        /\ <<c, d>> \in Seq(StepType) /\ Len(<<c, d>>) = 2 /\ <<c, d>>[1] = c /\ <<c, d>>[2] = d
    BY <1>1
  <2>2. /\ todo \in Seq(StepType) /\ Len(todo) = 4 /\ DOMAIN todo = 1..4
        /\ todo[1] = a /\ todo[2] = b /\ todo[3] = c /\ todo[4] = d
    BY <2>1
  <2>4. DOMAIN todo = {1, 2, 3, 4} /\ Head(todo) = a /\ todo # << >>
    BY <2>2
  <2> HIDE DEF todo
  <2>3. Prepared(todo)
    BY <1>3, <2>2, <2>4
  <2> QED  BY <2>3 DEF todo
<1> QED  BY <1>2, <1>4, <1>5 DEF a, b, c, d

\* The names of a configuration as a sequence: each once.
LEMMA NamesInOrder ==
    ASSUME NEW S \in SUBSET Profile
    PROVE  /\ SetToSeq(S) \in Seq(S) /\ Len(SetToSeq(S)) \in Nat /\ DOMAIN SetToSeq(S) = 1..Len(SetToSeq(S))
           /\ S # {} => Len(SetToSeq(S)) > 0
           /\ \A i \in 1..Len(SetToSeq(S)) : SetToSeq(S)[i] \in S
           /\ \A i, j \in 1..Len(SetToSeq(S)) : SetToSeq(S)[i] = SetToSeq(S)[j] => i = j
           /\ \A p \in S : \E i \in 1..Len(SetToSeq(S)) : SetToSeq(S)[i] = p
<1> DEFINE n == Cardinality(S)
           f == SetToSeq(S)
<1>1. IsFiniteSet(S)
  BY FS_Subset, ProfilesAssumption
<1>2. n \in Nat /\ ExistsBijection(1..n, S)
  BY <1>1, FS_CardinalityType
<1>3. \E g \in [1..n -> S] : IsInjective(g)
  BY <1>2 DEF ExistsBijection, Bijection, Injection, IsInjective
<1>4. f \in [1..n -> S] /\ IsInjective(f)
  BY <1>3 DEF SetToSeq
<1>5. Cardinality(1..n) = n
  BY <1>2, FS_Interval
<1> HIDE DEF n, f
<1>6. f \in Injection(1..n, S)
  BY <1>4 DEF Injection, IsInjective
<1>7. f \in Surjection(1..n, S)
  BY <1>1, <1>5, <1>6, FS_Injection DEF n
<1>8. f \in Seq(S) /\ Len(f) = n
  BY <1>2, <1>4
<1>9. S # {} => n > 0
  BY <1>2, <1>7 DEF Surjection
<1>10. \A i, j \in 1..n : f[i] = f[j] => i = j
  BY <1>4 DEF IsInjective
<1>11. \A p \in S : \E i \in 1..n : f[i] = p
  BY <1>7 DEF Surjection
<1> QED  BY <1>2, <1>4, <1>8, <1>9, <1>10, <1>11 DEF f

LEMMA SignOutEachPrepared ==
    ASSUME TypeOK, cfg.valid, Names(cfg) # {}
    PROVE  Prepared(SignOutEach(SetToSeq(Names(cfg))))
<1> DEFINE names == SetToSeq(Names(cfg))
           n == Len(names)
           todo == SignOutEach(names)
<1>1. /\ n \in Nat /\ n > 0 /\ \A i \in 1..n : names[i] \in Profile
      /\ \A i, j \in 1..n : names[i] = names[j] => i = j
  BY NamesInOrder, ConfigTyped DEF TypeOK
<1> HIDE DEF names, n
<1>2. todo = [i \in 1..(2 * n) |-> IF i % 2 = 1 THEN Step("drop", names[(i + 1) \div 2], None)
                                                ELSE Step("clear", names[i \div 2], None)]
  BY DEF SignOutEach, n
<1>3. DOMAIN todo = 1..(2 * n)
  BY <1>2
<1> HIDE DEF todo
<1>4. \A k \in 1..n : /\ 2 * k - 1 \in 1..(2 * n) /\ 2 * k \in 1..(2 * n)
                      /\ (2 * k - 1) % 2 = 1 /\ (2 * k) % 2 = 0
                      /\ ((2 * k - 1) + 1) \div 2 = k /\ (2 * k) \div 2 = k
  BY <1>1
<1>5. \A k \in 1..n : /\ todo[2 * k - 1] = Step("drop", names[k], None)
                      /\ todo[2 * k] = Step("clear", names[k], None)
  BY <1>2, <1>4
<1>6. \A i \in 1..(2 * n) : \E k \in 1..n : i = 2 * k - 1 \/ i = 2 * k
  <2> SUFFICES ASSUME NEW i \in 1..(2 * n)
               PROVE  \E k \in 1..n : i = 2 * k - 1 \/ i = 2 * k
    OBVIOUS
  <2>1. CASE i % 2 = 1
    <3>1. (i + 1) \div 2 \in 1..n /\ i = 2 * ((i + 1) \div 2) - 1
      BY <1>1, <2>1
    <3> QED  BY <3>1
  <2>2. CASE i % 2 # 1
    <3>1. i \div 2 \in 1..n /\ i = 2 * (i \div 2)
      BY <1>1, <2>2
    <3> QED  BY <3>1
  <2> QED  BY <2>1, <2>2
\* Each step with the profile it is about.
<1>7. \A i \in DOMAIN todo : \E k \in 1..n :
         /\ names[k] \in Profile /\ todo[i].p = names[k] /\ todo[i] \in StepType
         /\ \/ i = 2 * k - 1 /\ todo[i].do = "drop"
            \/ i = 2 * k /\ todo[i].do = "clear"
  <2> SUFFICES ASSUME NEW i \in DOMAIN todo, NEW k \in 1..n, i = 2 * k - 1 \/ i = 2 * k
               PROVE  /\ names[k] \in Profile /\ todo[i].p = names[k] /\ todo[i] \in StepType
                      /\ \/ i = 2 * k - 1 /\ todo[i].do = "drop"
                         \/ i = 2 * k /\ todo[i].do = "clear"
    BY <1>3, <1>6
  <2>1. names[k] \in Profile
    BY <1>1
  <2>2. CASE i = 2 * k - 1
    <3>1. todo[i] = Step("drop", names[k], None)
      BY <1>5, <2>2
    <3> QED  BY <2>1, <2>2, <3>1, StepsMade
  <2>3. CASE i = 2 * k
    <3>1. todo[i] = Step("clear", names[k], None)
      BY <1>5, <2>3
    <3> QED  BY <2>1, <2>3, <3>1, StepsMade
  <2> QED  BY <2>2, <2>3
<1>8. \A k \in 1..n : /\ 2 * k - 1 \in DOMAIN todo /\ 2 * k \in DOMAIN todo /\ 2 * k > 2 * k - 1
                      /\ todo[2 * k - 1].do = "drop" /\ todo[2 * k].do = "clear"
                      /\ todo[2 * k - 1].p = names[k] /\ todo[2 * k].p = names[k]
  BY <1>3, <1>4, <1>5, StepsMade
<1>9. todo \in Seq(StepType) /\ todo # << >>
  <2>1. \A i \in 1..(2 * n) : todo[i] \in StepType
    BY <1>3, <1>7
  <2>2. todo = [i \in 1..(2 * n) |-> todo[i]]
    BY <1>2
  <2>3. todo \in [1..(2 * n) -> StepType]
    BY <2>1, <2>2
  <2>4. 2 * n \in Nat /\ 2 * n > 0
    BY <1>1
  <2> QED  BY <2>3, <2>4
<1>10. Ordered(todo)
  <2> SUFFICES ASSUME NEW i \in DOMAIN todo, NEW j \in DOMAIN todo, i < j, todo[i].p = todo[j].p
               PROVE  todo[i].do = "drop" /\ todo[j].do = "clear"
    BY DEF Ordered, Follows
  <2>1. PICK k \in 1..n : /\ todo[i].p = names[k]
                          /\ (i = 2 * k - 1 /\ todo[i].do = "drop") \/ (i = 2 * k /\ todo[i].do = "clear")
    BY <1>7
  <2>2. PICK l \in 1..n : /\ todo[j].p = names[l]
                          /\ (j = 2 * l - 1 /\ todo[j].do = "drop") \/ (j = 2 * l /\ todo[j].do = "clear")
    BY <1>7
  <2>3. k = l
    BY <1>1, <2>1, <2>2
  <2> QED  BY <1>1, <2>1, <2>2, <2>3
<1>11. Completed(todo)
  <2> SUFFICES ASSUME NEW i \in DOMAIN todo
               PROVE  /\ todo[i].do \in {"drop", "clear"}
                      /\ todo[i].do = "drop" => \E j \in DOMAIN todo : j > i /\ todo[j].do = "clear" /\ todo[j].p = todo[i].p
    BY DEF Completed
  <2>1. PICK k \in 1..n : /\ todo[i].p = names[k]
                          /\ (i = 2 * k - 1 /\ todo[i].do = "drop") \/ (i = 2 * k /\ todo[i].do = "clear")
    BY <1>7
  <2> QED  BY <1>8, <2>1
<1>12. \A i \in DOMAIN todo : todo[i].do \in {"drop", "clear"} /\ todo[i].p \in Profile
  BY <1>7
<1>13. Placed(todo)
  BY <1>12 DEF Placed, Final, ResetSteps
<1>14. \A i \in DOMAIN todo : Has(todo, {"drop"}, todo[i].p)
  <2> SUFFICES ASSUME NEW i \in DOMAIN todo
               PROVE  Has(todo, {"drop"}, todo[i].p)
    OBVIOUS
  <2>1. PICK k \in 1..n : todo[i].p = names[k]
    BY <1>7
  <2> QED  BY <1>8, <2>1 DEF Has
<1>15. Head(todo).do # "leave"
  BY <1>9, <1>12
<1>16. Prepared(todo)
  BY <1>9, <1>10, <1>11, <1>12, <1>13, <1>14, <1>15 DEF Prepared, WellFormed
<1> QED  BY <1>16 DEF todo, names

LEMMA DeleteAllPrepared ==
    ASSUME TypeOK
    PROVE  LET names == SetToSeq(Names(cfg))
           IN Prepared([i \in DOMAIN names |-> Step("dropAll", names[i], None)] \o
                       <<Step("baseline", None, Names(cfg)), Step("restart", Default, None)>>)
<1> DEFINE names == SetToSeq(Names(cfg))
           n == Len(names)
           drops == [i \in DOMAIN names |-> Step("dropAll", names[i], None)]
           a == Step("baseline", None, Names(cfg))
           b == Step("restart", Default, None)
           todo == drops \o <<a, b>>
<1>0. Names(cfg) \in SUBSET Profile
  BY ConfigTyped DEF TypeOK
<1>1. /\ n \in Nat /\ DOMAIN names = 1..n /\ \A i \in 1..n : names[i] \in Profile /\ names[i] \in Names(cfg)
      /\ \A i, j \in 1..n : names[i] = names[j] => i = j
      /\ \A p \in Names(cfg) : \E i \in 1..n : names[i] = p
  BY <1>0, NamesInOrder
<1> HIDE DEF names, n
<1>2. /\ a \in StepType /\ b \in StepType /\ a.do = "baseline" /\ b.do = "restart"
      /\ a.p = None /\ b.p = Default /\ a.x = Names(cfg)
  BY <1>0, StepsMade
<1>3. \A i \in 1..n : /\ Step("dropAll", names[i], None) \in StepType
                      /\ Step("dropAll", names[i], None).do = "dropAll"
                      /\ Step("dropAll", names[i], None).p = names[i]
  BY <1>1, StepsMade
<1> HIDE DEF a, b
<1>4. drops \in Seq(StepType) /\ Len(drops) = n /\ \A i \in 1..n : drops[i] = Step("dropAll", names[i], None)
  BY <1>1, <1>3
<1>5. <<a, b>> \in Seq(StepType) /\ Len(<<a, b>>) = 2 /\ <<a, b>>[1] = a /\ <<a, b>>[2] = b
  BY <1>2
<1> HIDE DEF drops
<1>6. /\ todo \in Seq(StepType) /\ Len(todo) = n + 2 /\ DOMAIN todo = 1..(n + 2)
      /\ \A i \in 1..n : todo[i] = drops[i]
  BY <1>1, <1>4, <1>5
<1>7. todo[n + 1] = a /\ todo[n + 2] = b
  BY <1>1, <1>4, <1>5
<1>8. todo # << >> /\ Head(todo) = todo[1] /\ 1 \in DOMAIN todo
  BY <1>1, <1>6
<1> HIDE DEF todo
<1>9. \A i \in DOMAIN todo :
         \/ i \in 1..n /\ todo[i].do = "dropAll" /\ todo[i].p = names[i]
         \/ i = n + 1 /\ todo[i] = a
         \/ i = n + 2 /\ todo[i] = b
  <2> SUFFICES ASSUME NEW i \in DOMAIN todo
               PROVE  \/ i \in 1..n /\ todo[i].do = "dropAll" /\ todo[i].p = names[i]
                      \/ i = n + 1 /\ todo[i] = a
                      \/ i = n + 2 /\ todo[i] = b
    OBVIOUS
  <2>1. i \in 1..n \/ i = n + 1 \/ i = n + 2
    BY <1>1, <1>6
  <2> QED  BY <1>3, <1>4, <1>6, <1>7, <2>1
<1>10. \A i \in DOMAIN todo : todo[i].do \in ResetSteps
  BY <1>2, <1>9 DEF ResetSteps
<1>11. Ordered(todo)
  <2> SUFFICES ASSUME NEW i \in DOMAIN todo, NEW j \in DOMAIN todo, i < j, todo[i].p = todo[j].p,
                      todo[i].do \in Credential, todo[j].do \in Credential
               PROVE  FALSE
    BY DEF Ordered
  <2>1. i \in 1..n /\ j \in 1..n /\ todo[i].p = names[i] /\ todo[j].p = names[j]
    BY <1>2, <1>9 DEF Credential
  <2>2. i = j
    BY <1>1, <2>1
  <2> QED  BY <1>6, <2>2
<1>12. Completed(todo)
  <2> SUFFICES ASSUME NEW i \in DOMAIN todo, todo[i].do = "dropAll"
               PROVE  \E j \in DOMAIN todo : j > i /\ todo[j].do = "baseline" /\ todo[i].p \in todo[j].x
    BY <1>10 DEF Completed, ResetSteps
  <2>1. i \in 1..n /\ todo[i].p = names[i] /\ names[i] \in Names(cfg)
    BY <1>1, <1>2, <1>9
  <2>2. n + 1 \in DOMAIN todo /\ n + 1 > i
    BY <1>1, <1>6, <2>1
  <2> QED  BY <1>2, <1>7, <2>1, <2>2
<1>13. Placed(todo)
  <2> SUFFICES ASSUME NEW i \in DOMAIN todo, NEW j \in DOMAIN todo, i < j, todo[i].do = "baseline"
               PROVE  todo[j].do = "restart"
    BY <1>10 DEF Placed, ResetSteps, Final
  <2>1. i = n + 1
    BY <1>2, <1>9
  <2>2. j = n + 2
    BY <1>1, <1>6, <2>1
  <2> QED  BY <1>2, <1>7, <2>2
<1>14. \A i \in DOMAIN todo : todo[i].do = "baseline" => \A p \in todo[i].x : Has(todo, {"dropAll"}, p)
  <2> SUFFICES ASSUME NEW i \in DOMAIN todo, todo[i].do = "baseline", NEW p \in todo[i].x
               PROVE  Has(todo, {"dropAll"}, p)
    OBVIOUS
  <2>1. p \in Names(cfg)
    BY <1>2, <1>9
  <2>2. PICK k \in 1..n : names[k] = p
    BY <1>1, <2>1
  <2>3. k \in DOMAIN todo /\ todo[k].do = "dropAll" /\ todo[k].p = p
    BY <1>1, <1>3, <1>4, <1>6, <2>2
  <2> QED  BY <2>3 DEF Has
<1>15. Resets(todo)
  BY <1>8, <1>10 DEF Resets
<1>16. Prepared(todo)
  BY <1>6, <1>8, <1>10, <1>11, <1>12, <1>13, <1>14, <1>15 DEF Prepared, WellFormed, ResetSteps
<1> QED  BY <1>16 DEF todo, drops, a, b, names

\* A renaming leaves both names unsettled.
LEMMA RenameKeeps ==
    ASSUME ProfilesInv, NEW s \in Shell, Rename(s)
    PROVE  ProfilesInv'
<1>1. PICK p \in Names(cfg), new \in Profile \ Names(cfg) :
         /\ cfg.valid /\ client[s] = Idle /\ commands < MaxCommands
         /\ commands' = commands + 1
         /\ client' = [client EXCEPT ![s] =
                [todo |-> <<Step("rename", p, new), Step("follow", p, new),
                            Step("dropOld", p, None), Step("clear", p, None)>>,
                 base |-> cfg]]
         /\ unsettled' = unsettled \cup {p, new}
         /\ cfg' = cfg /\ session' = session /\ held' = held /\ kills' = kills /\ raced' = raced
  BY DEF Rename
<1>2. TypeOK /\ Order /\ SessionOwnsAccount /\ p \in Profile
  BY ConfigTyped DEF ProfilesInv, Order, TypeOK
<1> DEFINE a == Step("rename", p, new)
           b == Step("follow", p, new)
           c == Step("dropOld", p, None)
           d == Step("clear", p, None)
           todo == <<a, b, c, d>>
<1>3. /\ a \in StepType /\ b \in StepType /\ c \in StepType /\ d \in StepType
      /\ a.do = "rename" /\ b.do = "follow" /\ c.do = "dropOld" /\ d.do = "clear"
      /\ a.p = p /\ b.p = p /\ c.p = p /\ d.p = p /\ a.x = new
  BY <1>2, StepsMade
<1>4. client' = [client EXCEPT ![s] = [todo |-> todo, base |-> cfg]]
  BY <1>1
<1> HIDE DEF a, b, c, d
<1>5. /\ todo \in Seq(StepType) /\ todo # << >> /\ DOMAIN todo = {1, 2, 3, 4} /\ Head(todo) = a
      /\ todo[1] = a /\ todo[2] = b /\ todo[3] = c /\ todo[4] = d
  BY <1>3
<1> HIDE DEF todo
<1>6. /\ client' \in [Shell -> ClientState] /\ client'[s] = [todo |-> todo, base |-> cfg]
      /\ client'[s].todo = todo /\ client'[s].base = cfg
      /\ \A t \in Shell : t = s \/ client'[t] = client[t]
  BY <1>2, <1>4, <1>5 DEF TypeOK, ClientState
<1>7. Only(s)
  BY <1>6 DEF Only
<1>8. TypeOK'
  <2>1. commands' \in 0..MaxCommands
    BY <1>1, <1>2, ProfilesAssumption DEF TypeOK
  <2> QED  BY <1>1, <1>2, <1>6, <2>1 DEF TypeOK
<1>9. \A i \in DOMAIN todo : todo[i] = a \/ todo[i] = b \/ todo[i] = c \/ todo[i] = d
  BY <1>5
<1>10. WellFormed(todo)
  <2>1. Ordered(todo)
    BY <1>3, <1>5 DEF Ordered, Credential, Follows
  <2>2. Completed(todo)
    BY <1>3, <1>9 DEF Completed
  <2>3. Placed(todo)
    BY <1>3, <1>5 DEF Placed, Final, ResetSteps
  <2> QED  BY <2>1, <2>2, <2>3 DEF WellFormed
<1>11. \A q \in Profile : q \in Touched(todo) => q \in unsettled'
  BY <1>1, <1>3, <1>9 DEF Touched, Touches
<1>12. \A q \in Profile : Has(todo, {"rename", "dropOld"}, q) => q \in unsettled'
  BY <1>1, <1>3, <1>9 DEF Has
<1>13. Touched(todo) \subseteq unsettled' /\ unsettled \subseteq unsettled'
  BY <1>1, <1>11 DEF Touched
<1>14. Order'
  <2>1. Checked(client'[s])
    BY <1>1, <1>2, <1>3, <1>5, <1>6, NoneAssumption DEF Checked, TypeOK, InConfig
  <2>2. cfg.valid => cfg'.valid
    BY <1>1
  <2>3. Touched(client'[s].todo) \subseteq Touched(client[s].todo) \cup unsettled'
    BY <1>6, <1>13
  <2>4. /\ WellFormed(client'[s].todo) /\ cfg'.valid /\ client'[s].base.valid
        /\ \A q \in Profile : Has(client'[s].todo, {"rename", "dropOld"}, q) =>
                              Has(client[s].todo, {"rename", "dropOld"}, q) \/ q \in unsettled'
    BY <1>1, <1>6, <1>10, <1>12
  <2> QED  BY <1>2, <1>7, <1>13, <2>1, <2>2, <2>3, <2>4, OrderKept
<1>15. ASSUME ~raced' PROVE Unraced'
  <2>1. SettledKept /\ NamesThere /\ DefaultThere
    BY <1>1, <1>15 DEF ProfilesInv, Unraced
  <2>2. SettledKept'
    <3>1. \A q \in Profile : HeldIn(q)' = HeldIn(q) /\ Alike(cfg, cfg', q)
      BY <1>1 DEF HeldIn, Alike
    <3>2. Touched(client[s].todo) = {}
      BY <1>1, IdleEmpty
    <3>3. Touched(client'[s].todo) \subseteq Touched(client[s].todo) \cup unsettled'
      BY <1>6, <1>13
    <3> QED  BY <1>2, <1>7, <1>13, <2>1, <3>1, <3>2, <3>3, SettledStep
  <2>3. NamesThere'
    <3>1. Names(cfg) \ Names(cfg') = {}
      BY <1>1
    <3>2. Touched(client[s].todo) = {}
      BY <1>1, IdleEmpty
    <3>3. \A i \in DOMAIN client'[s].todo : client'[s].todo[i].do \in {"rename", "default"} =>
             /\ client'[s].todo[i].p \in Names(cfg')
             /\ client'[s].todo[i].do = "rename" => client'[s].todo[i].x \in unsettled'
      BY <1>1, <1>3, <1>6, <1>9
    <3>4. \A t \in Shell \ {s}, q \in Names(cfg) \ Names(cfg') : ~Uses(t, q)
      BY <3>1
    <3> HIDE DEF NamesThere
    <3> QED  BY <1>2, <1>7, <1>13, <2>1, <3>2, <3>3, <3>4, NamesStep
  <2> QED  BY <1>1, <2>1, <2>2, <2>3 DEF Unraced, DefaultThere
<1>16. SessionOwnsAccount'
  BY <1>1, <1>2 DEF SessionOwnsAccount
<1> QED  BY <1>8, <1>14, <1>15, <1>16 DEF ProfilesInv, Order

\* Every command begins with its invariant.
LEMMA BeginKeeps ==
    ASSUME ProfilesInv, NEW s \in Shell, Begin(s)
    PROVE  ProfilesInv'
<1>1. TypeOK /\ cfg \in Config /\ Names(cfg) \subseteq Profile
  BY ConfigTyped DEF ProfilesInv, TypeOK
<1>2. \A todo : Prepared(todo) /\ Start(s, todo) => ProfilesInv'
  BY StartKeeps
<1>3. \A step \in StepType : cfg.valid /\ step.do \notin Credential \cup ResetSteps \cup {"leave", "default"} =>
         Prepared(<<step>>) /\ ~Resets(<<step>>) /\ \A i \in DOMAIN <<step>> : <<step>>[i].do # "default"
  <2> SUFFICES ASSUME NEW step \in StepType, cfg.valid,
                      step.do \notin Credential \cup ResetSteps \cup {"leave", "default"}
               PROVE  Prepared(<<step>>) /\ ~Resets(<<step>>)
                      /\ \A i \in DOMAIN <<step>> : <<step>>[i].do # "default"
    OBVIOUS
  <2>1. Prepared(<<step>>)
    BY OneStep
  <2>2. \A i \in DOMAIN <<step>> : <<step>>[i] = step
    OBVIOUS
  <2> QED  BY <2>1, <2>2 DEF Resets
<1>4. Personal \in Account /\ Implicit \subseteq Store /\ Store \subseteq Preferences
  BY ProfilesAssumption DEF Preferences
<1>5. ASSUME Login(s) PROVE ProfilesInv'
  <2>1. PICK p \in Profile, requested \in Preferences \cup {None}, setup \in BOOLEAN, api \in Url :
           \E store \in Wanted(p, requested) :
             cfg.valid /\ Start(s, (IF setup THEN SetUp(store) ELSE <<>>) \o
               <<Step("hold", p, store),
                 Step("metadata", p, [store |-> store, api |-> api, given |-> api # ProfileOf(s, cfg, p).api]),
                 Step("sync", p, None)>>)
    BY <1>5 DEF Login
  <2>2. PICK store \in Wanted(p, requested) :
             cfg.valid /\ Start(s, (IF setup THEN SetUp(store) ELSE <<>>) \o
               <<Step("hold", p, store),
                 Step("metadata", p, [store |-> store, api |-> api, given |-> api # ProfileOf(s, cfg, p).api]),
                 Step("sync", p, None)>>)
    BY <2>1
  <2> DEFINE todo == <<Step("hold", p, store),
                       Step("metadata", p, [store |-> store, api |-> api, given |-> api # ProfileOf(s, cfg, p).api]),
                       Step("sync", p, None)>>
             a == Step("prefer", None, store)
  <2>3. Preference(cfg, p) \in Preferences
    BY <1>1, ConfigTyped, SavedTyped DEF Preference
  <2>4. store \in Store
    <3>1. \A pref \in Preferences : Candidates(pref) \subseteq Store
      BY <1>4, NoneAssumption DEF Candidates, Preferences
    <3>2. requested # None => requested \in Preferences
      OBVIOUS
    <3> QED  BY <2>3, <3>1, <3>2 DEF Wanted
  <2>5. Prepared(todo) /\ ~Resets(todo) /\ (\A i \in DOMAIN todo : todo[i].do # "default") /\ cfg.valid
    BY <1>1, <2>2, <2>4, LoginPrepared
  <2>6. a \in StepType /\ a.do = "prefer"
    BY <1>4, <2>4, StepsMade
  <2>7. Start(s, (IF setup THEN <<a>> ELSE <<>>) \o todo)
    BY <2>2 DEF SetUp
  <2> HIDE DEF todo, a
  <2>8. CASE setup
    BY <1>2, <2>5, <2>6, <2>7, <2>8, StepInFront
  <2>9. CASE ~setup
    <3>1. <<>> \o todo = todo
      BY <2>5 DEF Prepared
    <3> QED  BY <1>2, <2>5, <2>7, <2>9, <3>1
  <2> QED  BY <2>8, <2>9
<1>6. ASSUME StorageSet(s) PROVE ProfilesInv'
  <2>1. PICK store \in Preferences : cfg.valid /\ Start(s, <<Step("prefer", None, store)>>)
    BY <1>6 DEF StorageSet, SetUp
  <2>2. Step("prefer", None, store) \in StepType /\ Step("prefer", None, store).do = "prefer"
    BY StepsMade
  <2> QED  BY <1>2, <1>3, <2>1, <2>2 DEF Credential, ResetSteps
<1>7. ASSUME Logout(s) PROVE ProfilesInv'
  <2>1. CASE \E p \in Profile : Start(s, SignOut(p))
    BY <1>2, <1>7, <2>1, SignOutPrepared DEF Logout
  <2>2. CASE Names(cfg) # {} /\ Start(s, SignOutEach(SetToSeq(Names(cfg))))
    BY <1>1, <1>2, <1>7, <2>2, SignOutEachPrepared DEF Logout
  <2> QED  BY <1>7, <2>1, <2>2 DEF Logout
<1>8. ASSUME DeleteProfile(s) PROVE ProfilesInv'
  BY <1>1, <1>2, <1>8, SignOutPrepared DEF DeleteProfile
<1>9. ASSUME DeleteAll(s) PROVE ProfilesInv'
  BY <1>1, <1>2, <1>9, DeleteAllPrepared DEF DeleteAll
<1>10. ASSUME UseProfile(s) PROVE ProfilesInv'
  <2>1. PICK p \in Names(cfg) :
           cfg.valid /\ Start(s, <<Step(IF s \in Integrated THEN "enter" ELSE "default", p, None)>>)
    BY <1>10 DEF UseProfile
  <2> DEFINE step == Step(IF s \in Integrated THEN "enter" ELSE "default", p, None)
  <2>2. step \in StepType /\ step.do \in {"enter", "default"} /\ step.p = p
    BY <1>1, StepsMade
  <2> HIDE DEF step
  <2>3. Prepared(<<step>>)
    BY <2>1, <2>2, OneStep DEF Credential, ResetSteps
  <2> QED  BY <1>2, <2>1, <2>3 DEF step
<1>11. ASSUME SwitchAccount(s) PROVE ProfilesInv'
  <2>1. PICK p \in Profile, x \in Account, listed \in BOOLEAN :
           cfg.valid /\ Start(s, (IF listed THEN <<>> ELSE <<Step("cache", p, x)>>) \o
                                 <<Step("activate", p, x), Step("act", p, x)>>)
    BY <1>11 DEF SwitchAccount
  <2> DEFINE a == Step("activate", p, x)
             b == Step("act", p, x)
             c == Step("cache", p, x)
             todo == <<a, b>>
  <2>2. a \in StepType /\ b \in StepType /\ c \in StepType /\ a.do = "activate" /\ b.do = "act" /\ c.do = "cache"
    BY StepsMade
  <2>3. Start(s, (IF listed THEN <<>> ELSE <<c>>) \o todo)
    BY <2>1
  <2> HIDE DEF a, b, c
  <2>4. /\ todo \in Seq(StepType) /\ todo # << >> /\ DOMAIN todo = {1, 2} /\ Head(todo) = a
        /\ todo[1] = a /\ todo[2] = b /\ \A i \in DOMAIN todo : todo[i] = a \/ todo[i] = b
    BY <2>2
  <2> HIDE DEF todo
  <2>5. WellFormed(todo)
    BY <2>2, <2>4 DEF WellFormed, Ordered, Completed, Placed, Final, ResetSteps, Credential
  <2>6. Prepared(todo)
    BY <2>1, <2>2, <2>4, <2>5 DEF Prepared
  <2>7. ~Resets(todo) /\ \A i \in DOMAIN todo : todo[i].do # "default"
    BY <2>2, <2>4 DEF Resets, ResetSteps
  <2>8. CASE listed
    <3>1. <<>> \o todo = todo
      BY <2>4
    <3> QED  BY <1>2, <2>3, <2>6, <2>8, <3>1
  <2>9. CASE ~listed
    BY <1>2, <2>1, <2>2, <2>3, <2>6, <2>7, <2>9, StepInFront
  <2> QED  BY <2>8, <2>9
<1>12. ASSUME SelectTarget(s) PROVE ProfilesInv'
  <2>1. PICK p \in Profile, x \in Account \cup {None}, option \in BOOLEAN, target \in Target \cup {None},
             owner \in Account :
           /\ cfg.valid /\ (option => x # None)
           /\ Start(s, (IF option THEN <<Step("cache", p, x)>> ELSE <<>>) \o
                       <<Step("ensure", p, [account |-> x, option |-> option,
                                            target |-> target, owner |-> owner])>>)
    BY <1>12 DEF SelectTarget
  <2> DEFINE what == [account |-> x, option |-> option, target |-> target, owner |-> owner]
             a == Step("ensure", p, what)
             c == Step("cache", p, x)
  <2>2. a \in StepType /\ a.do = "ensure"
    BY StepsMade
  <2>3. option => c \in StepType /\ c.do = "cache"
    BY <2>1, StepsMade
  <2>4. Start(s, (IF option THEN <<c>> ELSE <<>>) \o <<a>>)
    BY <2>1
  <2> HIDE DEF a, c
  <2>5. Prepared(<<a>>) /\ ~Resets(<<a>>) /\ \A i \in DOMAIN <<a>> : <<a>>[i].do # "default"
    BY <1>3, <2>1, <2>2 DEF Credential, ResetSteps
  <2>6. CASE option
    BY <1>2, <2>1, <2>3, <2>4, <2>5, <2>6, StepInFront
  <2>7. CASE ~option
    <3>1. <<>> \o <<a>> = <<a>>
      BY <2>2
    <3> QED  BY <1>2, <2>4, <2>5, <2>7, <3>1
  <2> QED  BY <2>6, <2>7
<1>13. ASSUME Rename(s) PROVE ProfilesInv'
  BY <1>13, RenameKeeps
<1> QED  BY <1>5, <1>6, <1>7, <1>8, <1>9, <1>10, <1>11, <1>12, <1>13 DEF Begin

-----------------------------------------------------------------------------
(* Commands that go on *)

LEMMA PromiseGoes ==
    ASSUME NEW p \in Profile, NEW todo \in Seq(StepType), WellFormed(todo), NEW new, Goes(todo, new),
           Promised(p, todo), ~Touches(Head(todo), p)
    PROVE  Promised(p, new)
<1>1. \A dos \in SUBSET Credential : Has(todo, dos, p) <=> Has(new, dos, p)
  <2>1. \A dos \in SUBSET Credential : ~(Head(todo).do \in dos /\ Head(todo).p = p)
    BY DEF Touches, Credential
  <2> QED  BY <2>1, GoesTouches
<1>2. \A i \in DOMAIN new : \E j \in DOMAIN todo : new[i] = todo[j]
  BY GoesOn
<1>3. {{"hold", "drop"}, {"hold"}, {"clear", "remove"}, {"drop"}, {"dropAll"}} \subseteq SUBSET Credential
  BY DEF Credential
<1>4. /\ Has(todo, {"hold", "drop"}, p) <=> Has(new, {"hold", "drop"}, p)
      /\ Has(todo, {"hold"}, p) <=> Has(new, {"hold"}, p)
      /\ Has(todo, {"clear", "remove"}, p) <=> Has(new, {"clear", "remove"}, p)
      /\ Has(todo, {"drop"}, p) <=> Has(new, {"drop"}, p)
      /\ Has(todo, {"dropAll"}, p) <=> Has(new, {"dropAll"}, p)
  BY <1>1, <1>3
<1> QED  BY <1>2, <1>4 DEF Promised

\* What a command is in when it takes a step.
Running(s) ==
    /\ TypeOK /\ Order /\ Only(s) /\ client[s].todo # << >>
    /\ cfg.valid => cfg'.valid
    /\ unsettled \subseteq unsettled'

LEMMA RunningFacts ==
    ASSUME NEW s \in Shell, TypeOK, Order
    PROVE  /\ client[s].todo \in Seq(StepType) /\ WellFormed(client[s].todo) /\ Checked(client[s])
           /\ client[s].base \in Config \cup {None} /\ cfg \in Config
           /\ client[s].base # None => client[s].base.valid
           /\ client[s].todo # << >> =>
                 /\ Resets(client[s].todo) \/ cfg.valid
                 /\ 1 \in DOMAIN client[s].todo /\ Head(client[s].todo) = client[s].todo[1]
                 /\ Head(client[s].todo) \in StepType
                 /\ \A i \in DOMAIN client[s].todo : Resets(client[s].todo) => client[s].todo[i].do \in ResetSteps
<1>1. client[s] \in ClientState /\ cfg \in Config
  BY DEF TypeOK
<1>2. client[s].todo \in Seq(StepType) /\ client[s].base \in Config \cup {None}
  BY <1>1 DEF ClientState
<1>3. Runs(client[s]) /\ Checked(client[s])
  BY DEF Order, CommandsRun
<1> DEFINE todo == client[s].todo
<1>4. todo # << >> => 1 \in DOMAIN todo /\ Head(todo) = todo[1] /\ Head(todo) \in StepType
  BY <1>2
<1>5. WellFormed(todo) /\ Resets(todo) => \A i \in DOMAIN todo : todo[i].do \in ResetSteps
  BY DEF Resets, WellFormed, Placed
<1> QED  BY <1>1, <1>2, <1>3, <1>4, <1>5 DEF Runs

LEMMA OrderGoes ==
    ASSUME NEW s \in Shell, Running(s), Goes(client[s].todo, client'[s].todo),
           client'[s].base # None =>
              /\ client'[s].base.valid /\ client'[s].todo # << >>
              /\ Head(client'[s].todo).do \in InSession,
           Head(client[s].todo).do = "remove" /\ client'[s].todo # << >> /\ Head(client'[s].todo).do = "leave" =>
              client'[s].base # None
    PROVE  Order'
<1>1. PICK todo, new : todo = client[s].todo /\ new = client'[s].todo
  OBVIOUS
<1>2. todo \in Seq(StepType) /\ WellFormed(todo) /\ (todo # << >> => Resets(todo) \/ cfg.valid)
  BY <1>1, RunningFacts DEF Running
<1>3. Goes(todo, new)
  BY <1>1
<1>4. /\ new \in Seq(StepType) /\ WellFormed(new)
      /\ new # << >> /\ Head(new).do = "leave" => Head(todo).do = "remove"
      /\ \A i \in DOMAIN new : \E j \in DOMAIN todo : new[i] = todo[j]
  BY <1>2, <1>3, GoesOn
<1>5. new # << >> => 1 \in DOMAIN new /\ Head(new) = new[1]
  BY <1>4
<1>6. \A i \in DOMAIN new : new[i].do \notin {"rename", "default"}
  BY <1>2, <1>3, HeadRest
<1>7. /\ \A p \in Profile : p \in Touched(new) => p \in Touched(todo)
      /\ \A p \in Profile : \A dos : Has(new, dos, p) => Has(todo, dos, p)
  BY <1>4 DEF Touched, Has
<1>8. new # << >> => Resets(new) \/ cfg'.valid
  <2>1. todo # << >>
    BY <1>3 DEF Goes
  <2>2. ASSUME Resets(todo), new # << >> PROVE Resets(new)
    <3>1. \A i \in DOMAIN todo : todo[i].do \in ResetSteps
      BY <1>2, <2>2 DEF Resets, WellFormed, Placed
    <3> QED  BY <1>4, <1>5, <2>2, <3>1 DEF Resets
  <2> QED  BY <1>2, <2>1, <2>2 DEF Running
<1>9. Checked(client'[s])
  BY <1>1, <1>4, <1>5, <1>6 DEF Checked
<1>10. Touched(new) \subseteq Touched(todo)
  BY <1>7 DEF Touched
<1>11. Running(s)
  OBVIOUS
<1> QED  BY <1>1, <1>4, <1>7, <1>8, <1>9, <1>10, <1>11, OrderKept DEF Running

\* What is settled stays so when a command does its first step.
LEMMA SettledGoes ==
    ASSUME NEW s \in Shell, Running(s), SettledKept, Goes(client[s].todo, client'[s].todo),
           \A p \in Profile \ unsettled' : ~Touches(Head(client[s].todo), p) =>
              /\ HeldIn(p)' = HeldIn(p)
              /\ \/ Alike(cfg, cfg', p)
                 \/ /\ p \notin Touched(client[s].todo)
                    /\ \E t \in Shell : Resets(client[t].todo) /\ p \in Touched(client[t].todo),
           client'[s].base = None \/ (client'[s].todo # << >> => Head(client'[s].todo).do \notin {"clear", "remove"}),
           \A p \in Profile \ unsettled' : Touches(Head(client[s].todo), p) =>
              IF p \in Touched(client'[s].todo) THEN Promised(p, client[s].todo)' ELSE Matches(p)'
    PROVE  SettledKept'
<1>1. PICK todo, new : todo = client[s].todo /\ new = client'[s].todo
  OBVIOUS
<1>2. todo \in Seq(StepType) /\ WellFormed(todo) /\ Goes(todo, new)
  BY <1>1, RunningFacts DEF Running
<1>3. \A p \in Profile : p \in Touched(todo) <=> Touches(Head(todo), p) \/ p \in Touched(new)
  BY <1>2, GoesTouches
<1>4. \A p : NothingToClear(p, client[s])'
  BY DEF NothingToClear
<1>5. ASSUME NEW p \in Profile, p \notin unsettled', p \in Touched(todo)
      PROVE  IF p \in Touched(new) THEN Promised(p, client[s].todo)' ELSE Matches(p)'
  <2>1. CASE Touches(Head(todo), p)
    BY <1>1, <1>5, <2>1
  <2>2. CASE ~Touches(Head(todo), p)
    <3>1. HeldIn(p)' = HeldIn(p) /\ Alike(cfg, cfg', p)
      BY <1>1, <1>5, <2>2
    <3>2. p \in Touched(new)
      BY <1>3, <1>5, <2>2
    <3>3. Promised(p, todo)
      BY <1>1, <1>5 DEF Running, SettledKept
    <3>4. Promised(p, new)
      BY <1>2, <2>2, <3>3, PromiseGoes
    <3>5. Promised(p, new)'
      BY <3>1, <3>4, PromiseStays
    <3>6. Promised(p, client[s].todo)'
      BY <1>1, <3>5 DEF Promised, Has, Matches
    <3> QED  BY <3>2, <3>6
  <2> QED  BY <2>1, <2>2
<1>6. Touched(new) \subseteq Touched(todo)
  BY <1>3 DEF Touched
<1>7. \A p \in Profile \ unsettled' : p \notin Touched(client[s].todo) =>
              /\ HeldIn(p)' = HeldIn(p)
              /\ \/ Alike(cfg, cfg', p)
                 \/ \E t \in Shell : Resets(client[t].todo) /\ p \in Touched(client[t].todo)
  BY <1>1, <1>3
<1>8. \A p \in Profile \ unsettled' : p \in Touched(client[s].todo) =>
              IF p \in Touched(client'[s].todo) THEN Promised(p, client[s].todo)' /\ NothingToClear(p, client[s])'
              ELSE Matches(p)'
  BY <1>1, <1>4, <1>5
<1>9. Touched(client'[s].todo) \subseteq Touched(client[s].todo) \cup unsettled'
  BY <1>1, <1>6
<1>10. TypeOK /\ Order /\ Only(s) /\ unsettled \subseteq unsettled'
  BY DEF Running
<1> QED  BY ONLY <1>7, <1>8, <1>9, <1>10, SettledKept, s \in Shell, SettledStep

LEMMA NamesGoes ==
    ASSUME NEW s \in Shell, Running(s), NamesThere, Goes(client[s].todo, client'[s].todo),
           \A t \in Shell \ {s}, p \in Names(cfg) \ Names(cfg') : ~Uses(t, p),
           Head(client[s].todo).do = "baseline" => Names(cfg') = {}
    PROVE  NamesThere'
<1>1. PICK todo, new : todo = client[s].todo /\ new = client'[s].todo
  OBVIOUS
<1>2. todo \in Seq(StepType) /\ WellFormed(todo) /\ Goes(todo, new)
  BY <1>1, RunningFacts DEF Running
<1>3. \A i \in DOMAIN new : new[i].do \notin {"rename", "default"}
  BY <1>2, HeadRest
<1>4. ASSUME NEW p \in Profile, Resets(todo), p \in Touched(todo)
      PROVE  Names(cfg') = {} \/ (Resets(new) /\ p \in Touched(new))
  <2>1. CASE p \in Touched(new)
    <3>1. new # << >>
      BY <2>1 DEF Touched
    <3> QED  BY <1>2, <1>4, <2>1, <3>1, GoesTouches
  <2>2. CASE Touches(Head(todo), p)
    <3>1. Head(todo).do \in ResetSteps
      BY <1>2, <1>4 DEF Goes, Resets, WellFormed, Placed
    <3>2. CASE Head(todo).do = "baseline"
      BY <1>1, <3>2
    <3>3. CASE Head(todo).do = "dropAll"
      <4>1. p = Head(todo).p
        BY <2>2, <3>3 DEF Touches
      <4>2. PICK i \in DOMAIN new : new[i].do = "baseline" /\ p \in new[i].x
        BY <1>2, <3>3, <4>1, HeadRest
      <4>3. p \in Touched(new)
        BY <4>2 DEF Touched, Touches
      <4>4. Resets(new)
        BY <4>2 DEF Resets, ResetSteps
      <4> QED  BY <4>3, <4>4
    <3>4. Head(todo).do # "restart"
      BY <2>2 DEF Touches, Credential
    <3> QED  BY <3>1, <3>2, <3>3, <3>4 DEF ResetSteps
  <2> QED  BY <1>2, <1>4, <2>1, <2>2, GoesTouches
<1>5. TypeOK /\ Order /\ Only(s) /\ unsettled \subseteq unsettled'
  BY DEF Running
<1>6. \/ \A i \in DOMAIN client'[s].todo : client'[s].todo[i].do \in {"rename", "default"} =>
            /\ client'[s].todo[i].p \in Names(cfg')
            /\ client'[s].todo[i].do = "rename" => client'[s].todo[i].x \in unsettled'
      \/ client'[s].todo = client[s].todo /\ Names(cfg') = Names(cfg)
  BY <1>1, <1>3
<1>7. \A p \in Profile : Resets(client[s].todo) /\ p \in Touched(client[s].todo) =>
         \/ p \in unsettled' \/ Names(cfg') = {}
         \/ Resets(client'[s].todo) /\ p \in Touched(client'[s].todo)
  BY <1>1, <1>4
<1>8. \A t \in Shell \ {s}, p \in Names(cfg) \ Names(cfg') : ~Uses(t, p)
  OBVIOUS
<1> QED  BY ONLY <1>5, <1>6, <1>7, <1>8, NamesThere, s \in Shell, NamesStep

-----------------------------------------------------------------------------
(* Each step *)

LEMMA SaveSessionKeeps ==
    ASSUME ProfilesInv, NEW s \in Shell, SaveSession(s)
    PROVE  ProfilesInv'
<1>1. TypeOK /\ Order /\ SessionOwnsAccount
  BY DEF ProfilesInv, Order
<1>0. PICK todo, step, base : todo = client[s].todo /\ step = Head(todo) /\ base = client[s].base
  OBVIOUS
<1>2. /\ todo # << >> /\ step.do \in InSession
      /\ session' = [session EXCEPT ![s] = SessionAfter(s, step, base)]
      /\ client' = [client EXCEPT ![s] = [todo |-> Tail(todo), base |-> None]]
      /\ cfg' = cfg /\ held' = held /\ commands' = commands /\ kills' = kills
      /\ raced' = raced /\ unsettled' = unsettled
  BY <1>0 DEF SaveSession, At, Head1
<1>3. /\ todo \in Seq(StepType) /\ WellFormed(todo) /\ Checked(client[s]) /\ step \in StepType
      /\ base \in Config \cup {None}
  BY <1>0, <1>1, <1>2, RunningFacts
<1>4. Goes(todo, Tail(todo))
  BY <1>2 DEF Goes
<1>5. Tail(todo) \in Seq(StepType) /\ client \in [Shell -> ClientState]
  BY <1>1, <1>3, <1>4, GoesOn DEF TypeOK
<1>6. client'[s] = [todo |-> Tail(todo), base |-> None] /\ Only(s)
  BY <1>2, <1>5 DEF Only, ClientState
<1>7. /\ SessionAfter(s, step, base) \in SessionState /\ session[s] \in SessionState
      /\ SessionAfter(s, step, base).account # None => SessionAfter(s, step, base).profile # None
  <2>1. session[s] \in SessionState /\ (session[s].account # None => session[s].profile # None)
    BY <1>1 DEF TypeOK, SessionOwnsAccount
  <2>11. step.do = "leave" => base # None
    BY <1>0, <1>2, <1>3 DEF Checked
  <2>12. step \in StepType /\ step.do \in InSession /\ base \in Config \cup {None}
    BY <1>2, <1>3
  <2>2. /\ step.do # "restart" => step.p \in Profile
        /\ step.do = "restart" => step.p = Default
        /\ Default \in Profile /\ None \notin Profile
    BY <2>12, StepTyped, ProfilesAssumption, NoneAssumption DEF InSession
  <2>3. step.do = "leave" => base.default \in Profile
    BY <2>11, <2>12, ConfigTyped
  <2>4. step.do = "act" => step.x \in Account
    BY <2>12, StepTyped
  <2>5. step.do = "follow" => step.x \in Profile
    BY <2>12, StepTyped
  <2>6. SessionState = [profile: Profile \cup {None}, account: Account \cup {None}]
    BY DEF SessionState
  <2>7. CASE step.do \in {"enter", "restart"}
    BY <2>2, <2>1, <2>6, <2>7 DEF SessionAfter
  <2>8. CASE step.do = "act"
    BY <2>2, <2>4, <2>1, <2>6, <2>8 DEF SessionAfter
  <2>9. CASE step.do = "leave"
    BY <2>2, <2>3, <2>1, <2>6, <2>9 DEF SessionAfter
  <2>13. CASE step.do = "follow"
    BY <2>2, <2>5, <2>1, <2>6, <2>13 DEF SessionAfter
  <2> QED  BY <2>1, <2>12, <2>7, <2>8, <2>9, <2>13 DEF InSession
<1>8. session' \in [Shell -> SessionState] /\ SessionOwnsAccount'
  <2>1. session \in [Shell -> SessionState]
    BY <1>1 DEF TypeOK
  <2>2. PICK new : new = SessionAfter(s, step, base)
    OBVIOUS
  <2>3. session' = [session EXCEPT ![s] = new] /\ new \in SessionState /\ (new.account # None => new.profile # None)
    BY <1>2, <1>7, <2>2
  <2> QED  BY ONLY <1>1, <2>1, <2>3 DEF SessionOwnsAccount
<1>9. TypeOK'
  BY <1>1, <1>2, <1>6, <1>8 DEF TypeOK, Only
<1>10. Running(s) /\ Goes(client[s].todo, client'[s].todo) /\ client'[s].base = None
  BY <1>0, <1>1, <1>2, <1>4, <1>6 DEF Running
<1>13. Head(client[s].todo) = step /\ step.do \notin {"remove", "baseline"}
  BY <1>0, <1>2 DEF InSession
<1>11. Order'
  BY <1>10, <1>13, OrderGoes
<1>12. ASSUME ~raced' PROVE Unraced'
  <2>1. SettledKept /\ NamesThere /\ DefaultThere
    BY <1>2, <1>12 DEF ProfilesInv, Unraced
  <2>2. \A p \in Profile : HeldIn(p)' = HeldIn(p) /\ Alike(cfg, cfg', p) /\ ~Touches(step, p)
    BY <1>2 DEF HeldIn, Alike, Touches, InSession, Credential
  <2>3. SettledKept'
    BY <1>10, <1>13, <2>1, <2>2, SettledGoes
  <2>4. Names(cfg) \ Names(cfg') = {}
    BY <1>2
  <2>5. NamesThere'
    BY <1>10, <1>13, <2>1, <2>4, NamesGoes
  <2> QED  BY <1>2, <2>1, <2>3, <2>5 DEF Unraced, DefaultThere
<1> QED  BY <1>8, <1>9, <1>11, <1>12 DEF ProfilesInv, Order

LEMMA HoldKeeps ==
    ASSUME ProfilesInv, NEW s \in Shell, Hold(s)
    PROVE  ProfilesInv'
<1>1. TypeOK /\ Order /\ SessionOwnsAccount
  BY DEF ProfilesInv, Order
<1>0. PICK todo, step, new, p :
         todo = client[s].todo /\ step = Head(todo) /\ new = Tail(todo) /\ p = step.p
  OBVIOUS
<1>2. /\ todo # << >> /\ step.do = "hold"
      /\ held' = held \cup {<<step.x, p>>}
      /\ unsettled' = IF \E st \in Store \ {step.x} : <<st, p>> \in held
                      THEN unsettled \cup {p} ELSE unsettled
      /\ client' = [client EXCEPT ![s].todo = new]
      /\ cfg' = cfg /\ session' = session /\ commands' = commands /\ kills' = kills /\ raced' = raced
  BY <1>0 DEF Hold, At, Head1
<1>3. /\ todo \in Seq(StepType) /\ WellFormed(todo) /\ step \in StepType
      /\ client[s].base = None
  BY <1>0, <1>1, <1>2, RunningFacts DEF Checked, InConfig, InSession
<1>4. Goes(todo, new) /\ step.x \in Store /\ p \in Profile
  BY <1>0, <1>2, <1>3, StepTyped DEF Goes, Credential
<1>5. new \in Seq(StepType) /\ client \in [Shell -> ClientState]
  BY <1>1, <1>3, <1>4, GoesOn DEF TypeOK
<1>6. client'[s].todo = new /\ client'[s].base = client[s].base /\ Only(s)
  BY <1>0, <1>2, <1>5 DEF Only, ClientState
<1>7. TypeOK' /\ unsettled \subseteq unsettled'
  <2>1. held' \subseteq Store \X Profile
    BY <1>1, <1>2, <1>4 DEF TypeOK
  <2>2. unsettled' \subseteq Profile /\ unsettled \subseteq unsettled'
    BY <1>1, <1>2, <1>4 DEF TypeOK
  <2> QED  BY <1>1, <1>2, <1>6, <2>1, <2>2 DEF TypeOK, Only
<1>8. Running(s) /\ Goes(client[s].todo, client'[s].todo)
  BY <1>0, <1>1, <1>2, <1>4, <1>6, <1>7 DEF Running
<1>13. Head(client[s].todo) = step /\ client'[s].base = None /\ client'[s].todo = new
  BY <1>0, <1>3, <1>6
<1>9. Order'
  BY <1>2, <1>8, <1>13, OrderGoes
<1>10. /\ \A i \in DOMAIN new : new[i].p = p /\ new[i].do \in Credential =>
             new[i].do = "metadata" /\ new[i].x.store = step.x
       /\ Has(new, {"metadata"}, p)
       /\ \A i \in DOMAIN new : new[i].do \notin ResetSteps
  <2>0. step.do \in Credential /\ step.do \notin ResetSteps
    BY <1>2 DEF Credential, ResetSteps
  <2>1. /\ \A i \in DOMAIN new : new[i].p = p /\ new[i].do \in Credential =>
             <<step.do, new[i].do>> \in Follows /\ new[i].x.store = step.x
        /\ \A i \in DOMAIN new : new[i].do \in ResetSteps <=> step.do \in ResetSteps
        /\ Has(new, {"metadata"}, p)
    <3>1. /\ \A i \in DOMAIN new :
               /\ new[i].p = Head(todo).p /\ new[i].do \in Credential /\ Head(todo).do \in Credential =>
                     /\ <<Head(todo).do, new[i].do>> \in Follows
                     /\ Head(todo).do = "hold" => new[i].x.store = Head(todo).x
               /\ new[i].do \in ResetSteps <=> Head(todo).do \in ResetSteps
          /\ Head(todo).do = "hold" => Has(new, {"metadata"}, Head(todo).p)
      BY <1>3, <1>4, HeadRest
    <3> QED  BY ONLY <1>0, <1>2, <2>0, <3>1
  <2> QED  BY <1>2, <2>0, <2>1 DEF Follows
<1>11. ASSUME ~raced' PROVE Unraced'
  <2>1. SettledKept /\ NamesThere /\ DefaultThere
    BY <1>2, <1>11 DEF ProfilesInv, Unraced
  <2>2. \A q \in Profile : Alike(cfg, cfg', q) /\ (Touches(step, q) <=> q = p)
    BY <1>0, <1>2 DEF Alike, Touches, Credential
  <2>3. \A q \in Profile : q # p => HeldIn(q)' = HeldIn(q)
    BY <1>2 DEF HeldIn
  <2>4. ASSUME p \notin unsettled' PROVE p \in Touched(new) /\ Promised(p, client[s].todo)'
    <3>0. \A st \in Store : <<st, p>> \in held => st = step.x
      BY <1>2, <2>4
    <3>1. HeldIn(p)' = {step.x}
      <4>1. \A st \in Store : <<st, p>> \in held' <=> (st = step.x \/ <<st, p>> \in held)
        BY <1>2
      <4>2. step.x \in Store
        BY <1>4
      <4> QED  BY <3>0, <4>1, <4>2 DEF HeldIn
    <3>2. p \in Touched(new)
      BY <1>4, <1>10 DEF Touched, Touches, Has, Credential
    <3>3. Promised(p, todo)
      <4>1. p \in Touched(todo)
        BY <1>0, <1>3, <1>4, <3>2, GoesTouches
      <4> QED  BY <1>0, <1>4, <1>7, <2>1, <2>4, <4>1 DEF SettledKept
    <3>4. \A i \in DOMAIN new : new[i].do = "metadata" /\ new[i].p = p /\ SignedIn(cfg', p) /\ ~new[i].x.given =>
             new[i].x.api = cfg'.profiles[p].api
      <4>1. \A i \in DOMAIN new : \E j \in DOMAIN todo : new[i] = todo[j]
        BY <1>3, <1>4, GoesOn
      <4> QED  BY <1>2, <3>3, <4>1 DEF Promised
    <3>5. ~Has(new, {"hold", "drop"}, p) /\ ~Has(new, {"clear", "remove"}, p)
      BY <1>10 DEF Has, Credential
    <3>6. \A i \in DOMAIN new : new[i].do # "baseline"
      BY <1>10 DEF ResetSteps
    <3>7. Promised(p, new)'
      BY <1>2, <1>10, <3>1, <3>4, <3>5, <3>6 DEF Promised, Credential
    <3> QED  BY <1>13, <3>2, <3>7 DEF Promised, Has, Matches
  <2>5. SettledKept'
    BY <1>8, <1>13, <2>1, <2>2, <2>3, <2>4, SettledGoes
  <2>6. Names(cfg) \ Names(cfg') = {}
    BY <1>2
  <2>7. NamesThere'
    BY <1>2, <1>8, <1>13, <2>1, <2>6, NamesGoes
  <2> QED  BY <1>2, <2>1, <2>5, <2>7 DEF Unraced, DefaultThere
<1>12. SessionOwnsAccount'
  BY <1>1, <1>2 DEF SessionOwnsAccount
<1> QED  BY <1>7, <1>9, <1>11, <1>12 DEF ProfilesInv, Order

LEMMA DropKeeps ==
    ASSUME ProfilesInv, NEW s \in Shell, Drop(s)
    PROVE  ProfilesInv'
<1>1. TypeOK /\ Order /\ SessionOwnsAccount
  BY DEF ProfilesInv, Order
<1>0. PICK todo, step, new, p :
         todo = client[s].todo /\ step = Head(todo) /\ new = Tail(todo) /\ p = step.p
  OBVIOUS
<1>2. /\ todo # << >> /\ step.do \in {"drop", "dropOld", "dropAll"}
      /\ IF cfg.valid \/ step.do = "dropAll"
         THEN /\ held' = held \ {<<st, p>> : st \in StoresOf(cfg, step)}
              /\ client' = [client EXCEPT ![s].todo = new]
         ELSE client' = [client EXCEPT ![s] = Idle] /\ held' = held
      /\ cfg' = cfg /\ session' = session /\ commands' = commands /\ kills' = kills /\ raced' = raced
      /\ unsettled' = unsettled
  BY <1>0 DEF Drop, At, Head1
<1>3. /\ todo \in Seq(StepType) /\ WellFormed(todo) /\ step \in StepType
      /\ client[s].base = None
  BY <1>0, <1>1, <1>2, RunningFacts DEF Checked, InConfig, InSession
\* Only a reset runs on a configuration that cannot be read.
<1>14. cfg.valid \/ step.do = "dropAll"
  <2>1. cfg.valid \/ step.do \in ResetSteps
    BY <1>0, <1>1, <1>2, RunningFacts
  <2> QED  BY <1>2, <2>1 DEF ResetSteps
<1>15. /\ held' = held \ {<<st, p>> : st \in StoresOf(cfg, step)}
       /\ client' = [client EXCEPT ![s].todo = new]
  BY <1>2, <1>14
<1>4. Goes(todo, new) /\ p \in Profile
  BY <1>0, <1>2, <1>3, StepTyped DEF Goes, Credential
<1>5. new \in Seq(StepType) /\ client \in [Shell -> ClientState]
  BY <1>1, <1>3, <1>4, GoesOn DEF TypeOK
<1>6. client'[s].todo = new /\ client'[s].base = client[s].base /\ Only(s)
  BY <1>0, <1>15, <1>5 DEF Only, ClientState
<1>7. TypeOK'
  <2>1. held' \subseteq Store \X Profile
    BY <1>1, <1>15 DEF TypeOK
  <2> QED  BY <1>1, <1>2, <1>6, <2>1 DEF TypeOK, Only
<1>8. Running(s) /\ Goes(client[s].todo, client'[s].todo)
  BY <1>0, <1>1, <1>2, <1>4, <1>6, <1>7 DEF Running
<1>13. Head(client[s].todo) = step /\ client'[s].base = None /\ client'[s].todo = new
  BY <1>0, <1>3, <1>6
<1>9. Order'
  BY <1>2, <1>8, <1>13, OrderGoes
<1>10. /\ \A i \in DOMAIN new : new[i].p = p /\ new[i].do \in Credential => <<step.do, new[i].do>> \in Follows
       /\ \A i \in DOMAIN new : new[i].do \in ResetSteps <=> step.do \in ResetSteps
       /\ step.do = "drop" => Has(new, {"clear"}, p)
       /\ step.do = "dropAll" => \E i \in DOMAIN new : new[i].do = "baseline" /\ p \in new[i].x
  <2>0. step.do \in Credential
    BY <1>2 DEF Credential
  <2>1. /\ \A i \in DOMAIN new :
               /\ new[i].p = Head(todo).p /\ new[i].do \in Credential /\ Head(todo).do \in Credential =>
                     <<Head(todo).do, new[i].do>> \in Follows
               /\ new[i].do \in ResetSteps <=> Head(todo).do \in ResetSteps
        /\ Head(todo).do = "drop" => Has(new, {"clear"}, Head(todo).p)
        /\ Head(todo).do = "dropAll" => \E i \in DOMAIN new : new[i].do = "baseline" /\ Head(todo).p \in new[i].x
    BY <1>3, <1>4, HeadRest
  <2> QED  BY ONLY <1>0, <2>0, <2>1
<1>11. ASSUME ~raced' PROVE Unraced'
  <2>1. SettledKept /\ NamesThere /\ DefaultThere
    BY <1>2, <1>11 DEF ProfilesInv, Unraced
  <2>2. \A q \in Profile : Alike(cfg, cfg', q) /\ (Touches(step, q) <=> q = p)
    BY <1>0, <1>2 DEF Alike, Touches, Credential
  <2>3. \A q \in Profile : q # p => HeldIn(q)' = HeldIn(q)
    BY <1>15 DEF HeldIn
  <2>4. ASSUME p \notin unsettled' PROVE p \in Touched(new) /\ Promised(p, client[s].todo)'
    <3>0. /\ p \in Touched(todo) /\ Promised(p, todo) /\ step.do # "dropOld"
          /\ step.do = "drop" => Matches(p)
      <4>1. p \in Touched(todo)
        BY <1>0, <1>3, <1>4, <2>2, GoesTouches
      <4>2. Promised(p, todo)
        BY <1>0, <1>2, <1>4, <2>1, <2>4, <4>1 DEF SettledKept
      <4>3. 1 \in DOMAIN todo /\ todo[1] = step
        BY <1>0, <1>2, <1>3
      <4>4. step.do = "drop" => Has(todo, {"hold", "drop"}, p)
        BY <1>0, <4>3 DEF Has
      <4>5. step.do = "dropOld" => Has(client[s].todo, {"rename", "dropOld"}, p)
        BY <1>0, <4>3 DEF Has
      <4>6. step.do # "dropOld"
        BY <1>1, <1>2, <1>4, <2>4, <4>5 DEF Order, RenameUnsettled
      <4> QED  BY <4>1, <4>2, <4>4, <4>6 DEF Promised
    <3>1. HeldIn(p)' = {}
      <4>1. \A st \in Store : <<st, p>> \in held' => <<st, p>> \in held /\ st \notin StoresOf(cfg, step)
        BY <1>15
      <4>2. \A st \in Store : <<st, p>> \in held => st \in StoresOf(cfg, step)
        <5>1. CASE step.do = "dropAll"
          BY <5>1 DEF StoresOf
        <5>2. CASE step.do = "drop"
          <6> SUFFICES ASSUME NEW st \in Store, <<st, p>> \in held
                       PROVE  st \in StoresOf(cfg, step)
            OBVIOUS
          <6>1. p \in Names(cfg) /\ cfg.profiles[p].store = st
            BY <3>0, <5>2 DEF Matches, HeldIn, SignedIn
          <6>2. st # None /\ st # AutoStore
            BY NoneAssumption DEF Preferences
          <6> QED  BY <1>0, <5>2, <6>1, <6>2 DEF StoresOf, Preference, Candidates
        <5> QED  BY <1>2, <3>0, <5>1, <5>2
      <4> QED  BY <4>1, <4>2 DEF HeldIn
    <3>2. p \in Touched(new)
      <4>1. step.do = "drop" => \E i \in DOMAIN new : Touches(new[i], p)
        BY <1>10 DEF Has, Touches, Credential
      <4>2. step.do = "dropAll" => \E i \in DOMAIN new : Touches(new[i], p)
        BY <1>10 DEF Touches
      <4> QED  BY <1>2, <1>4, <3>0, <4>1, <4>2 DEF Touched
    <3>3. \A i \in DOMAIN new : new[i].p = p => new[i].do \notin {"hold", "drop", "metadata"}
      BY <1>2, <1>10, <3>0 DEF Follows, Credential
    <3>4. ~Has(new, {"hold", "drop"}, p)
      BY <3>3 DEF Has
    <3>5. Promised(p, new)'
      BY <3>1, <3>3, <3>4 DEF Promised
    <3> QED  BY <1>13, <3>2, <3>5 DEF Promised, Has, Matches
  <2>5. SettledKept'
    BY <1>8, <1>13, <2>1, <2>2, <2>3, <2>4, SettledGoes
  <2>6. Names(cfg) \ Names(cfg') = {}
    BY <1>2
  <2>7. NamesThere'
    BY <1>2, <1>8, <1>13, <2>1, <2>6, NamesGoes
  <2> QED  BY <1>2, <2>1, <2>5, <2>7 DEF Unraced, DefaultThere
<1>12. SessionOwnsAccount'
  BY <1>1, <1>2 DEF SessionOwnsAccount
<1> QED  BY <1>7, <1>9, <1>11, <1>12 DEF ProfilesInv, Order

\* A command that ends leaves its profiles unsettled, or their credentials where they belong.
LEMMA EndKeeps ==
    ASSUME TypeOK, Order, NEW s \in Shell, Only(s), client'[s] = Idle, cfg' = cfg, held' = held,
           unsettled \subseteq unsettled',
           ~Resets(client[s].todo) \/ Touched(client[s].todo) \subseteq unsettled',
           Unraced => \A p \in Profile \ unsettled' : p \in Touched(client[s].todo) => Matches(p)
    PROVE  Order' /\ (Unraced => Unraced')
<1>1. client'[s].todo = << >> /\ client'[s].base = None /\ DOMAIN client'[s].todo = {}
  BY IdleEmpty
<1>2. Touched(client'[s].todo) = {} /\ \A dos, p : ~Has(client'[s].todo, dos, p)
  BY <1>1 DEF Touched, Has
<1>3. WellFormed(client'[s].todo) /\ Checked(client'[s])
  BY <1>1 DEF WellFormed, Ordered, Completed, Placed, Checked
<1>4. Order'
  BY <1>1, <1>2, <1>3, OrderKept
<1>5. ASSUME Unraced PROVE Unraced'
  <2>1. SettledKept /\ NamesThere /\ DefaultThere
    BY <1>5 DEF Unraced
  <2>2. \A p \in Profile : HeldIn(p)' = HeldIn(p) /\ Alike(cfg, cfg', p) /\ (Matches(p) => Matches(p)')
    BY DEF HeldIn, Alike, Matches, SignedIn
  <2>3. \A p \in Profile \ unsettled' : p \in Touched(client[s].todo) =>
              IF p \in Touched(client'[s].todo) THEN Promised(p, client[s].todo)' /\ NothingToClear(p, client[s])'
              ELSE Matches(p)'
    BY <1>2, <1>5, <2>2
  <2>4. SettledKept'
    BY <1>2, <2>1, <2>2, <2>3, SettledStep
  <2>5. Names(cfg) \ Names(cfg') = {}
    OBVIOUS
  <2>6. /\ \A t \in Shell \ {s}, p \in Names(cfg) \ Names(cfg') : ~Uses(t, p)
        /\ \A i \in DOMAIN client'[s].todo : client'[s].todo[i].do \in {"rename", "default"} =>
              /\ client'[s].todo[i].p \in Names(cfg')
              /\ client'[s].todo[i].do = "rename" => client'[s].todo[i].x \in unsettled'
        /\ \A p \in Profile : Resets(client[s].todo) /\ p \in Touched(client[s].todo) =>
              \/ p \in unsettled' \/ Names(cfg') = {}
              \/ Resets(client'[s].todo) /\ p \in Touched(client'[s].todo)
    BY <1>1, <2>5
  <2>7. NamesThere'
    BY <2>1, <2>6, NamesStep
  <2> QED  BY <2>1, <2>4, <2>7 DEF Unraced, DefaultThere
<1> QED  BY <1>4, <1>5

LEMMA KillKeeps ==
    ASSUME ProfilesInv, NEW s \in Shell, Kill(s)
    PROVE  ProfilesInv'
<1>1. TypeOK /\ Order /\ SessionOwnsAccount
  BY DEF ProfilesInv, Order
<1>2. /\ kills < MaxKills /\ kills' = kills + 1 /\ client' = [client EXCEPT ![s] = Idle]
      /\ unsettled' = unsettled \cup Touched(client[s].todo)
      /\ cfg' = cfg /\ session' = session /\ held' = held /\ commands' = commands /\ raced' = raced
  BY DEF Kill
<1>3. client'[s] = Idle /\ Only(s) /\ unsettled' \subseteq Profile
  BY <1>1, <1>2, IdleEmpty DEF TypeOK, Only, Touched
<1>4. TypeOK'
  <2>1. kills' \in 0..MaxKills
    BY <1>1, <1>2, ProfilesAssumption DEF TypeOK
  <2> QED  BY <1>1, <1>2, <1>3, <2>1 DEF TypeOK, Only
<1>5. Order' /\ (Unraced => Unraced')
  BY <1>1, <1>2, <1>3, EndKeeps
<1>6. SessionOwnsAccount'
  BY <1>1, <1>2 DEF SessionOwnsAccount
<1> QED  BY <1>2, <1>4, <1>5, <1>6 DEF ProfilesInv, Order

LEMMA LoadKeeps ==
    ASSUME ProfilesInv, NEW s \in Shell, Load(s)
    PROVE  ProfilesInv'
<1>1. TypeOK /\ Order /\ SessionOwnsAccount
  BY DEF ProfilesInv, Order
<1>0. PICK todo, step : todo = client[s].todo /\ step = Head(todo)
  OBVIOUS
<1>2. /\ todo # << >> /\ step.do \in InConfig \ {"baseline"} /\ client[s].base = None
      /\ client' = [client EXCEPT ![s] = IF cfg.valid THEN [client[s] EXCEPT !.base = cfg] ELSE Idle]
      /\ cfg' = cfg /\ session' = session /\ held' = held /\ commands' = commands /\ kills' = kills
      /\ raced' = raced /\ unsettled' = unsettled
  BY <1>0 DEF Load, At, Head1
<1>3. /\ todo \in Seq(StepType) /\ WellFormed(todo) /\ Checked(client[s])
      /\ Resets(todo) \/ cfg.valid
      /\ Resets(todo) => step.do \in ResetSteps
  BY <1>0, <1>1, <1>2, RunningFacts
<1>4. cfg.valid
  BY <1>2, <1>3 DEF InConfig, ResetSteps
<1>5. client \in [Shell -> ClientState] /\ client[s] \in ClientState /\ cfg \in Config
  BY <1>1 DEF TypeOK
<1>6. client'[s].todo = todo /\ client'[s].base = cfg /\ client'[s] \in ClientState
  BY <1>0, <1>2, <1>4, <1>5 DEF ClientState
<1>7. Only(s)
  BY <1>2, <1>5, <1>6 DEF Only
<1>8. TypeOK'
  BY <1>1, <1>2, <1>7 DEF TypeOK, Only
<1>9. Checked(client'[s])
  BY <1>0, <1>2, <1>3, <1>6 DEF Checked
<1>10. Order'
  BY <1>0, <1>1, <1>2, <1>3, <1>4, <1>6, <1>7, <1>9, OrderKept
<1>11. ASSUME ~raced' PROVE Unraced'
  <2>1. SettledKept /\ NamesThere /\ DefaultThere
    BY <1>2, <1>11 DEF ProfilesInv, Unraced
  <2>2. \A p \in Profile : HeldIn(p)' = HeldIn(p) /\ Alike(cfg, cfg', p)
    BY <1>2 DEF HeldIn, Alike
  <2>3. ASSUME NEW p \in Profile \ unsettled', p \in Touched(client[s].todo)
        PROVE  /\ p \in Touched(client'[s].todo)
               /\ Promised(p, client[s].todo)' /\ NothingToClear(p, client[s])'
    <3>1. Promised(p, todo)
      BY <1>0, <1>2, <2>1, <2>3 DEF SettledKept
    <3>2. Promised(p, todo)'
      BY <2>2, <3>1, PromiseStays
    <3>3. Promised(p, client[s].todo)'
      BY <1>6, <3>2 DEF Promised, Has, Matches
    <3>4. NothingToClear(p, client[s])'
      BY <1>2, <1>6 DEF NothingToClear, SignedIn
    <3> QED  BY <1>0, <1>6, <2>3, <3>3, <3>4
  <2>4. SettledKept'
    BY <1>0, <1>1, <1>2, <1>6, <1>7, <2>1, <2>2, <2>3, SettledStep
  <2>5. Names(cfg) \ Names(cfg') = {} /\ Names(cfg') = Names(cfg)
    BY <1>2
  <2>6. client'[s].todo = client[s].todo
    BY <1>0, <1>6
  <2>7. NamesThere'
    BY <1>1, <1>2, <1>7, <2>1, <2>5, <2>6, NamesStep
  <2> QED  BY <1>2, <2>1, <2>4, <2>7 DEF Unraced, DefaultThere
<1>12. SessionOwnsAccount'
  BY <1>1, <1>2 DEF SessionOwnsAccount
<1> QED  BY <1>8, <1>10, <1>11, <1>12 DEF ProfilesInv, Order

\* Steps on no credentials.
Plain == {step \in StepType : step.do \in {"cache", "activate", "act"}}

LEMMA PlainSteps ==
    ASSUME NEW front \in Seq(Plain), NEW last \in StepType, last.do \in {"select", "endpoints"}
    PROVE  LET todo == front \o <<last>>
           IN /\ todo \in Seq(StepType) /\ WellFormed(todo) /\ ~Resets(todo)
              /\ \A i \in DOMAIN todo : todo[i].do \in {"cache", "activate", "act", "select", "endpoints"}
<1> DEFINE todo == front \o <<last>>
           n == Len(front)
<1>1. /\ front \in Seq(StepType) /\ n \in Nat
      /\ \A i \in 1..n : front[i] \in StepType /\ front[i].do \in {"cache", "activate", "act"}
  BY DEF Plain
<1>2. <<last>> \in Seq(StepType) /\ Len(<<last>>) = 1 /\ <<last>>[1] = last
  OBVIOUS
<1>3. /\ todo \in Seq(StepType) /\ Len(todo) = n + 1 /\ DOMAIN todo = 1..(n + 1)
      /\ \A i \in 1..n : todo[i] = front[i]
      /\ todo[n + 1] = last
  BY <1>1, <1>2
<1> HIDE DEF todo, n
<1>4. \A i \in DOMAIN todo : i \in 1..n \/ i = n + 1
  BY <1>1, <1>3
<1>5. \A i \in DOMAIN todo : todo[i].do \in {"cache", "activate", "act", "select", "endpoints"}
  BY <1>1, <1>3, <1>4
<1>6. \A i, j \in DOMAIN todo : i < j => todo[i].do \in {"cache", "activate", "act"}
  <2> SUFFICES ASSUME NEW i \in DOMAIN todo, NEW j \in DOMAIN todo, i < j
               PROVE  i \in 1..n
    BY <1>1, <1>3
  <2> QED  BY <1>1, <1>3
<1>7. WellFormed(todo)
  BY <1>5, <1>6 DEF WellFormed, Ordered, Completed, Placed, Credential, Final, ResetSteps
<1>8. ~Resets(todo)
  BY <1>5 DEF Resets, ResetSteps
<1> QED  BY <1>3, <1>5, <1>7, <1>8 DEF todo

\* A step that replaces itself by such steps.
LEMMA ReplaceKeeps ==
    ASSUME ProfilesInv, NEW s \in Shell, client[s].todo # << >>, Head(client[s].todo).do \in {"sync", "ensure"},
           NEW new \in Seq(StepType), WellFormed(new),
           \A i \in DOMAIN new : new[i].do \in {"cache", "activate", "act", "select", "endpoints"},
           client' = [client EXCEPT ![s].todo = new],
           cfg' = cfg, session' = session, held' = held, commands' = commands, kills' = kills,
           raced' = raced, unsettled' = unsettled
    PROVE  ProfilesInv'
<1>1. TypeOK /\ Order /\ SessionOwnsAccount
  BY DEF ProfilesInv, Order
<1>2. PICK todo : todo = client[s].todo
  OBVIOUS
<1>3. /\ todo \in Seq(StepType) /\ WellFormed(todo) /\ client[s].base = None
      /\ Resets(todo) \/ cfg.valid
      /\ Resets(todo) => Head(todo).do \in ResetSteps
      /\ 1 \in DOMAIN todo /\ Head(todo) = todo[1]
  BY <1>1, <1>2, RunningFacts DEF Checked, InConfig, InSession
<1>4. cfg.valid /\ ~Resets(todo)
  BY <1>2, <1>3 DEF ResetSteps
\* Nothing follows such a step.
<1>5. DOMAIN todo = {1}
  <2>1. Len(todo) \in Nat /\ DOMAIN todo = 1..Len(todo)
    BY <1>3
  <2>2. \A j \in DOMAIN todo : ~(1 < j)
    BY <1>2, <1>3 DEF WellFormed, Placed, Final
  <2> QED  BY <1>3, <2>1, <2>2
<1>6. Touched(todo) = {}
  BY <1>2, <1>3, <1>5 DEF Touched, Touches, Credential
<1>7. client \in [Shell -> ClientState]
  BY <1>1 DEF TypeOK
<1>8. /\ client'[s].todo = new /\ client'[s].base = None /\ client'[s] \in ClientState /\ Only(s)
  BY <1>3, <1>7 DEF ClientState, Only
<1>9. TypeOK'
  BY <1>1, <1>8 DEF TypeOK, Only
<1>10. /\ Touched(new) = {}
       /\ \A p \in Profile : ~Has(new, {"rename", "dropOld"}, p)
  BY DEF Touched, Touches, Credential, Has
<1>11. new # << >> => 1 \in DOMAIN new /\ Head(new) = new[1]
  OBVIOUS
<1>12. Checked(client'[s])
  BY <1>8, <1>11 DEF Checked
<1>13. Order'
  BY <1>1, <1>4, <1>8, <1>10, <1>12, OrderKept
<1>14. ASSUME ~raced' PROVE Unraced'
  <2>1. SettledKept /\ NamesThere /\ DefaultThere
    BY <1>14 DEF ProfilesInv, Unraced
  <2>2. \A p \in Profile : HeldIn(p)' = HeldIn(p) /\ Alike(cfg, cfg', p)
    BY DEF HeldIn, Alike
  <2>3. SettledKept'
    BY <1>1, <1>2, <1>6, <1>8, <1>10, <2>1, <2>2, SettledStep
  <2>4. Names(cfg) \ Names(cfg') = {}
    OBVIOUS
  <2>5. \A i \in DOMAIN client'[s].todo : client'[s].todo[i].do \notin {"rename", "default"}
    BY <1>8
  <2>6. NamesThere'
    BY <1>1, <1>2, <1>6, <1>8, <2>1, <2>4, <2>5, NamesStep
  <2> QED  BY <2>1, <2>3, <2>6 DEF Unraced, DefaultThere
<1>15. SessionOwnsAccount'
  BY <1>1 DEF SessionOwnsAccount
<1> QED  BY <1>9, <1>13, <1>14, <1>15 DEF ProfilesInv, Order

LEMMA DiscoverKeeps ==
    ASSUME ProfilesInv, NEW s \in Shell, Discover(s)
    PROVE  ProfilesInv'
<1>1. TypeOK /\ Order /\ SessionOwnsAccount
  BY DEF ProfilesInv, Order
<1>2. /\ client[s].todo # << >> /\ Head(client[s].todo).do = "sync"
      /\ \/ client' = [client EXCEPT ![s] = Idle]
         \/ client' = [client EXCEPT ![s].todo = <<Step("endpoints", Head(client[s].todo).p, None)>>]
      /\ cfg' = cfg /\ session' = session /\ held' = held /\ commands' = commands /\ kills' = kills
      /\ raced' = raced /\ unsettled' = unsettled
  BY DEF Discover, At, Head1
<1>3. client[s].base = None /\ Head(client[s].todo).p \in Profile /\ client \in [Shell -> ClientState]
  BY <1>1, <1>2, RunningFacts, StepTyped DEF Checked, InConfig, InSession, TypeOK
<1>4. CASE client' = [client EXCEPT ![s] = Idle]
  <2>1. client' = [client EXCEPT ![s].todo = << >>]
    BY <1>3, <1>4 DEF ClientState, Idle
  <2>2. << >> \in Seq(StepType) /\ DOMAIN << >> = {}
    OBVIOUS
  <2>3. WellFormed(<< >>)
    BY <2>2 DEF WellFormed, Ordered, Completed, Placed
  <2> QED  BY <1>2, <2>1, <2>2, <2>3, ReplaceKeeps
<1>5. ASSUME client' = [client EXCEPT ![s].todo = <<Step("endpoints", Head(client[s].todo).p, None)>>]
      PROVE  ProfilesInv'
  <2>1. PICK last : last = Step("endpoints", Head(client[s].todo).p, None)
    OBVIOUS
  <2>2. last \in StepType /\ last.do = "endpoints"
    BY <1>3, <2>1, StepsMade
  <2>3. << >> \in Seq(Plain) /\ << >> \o <<last>> = <<last>>
    OBVIOUS
  <2>4. /\ <<last>> \in Seq(StepType) /\ WellFormed(<<last>>)
        /\ \A i \in DOMAIN <<last>> : <<last>>[i].do \in {"cache", "activate", "act", "select", "endpoints"}
    BY <2>2, <2>3, PlainSteps
  <2>5. client' = [client EXCEPT ![s].todo = <<last>>]
    BY <1>5, <2>1
  <2> QED  BY <1>2, <2>4, <2>5, ReplaceKeeps
<1> QED  BY <1>2, <1>4, <1>5

LEMMA EnsureKeeps ==
    ASSUME ProfilesInv, NEW s \in Shell, Ensure(s)
    PROVE  ProfilesInv'
<1>1. TypeOK /\ Order /\ SessionOwnsAccount
  BY DEF ProfilesInv, Order
<1>0. PICK step, p, x, current : /\ step = Head(client[s].todo) /\ p = step.p /\ x = step.x
                                 /\ current = CurrentAccount(s, p)
  OBVIOUS
<1> DEFINE account == IF x.account # None THEN x.account
                      ELSE IF current # None THEN current ELSE Personal
           cache == Step("cache", p, x.owner)
           last == Step("select", p, [account |-> account, target |-> x.target])
<1>2. /\ client[s].todo # << >> /\ step.do = "ensure"
      /\ client' = [client EXCEPT ![s].todo =
              Ensured(p, x, account) \o (IF x.target = None THEN <<>> ELSE <<cache>>) \o <<last>>]
      /\ cfg' = cfg /\ session' = session /\ held' = held /\ commands' = commands /\ kills' = kills
      /\ raced' = raced /\ unsettled' = unsettled
  BY <1>0 DEF Ensure, At, Head1
<1>3. step \in StepType /\ cfg \in Config /\ session[s] \in SessionState
  BY <1>0, <1>1, <1>2, RunningFacts DEF TypeOK
<1>4. /\ p \in Profile
      /\ x \in [account: Account \cup {None}, option: BOOLEAN, target: Target \cup {None}, owner: Account]
  BY <1>0, <1>2, <1>3, StepTyped
<1>5. current \in Account \cup {None}
  <2>1. session[s].account \in Account \cup {None}
    BY <1>3 DEF SessionState
  <2>2. p \in Names(cfg) => cfg.profiles[p].active \in Account \cup {None} /\ cfg.profiles[p].owner \in Account \cup {None}
    BY <1>3, ConfigTyped, SavedTyped, ProfilesAssumption
  <2> QED  BY <1>0, <2>1, <2>2 DEF CurrentAccount
<1>6. account \in Account
  BY <1>4, <1>5, ProfilesAssumption
<1>7. [account |-> account, target |-> x.target] \in [account: Account, target: Target \cup {None}]
  BY <1>4, <1>6
<1> HIDE DEF account
<1>8. last \in StepType /\ last.do = "select" /\ cache \in Plain
  BY <1>4, <1>7, StepsMade DEF Plain
<1>9. Ensured(p, x, account) \in Seq(Plain)
  <2>1. Step("cache", p, account) \in Plain /\ Step("activate", p, account) \in Plain /\ Step("act", p, account) \in Plain
    BY <1>4, <1>6, StepsMade DEF Plain
  <2> QED  BY <2>1 DEF Ensured
<1> HIDE DEF cache, last
<1>10. (IF x.target = None THEN <<>> ELSE <<cache>>) \in Seq(Plain)
  BY <1>8
<1>11. PICK front : front = Ensured(p, x, account) \o (IF x.target = None THEN <<>> ELSE <<cache>>)
  OBVIOUS
<1>12. front \in Seq(Plain)
  BY <1>9, <1>10, <1>11
<1>13. PICK new : new = front \o <<last>>
  OBVIOUS
<1>14. /\ new \in Seq(StepType) /\ WellFormed(new)
       /\ \A i \in DOMAIN new : new[i].do \in {"cache", "activate", "act", "select", "endpoints"}
  BY <1>8, <1>12, <1>13, PlainSteps
<1>15. client' = [client EXCEPT ![s].todo = new]
  BY <1>2, <1>11, <1>13
<1> QED  BY <1>0, <1>2, <1>14, <1>15, ReplaceKeeps

\* What the saved configuration is.
LEMMA SavedFacts ==
    ASSUME TypeOK, Order, NEW s \in Shell, client[s].todo # << >>, Head(client[s].todo).do \in InConfig,
           client[s].base # None \/ Head(client[s].todo).do = "baseline",
           Applies(client[s].base, Head(client[s].todo)),
           NEW d, d = Changed(s, client[s].base, Head(client[s].todo))
    PROVE  /\ d \in Config /\ d.valid
           /\ Head(client[s].todo).do = "baseline" => d = Baseline
           /\ Head(client[s].todo).do # "baseline" => client[s].base \in Config
<1>0. PICK step, base : step = Head(client[s].todo) /\ base = client[s].base
  OBVIOUS
<1>1. /\ step \in StepType /\ base \in Config \cup {None} /\ Checked(client[s])
      /\ base # None => base.valid
  BY <1>0, RunningFacts
<1>2. CASE step.do = "baseline"
  BY <1>0, <1>2, BaselineTyped DEF Changed
<1>3. CASE step.do # "baseline"
  <2>1. base \in Config /\ base.valid
    BY <1>0, <1>1, <1>3
  <2>2. step.do = "rename" => step.p \in Names(base) /\ step.x \notin Names(base)
    BY <1>0, <1>1 DEF Checked
  <2> QED  BY <1>0, <1>1, <1>3, <2>1, <2>2, ChangedTyped
<1> QED  BY <1>2, <1>3

\* What becomes of the profile that a saved step is about.
LEMMA SavedPromise ==
    ASSUME NEW todo \in Seq(StepType), WellFormed(todo), NEW new, Goes(todo, new), NEW p \in Profile,
           Head(todo).do \in {"metadata", "clear", "remove"}, Head(todo).p = p, Promised(p, todo),
           HeldIn(p)' = HeldIn(p),
           Head(todo).do = "metadata" => SignedIn(cfg', p) /\ cfg'.profiles[p].store = Head(todo).x.store,
           Head(todo).do \in {"clear", "remove"} => ~SignedIn(cfg', p)
    PROVE  IF p \in Touched(new) THEN Promised(p, new)' ELSE Matches(p)'
<1>0. PICK step : step = Head(todo)
  OBVIOUS
<1>1. /\ \A i \in DOMAIN new : new[i].p = p /\ new[i].do \in Credential => <<step.do, new[i].do>> \in Follows
      /\ \A i \in DOMAIN new : new[i].do \notin ResetSteps
  <2>1. \A i \in DOMAIN new :
           /\ new[i].p = Head(todo).p /\ new[i].do \in Credential /\ Head(todo).do \in Credential =>
                 <<Head(todo).do, new[i].do>> \in Follows
           /\ new[i].do \in ResetSteps <=> Head(todo).do \in ResetSteps
    BY HeadRest
  <2>2. step.do \in Credential /\ step.do \notin ResetSteps
    BY <1>0 DEF Credential, ResetSteps
  <2> QED  BY <1>0, <2>1, <2>2
<1>2. 1 \in DOMAIN todo /\ todo[1] = step
  BY <1>0 DEF Goes
<1>3. \A i \in DOMAIN new : new[i].p = p /\ new[i].do \in Credential =>
         step.do = "clear" /\ new[i].do = "remove"
  BY <1>0, <1>1 DEF Follows
<1>4. \A i \in DOMAIN new : Touches(new[i], p) => step.do = "clear"
  BY <1>1, <1>3 DEF Touches, ResetSteps
\* Before it came none that stores or removes credentials.
<1>5. \A dos \in SUBSET Credential : step.do \notin dos /\ "remove" \notin dos => ~Has(todo, dos, p)
  <2> SUFFICES ASSUME NEW dos \in SUBSET Credential, step.do \notin dos, "remove" \notin dos
               PROVE  ~Has(todo, dos, p)
    OBVIOUS
  <2>1. ~Has(new, dos, p)
    BY <1>3 DEF Has
  <2> QED  BY <1>0, <2>1, GoesTouches
<1>6. {"hold"} \in SUBSET Credential /\ {"drop"} \in SUBSET Credential /\ {"hold", "drop"} \in SUBSET Credential
  BY DEF Credential
<1>7. CASE step.do = "metadata"
  <2>1. p \notin Touched(new)
    BY <1>4, <1>7 DEF Touched
  <2>2. HeldIn(p) = {step.x.store}
    BY <1>0, <1>2, <1>5, <1>6, <1>7 DEF Promised
  <2> QED  BY <1>0, <1>7, <2>1, <2>2 DEF Matches
<1>8. CASE step.do \in {"clear", "remove"}
  <2>1. HeldIn(p) = {}
    <3>1. Has(todo, {"clear", "remove"}, p)
      BY <1>0, <1>2, <1>8 DEF Has
    <3>2. ~Has(todo, {"drop"}, p)
      BY <1>5, <1>6, <1>8
    <3> QED  BY <3>1, <3>2 DEF Promised
  <2>2. Matches(p)'
    BY <1>0, <1>8, <2>1 DEF Matches
  <2>3. /\ ~Has(new, {"hold", "drop"}, p)
        /\ \A i \in DOMAIN new : new[i].p = p => new[i].do # "metadata"
        /\ \A i \in DOMAIN new : new[i].do # "baseline"
    BY <1>1, <1>3 DEF Has, Credential, ResetSteps
  <2>4. Promised(p, new)'
    BY <2>1, <2>3 DEF Promised
  <2> QED  BY <2>2, <2>4
<1> QED  BY <1>0, <1>7, <1>8

LEMMA SaveAppliedKeeps ==
    ASSUME ProfilesInv, NEW s \in Shell, Save(s), Applies(client[s].base, Head1(s))
    PROVE  ProfilesInv'
<1>1. TypeOK /\ Order /\ SessionOwnsAccount
  BY DEF ProfilesInv, Order
<1>0. PICK todo, step, base, new : /\ todo = client[s].todo /\ step = Head(todo)
                                   /\ base = client[s].base /\ new = Rest(s)
  OBVIOUS
<1>2. /\ todo # << >> /\ step.do \in InConfig /\ (base # None \/ step.do = "baseline")
      /\ Applies(base, step) /\ cfg' = Changed(s, base, step)
      /\ ~raced' => /\ ~raced
                    /\ IF step.do = "baseline" THEN Names(cfg) = step.x ELSE cfg = base
                    /\ \A t \in Shell \ {s}, p \in Names(cfg) \ Names(cfg') : ~Uses(t, p)
      /\ raced' \in BOOLEAN
      /\ client' = [client EXCEPT ![s] =
             [todo |-> new, base |-> IF new # <<>> /\ Head(new).do \in InSession THEN cfg' ELSE None]]
      /\ session' = session /\ held' = held /\ commands' = commands /\ kills' = kills /\ unsettled' = unsettled
  BY <1>0, <1>1 DEF Save, At, Head1, TypeOK
<1>3. /\ todo \in Seq(StepType) /\ WellFormed(todo) /\ step \in StepType /\ Checked(client[s])
      /\ base # None => base.valid
  BY <1>0, <1>1, <1>2, RunningFacts
<1>4. Goes(todo, new)
  BY <1>0, <1>2 DEF Goes, Rest
<1>5. new \in Seq(StepType) /\ client \in [Shell -> ClientState]
  BY <1>1, <1>3, <1>4, GoesOn DEF TypeOK
<1>6. /\ cfg' \in Config /\ cfg'.valid
      /\ step.do = "baseline" => cfg' = Baseline
      /\ step.do # "baseline" => base \in Config
  BY <1>0, <1>1, <1>2, SavedFacts
<1>7. /\ client'[s].todo = new /\ client'[s] \in ClientState
      /\ client'[s].base # None => /\ client'[s].base = cfg' /\ new # << >> /\ Head(new).do \in InSession
      /\ new # << >> /\ Head(new).do \in InSession => client'[s].base = cfg'
      /\ Only(s)
  <2>1. PICK b : b = IF new # <<>> /\ Head(new).do \in InSession THEN cfg' ELSE None
    OBVIOUS
  <2>2. b \in Config \cup {None}
    BY <1>6, <2>1
  <2>3. client' = [client EXCEPT ![s] = [todo |-> new, base |-> b]]
    BY <1>2, <2>1
  <2>4. client'[s] = [todo |-> new, base |-> b] /\ client'[s] \in ClientState /\ Only(s)
    BY <1>5, <2>2, <2>3 DEF ClientState, Only
  <2> QED  BY <2>1, <2>4
<1>8. TypeOK'
  BY <1>1, <1>2, <1>6, <1>7 DEF TypeOK, Only
<1>9. Running(s) /\ Goes(client[s].todo, client'[s].todo) /\ Head(client[s].todo) = step
  BY <1>0, <1>1, <1>2, <1>4, <1>6, <1>7 DEF Running
<1>10. Order'
  <2>1. cfg' # None
    BY <1>6, NoneAssumption
  <2>2. new # << >> /\ Head(new).do = "leave" => client'[s].base # None
    BY <1>7, <2>1 DEF InSession
  <2> QED  BY <1>6, <1>7, <1>9, <2>2, OrderGoes
<1>11. SessionOwnsAccount'
  BY <1>1, <1>2 DEF SessionOwnsAccount
<1>12. ASSUME ~raced' PROVE Unraced'
  <2>1. /\ SettledKept /\ NamesThere /\ DefaultThere
        /\ IF step.do = "baseline" THEN Names(cfg) = step.x ELSE cfg = base
        /\ \A t \in Shell \ {s}, p \in Names(cfg) \ Names(cfg') : ~Uses(t, p)
    BY <1>2, <1>12 DEF ProfilesInv, Unraced
  <2>2. \A p : HeldIn(p)' = HeldIn(p)
    BY <1>2 DEF HeldIn
  <2>3. step.do # "baseline" =>
          /\ CredentialsOf(cfg, cfg', step)
          /\ step.do \in {"clear", "remove", "rename"} => ~SignedIn(cfg', step.p)
          /\ step.do = "metadata" => SignedIn(cfg', step.p) /\ cfg'.profiles[step.p].store = step.x.store
          /\ cfg.default \in Names(cfg) \cup {Default} /\ (step.do = "default" => step.p \in Names(cfg)) =>
                cfg'.default \in Names(cfg') \cup {Default}
    <3> SUFFICES ASSUME step.do # "baseline"
                 PROVE  /\ CredentialsOf(cfg, cfg', step)
                        /\ step.do \in {"clear", "remove", "rename"} => ~SignedIn(cfg', step.p)
                        /\ step.do = "metadata" => SignedIn(cfg', step.p) /\ cfg'.profiles[step.p].store = step.x.store
                        /\ cfg.default \in Names(cfg) \cup {Default} /\ (step.do = "default" => step.p \in Names(cfg)) =>
                              cfg'.default \in Names(cfg') \cup {Default}
      OBVIOUS
    <3>1. step.do = "rename" => step.p \in Names(base) /\ step.x \notin Names(base)
      BY <1>0, <1>2, <1>3 DEF Checked
    <3>2. base \in Config /\ cfg = base
      BY <1>6, <2>1
    <3>3. /\ CredentialsOf(base, Changed(s, base, step), step)
          /\ step.do \in {"clear", "remove", "rename"} => ~SignedIn(Changed(s, base, step), step.p)
          /\ step.do = "metadata" => /\ SignedIn(Changed(s, base, step), step.p)
                                     /\ Changed(s, base, step).profiles[step.p].store = step.x.store
          /\ base.default \in Names(base) \cup {Default} /\ (step.do = "default" => step.p \in Names(base)) =>
                Changed(s, base, step).default \in Names(Changed(s, base, step)) \cup {Default}
      BY <1>2, <1>3, <3>1, <3>2, ChangedTyped
    <3> QED  BY ONLY <1>2, <3>2, <3>3
  <2>4. step.do = "baseline" => /\ Names(cfg') = {} /\ cfg'.default = Default
                                /\ \A p : ~SignedIn(cfg', p)
    BY <1>6, BaselineTyped DEF SignedIn
  <2>5. 1 \in DOMAIN todo /\ todo[1] = step
    BY <1>0, <1>2, <1>3
  \* A profile that the step is not about, and the name that a rename takes.
  <2>6. ASSUME NEW p \in Profile \ unsettled', ~Touches(step, p)
        PROVE  \/ Alike(cfg, cfg', p)
               \/ /\ p \notin Touched(client[s].todo)
                  /\ \E t \in Shell : Resets(client[t].todo) /\ p \in Touched(client[t].todo)
    <3>1. CASE step.do = "baseline"
      <4>1. ~SignedIn(cfg, p)
        BY <2>1, <2>6, <3>1 DEF Touches, SignedIn
      <4> QED  BY <2>4, <3>1, <4>1 DEF Alike
    <3>2. CASE step.do = "rename" /\ p = step.x
      <4>1. \E t \in Shell : Resets(client[t].todo) /\ p \in Touched(client[t].todo)
        BY <1>0, <1>2, <2>1, <2>5, <2>6, <3>2 DEF NamesThere
      <4>2. PICK t \in Shell : Resets(client[t].todo) /\ p \in Touched(client[t].todo)
        BY <4>1
      <4>3. ~Resets(todo)
        BY <1>0, <1>1, <1>2, <3>2, RunningFacts DEF ResetSteps
      <4>4. t # s
        BY <1>0, <4>2, <4>3
      <4>5. p \notin Touched(client[s].todo)
        BY <1>1, <1>2, <2>6, <4>2, <4>4 DEF Order, OneCommand
      <4> QED  BY <4>1, <4>5
    <3>3. CASE ~(step.do = "baseline") /\ ~(step.do = "rename" /\ p = step.x)
      <4>1. ~(p = step.p /\ step.do \in {"metadata", "clear", "remove", "rename"})
        BY <2>6, <3>3 DEF Touches, Credential
      <4> QED  BY <2>3, <3>3, <4>1 DEF CredentialsOf
    <3> QED  BY <3>1, <3>2, <3>3
  <2>7. ASSUME NEW p \in Profile \ unsettled', Touches(step, p)
        PROVE  IF p \in Touched(new) THEN Promised(p, new)' ELSE Matches(p)'
    <3>1. p \in Touched(todo)
      BY <1>0, <1>3, <1>4, <2>7, GoesTouches
    <3>2. Promised(p, todo)
      BY <1>0, <1>2, <2>1, <2>7, <3>1 DEF SettledKept
    <3>3. CASE step.do = "baseline"
      <4>1. \A i \in DOMAIN new : new[i].do = "restart"
        <5>1. \A i \in DOMAIN new : Head(todo).do = "baseline" => new[i].do = "restart"
          BY <1>3, <1>4, HeadRest
        <5> QED  BY <1>0, <3>3, <5>1
      <4>2. p \notin Touched(new)
        BY <4>1 DEF Touched, Touches, Credential
      <4>3. ~Has(todo, {"dropAll"}, p)
        <5>1. ~Has(new, {"dropAll"}, p) /\ {"dropAll"} \in SUBSET Credential
          BY <4>1 DEF Has, Credential
        <5> QED  BY <1>0, <1>3, <1>4, <3>3, <5>1, GoesTouches
      <4>4. HeldIn(p) = {}
        BY <2>5, <2>7, <3>2, <3>3, <4>3 DEF Promised, Touches
      <4> QED  BY <2>2, <2>4, <3>3, <4>2, <4>4 DEF Matches
    <3>4. CASE step.do # "baseline"
      <4>1. step.p = p /\ step.do \in {"metadata", "clear", "remove", "rename"}
        BY <1>2, <2>7, <3>4 DEF Touches, Credential, InConfig
      <4>2. step.do # "rename"
        <5>1. step.do = "rename" => Has(client[s].todo, {"rename", "dropOld"}, p)
          BY <1>0, <2>5, <4>1 DEF Has
        <5> QED  BY <1>1, <1>2, <2>7, <5>1 DEF Order, RenameUnsettled
      <4>3. /\ Head(todo).do \in {"metadata", "clear", "remove"} /\ Head(todo).p = p
            /\ Head(todo).do = "metadata" => SignedIn(cfg', p) /\ cfg'.profiles[p].store = Head(todo).x.store
            /\ Head(todo).do \in {"clear", "remove"} => ~SignedIn(cfg', p)
        BY <1>0, <2>3, <3>4, <4>1, <4>2
      <4> QED  BY ONLY <1>3, <1>4, <2>2, <2>7, <3>2, <4>3, SavedPromise
    <3> QED  BY <3>3, <3>4
  <2>8. \A p \in Profile \ unsettled' : Touches(Head(client[s].todo), p) =>
              IF p \in Touched(client'[s].todo) THEN Promised(p, client[s].todo)' ELSE Matches(p)'
    BY <1>7, <1>9, <2>7 DEF Promised, Has, Matches
  <2>9. client'[s].base = None \/ (client'[s].todo # << >> => Head(client'[s].todo).do \notin {"clear", "remove"})
    BY <1>7 DEF InSession
  <2>10. SettledKept'
    BY <1>9, <2>1, <2>2, <2>6, <2>8, <2>9, SettledGoes
  <2>11. NamesThere'
    BY <1>9, <2>1, <2>4, NamesGoes
  <2>12. DefaultThere'
    <3>1. CASE step.do = "baseline"
      BY <2>4, <3>1 DEF DefaultThere
    <3>2. CASE step.do # "baseline"
      <4>1. step.do = "default" => step.p \in Names(cfg)
        BY <1>0, <2>1, <2>5 DEF NamesThere
      <4> QED  BY <2>1, <2>3, <3>2, <4>1 DEF DefaultThere
    <3> QED  BY <3>1, <3>2
  <2> QED  BY <2>10, <2>11, <2>12 DEF Unraced
<1> QED  BY <1>8, <1>10, <1>11, <1>12 DEF ProfilesInv, Order

LEMMA SaveNothingKeeps ==
    ASSUME ProfilesInv, NEW s \in Shell, Save(s), ~Applies(client[s].base, Head1(s))
    PROVE  ProfilesInv'
<1>1. TypeOK /\ Order /\ SessionOwnsAccount
  BY DEF ProfilesInv, Order
<1>0. PICK todo, step, base, rest, p : /\ todo = client[s].todo /\ step = Head(todo)
                                       /\ base = client[s].base /\ rest = Rest(s) /\ p = step.p
  OBVIOUS
<1>2. /\ todo # << >> /\ step.do \in {"clear", "remove", "select"} /\ base # None
      /\ step.do # "select" => p \notin Names(base)
      /\ client' = [client EXCEPT ![s] = [todo |-> IF step.do = "clear" THEN rest ELSE <<>>, base |-> None]]
      /\ cfg' = cfg /\ raced' = raced
      /\ session' = session /\ held' = held /\ commands' = commands /\ kills' = kills /\ unsettled' = unsettled
  BY <1>0 DEF Save, At, Head1, Applies
<1>3. /\ todo \in Seq(StepType) /\ WellFormed(todo) /\ step \in StepType
      /\ Resets(todo) => step.do \in ResetSteps
      /\ 1 \in DOMAIN todo /\ step = todo[1]
  BY <1>0, <1>1, <1>2, RunningFacts
<1>4. Goes(todo, rest) /\ p \in Profile /\ ~Resets(todo)
  BY <1>0, <1>2, <1>3, StepTyped DEF Goes, Rest, Credential, ResetSteps
<1>5. rest \in Seq(StepType) /\ client \in [Shell -> ClientState]
  BY <1>1, <1>3, <1>4, GoesOn DEF TypeOK
<1>6. /\ client'[s] = [todo |-> IF step.do = "clear" THEN rest ELSE <<>>, base |-> None]
      /\ client'[s] \in ClientState /\ Only(s)
  BY <1>2, <1>5, IdleEmpty DEF ClientState, Only, Idle
<1>7. TypeOK'
  BY <1>1, <1>2, <1>6 DEF TypeOK, Only
<1>8. SessionOwnsAccount'
  BY <1>1, <1>2 DEF SessionOwnsAccount
\* There is nothing to forget: no credentials are left, and the profile is not signed in.
<1>9. ASSUME Unraced, p \notin unsettled, step.do \in {"clear", "remove"}
      PROVE  Promised(p, todo) /\ ~SignedIn(cfg, p)
  <2>1. p \in Touched(todo)
    BY <1>0, <1>3, <1>4, <1>9 DEF Touched, Touches, Credential
  <2>2. Promised(p, client[s].todo) /\ NothingToClear(p, client[s])
    BY <1>0, <1>4, <1>9, <2>1 DEF Unraced, SettledKept
  <2> QED  BY <1>0, <1>2, <1>9, <2>2 DEF NothingToClear
<1>10. CASE step.do = "clear"
  <2>1. client'[s].todo = rest /\ client'[s].base = None
    BY <1>6, <1>10
  <2>2. Running(s) /\ Goes(client[s].todo, client'[s].todo) /\ Head(client[s].todo) = step
    BY <1>0, <1>1, <1>2, <1>4, <1>6, <1>7, <2>1 DEF Running
  <2>3. Order'
    BY <1>10, <2>1, <2>2, OrderGoes
  <2>4. ASSUME ~raced' PROVE Unraced'
    <3>1. Unraced /\ SettledKept /\ NamesThere /\ DefaultThere
      BY <1>2, <2>4 DEF ProfilesInv, Unraced
    <3>2. \A q \in Profile : HeldIn(q)' = HeldIn(q) /\ Alike(cfg, cfg', q) /\ (Touches(step, q) <=> q = p)
      BY <1>0, <1>2, <1>10 DEF HeldIn, Alike, Touches, Credential
    <3>3. ASSUME p \notin unsettled'
          PROVE  IF p \in Touched(rest) THEN Promised(p, rest)' ELSE Matches(p)'
      <4>1. Promised(p, todo) /\ ~SignedIn(cfg', p) /\ HeldIn(p)' = HeldIn(p)
        BY <1>2, <1>4, <1>9, <1>10, <3>1, <3>2, <3>3 DEF SignedIn
      <4>2. Head(todo).do = "clear" /\ Head(todo).p = p
        BY <1>0, <1>10
      <4> QED  BY <1>3, <1>4, <4>1, <4>2, SavedPromise
    <3>4. \A q \in Profile \ unsettled' : Touches(Head(client[s].todo), q) =>
              IF q \in Touched(client'[s].todo) THEN Promised(q, client[s].todo)' ELSE Matches(q)'
      BY <2>1, <2>2, <3>2, <3>3 DEF Promised, Has, Matches
    <3>5. SettledKept'
      BY <2>1, <2>2, <3>1, <3>2, <3>4, SettledGoes
    <3>6. Names(cfg) \ Names(cfg') = {}
      BY <1>2
    <3>7. NamesThere'
      BY <1>10, <2>2, <3>1, <3>6, NamesGoes
    <3> QED  BY <1>2, <3>1, <3>5, <3>7 DEF Unraced, DefaultThere
  <2> QED  BY <1>7, <1>8, <2>3, <2>4 DEF ProfilesInv, Order
<1>11. CASE step.do \in {"remove", "select"}
  <2>1. client'[s] = Idle
    BY <1>6, <1>11 DEF Idle
  \* Nothing on credentials follows such a step.
  <2>a. \A i \in DOMAIN rest : Head(todo).do \notin Final /\ (Head(todo).do = "remove" => rest[i].do = "leave")
    BY <1>3, <1>4, HeadRest
  <2>2. \A q \in Profile : q \in Touched(todo) => step.do = "remove" /\ q = p
    <3>1. \A i \in DOMAIN rest : step.do = "remove" /\ rest[i].do = "leave"
      BY <1>0, <1>11, <2>a DEF Final
    <3>2. \A q \in Profile : q \notin Touched(rest)
      BY <3>1 DEF Touched, Touches, Credential
    <3>3. \A q \in Profile : Touches(step, q) => step.do = "remove" /\ q = p
      BY <1>0, <1>11 DEF Touches, Credential
    <3> QED  BY <1>0, <1>3, <1>4, <3>2, <3>3, GoesTouches
  <2>3. ASSUME Unraced, NEW q \in Profile \ unsettled', q \in Touched(client[s].todo)
        PROVE  Matches(q)
    <3>1. step.do = "remove" /\ q = p /\ p \notin unsettled
      BY <1>0, <1>2, <2>2, <2>3
    <3>2. Promised(p, todo) /\ ~SignedIn(cfg, p)
      BY <1>9, <2>3, <3>1
    <3>3. ~SignedIn(cfg', p) /\ HeldIn(p)' = HeldIn(p) /\ Head(todo).do = "remove" /\ Head(todo).p = p
      BY <1>0, <1>2, <3>1, <3>2 DEF SignedIn, HeldIn
    <3>4. IF p \in Touched(rest) THEN Promised(p, rest)' ELSE Matches(p)'
      BY <1>3, <1>4, <3>2, <3>3, SavedPromise
    <3>5. p \notin Touched(rest)
      BY <2>a, <3>3 DEF Touched, Touches, Credential
    <3> QED  BY <1>2, <3>1, <3>4, <3>5 DEF Matches, HeldIn, SignedIn
  <2>4. Order' /\ (Unraced => Unraced')
    BY <1>0, <1>1, <1>2, <1>4, <1>6, <2>1, <2>3, EndKeeps
  <2> QED  BY <1>2, <1>7, <1>8, <2>4 DEF ProfilesInv, Order
<1> QED  BY <1>2, <1>10, <1>11

-----------------------------------------------------------------------------
(* The invariant *)

LEMMA InvInit == Init => ProfilesInv
<1> SUFFICES ASSUME Init PROVE ProfilesInv
  OBVIOUS
<1>1. PICK names \in SUBSET Profile, store \in Store, valid \in BOOLEAN :
         /\ Default \in names \/ names = {}
         /\ cfg = [Baseline EXCEPT !.valid = valid, !.profiles = [p \in names |-> SavedAs(store)]]
         /\ held = {store} \X names
  BY DEF Init
<1>2. /\ session = [s \in Shell |-> NoSession] /\ client = [s \in Shell |-> Idle]
      /\ commands = 0 /\ kills = 0 /\ raced = FALSE /\ unsettled = {}
  BY DEF Init
<1>3. SavedAs(store) \in Saved /\ SavedAs(store).store = store /\ SavedAs(store).owner = Personal
  <2> DEFINE url == Env[CHOOSE s \in Shell : TRUE]
             old == Fresh(url)
             sel == [x \in {Personal} |-> CHOOSE t \in Target : TRUE]
  <2>1. url \in Url /\ (CHOOSE t \in Target : TRUE) \in Target
    BY ProfilesAssumption
  <2>2. old \in Saved
    BY <2>1, FreshTyped
  <2>3. sel \in [{Personal} -> Target \cup {None}] /\ {Personal} \in SUBSET Account
    BY <2>1, ProfilesAssumption
  <2>4. SavedAs(store) = [old EXCEPT !.store = store, !.owner = Personal, !.selected = sel]
    BY DEF SavedAs
  <2> HIDE DEF old, sel
  <2>5. SavedAs(store) = [[old EXCEPT !.store = store, !.owner = Personal, !.api = old.api] EXCEPT !.selected = sel]
    BY <2>2, <2>4 DEF Saved
  <2>6. old.api \in Url
    BY <2>2 DEF Saved
  <2>7. [old EXCEPT !.store = store, !.owner = Personal, !.api = old.api] \in Saved
    BY <2>2, <2>6, SavedTyped
  <2>8. SavedAs(store) \in Saved
    <3>1. \A saved \in Saved : [saved EXCEPT !.selected = sel] \in Saved
      BY <2>3, SavedTyped
    <3> QED  BY ONLY <2>5, <2>7, <3>1
  <2>9. SavedAs(store).store = store /\ SavedAs(store).owner = Personal
    BY <2>2, <2>4 DEF Saved
  <2> QED  BY <2>8, <2>9
<1>4. /\ cfg \in Config /\ Names(cfg) = names /\ cfg.default = Default
      /\ \A p \in names : cfg.profiles[p].store = store /\ cfg.profiles[p].owner = Personal
  <2>1. cfg = [valid |-> valid, default |-> Default, store |-> AutoStore,
               profiles |-> [p \in names |-> SavedAs(store)]]
    BY <1>1 DEF Baseline
  <2>2. [p \in names |-> SavedAs(store)] \in [names -> Saved] /\ Default \in Profile /\ AutoStore \in Preferences
    BY <1>3, ProfilesAssumption DEF Preferences
  <2> QED  BY <1>3, <2>1, <2>2 DEF Config, Names
<1>5. TypeOK
  <2>1. NoSession \in SessionState /\ Idle \in ClientState
    BY IdleEmpty DEF NoSession, SessionState
  <2>2. held \subseteq Store \X Profile
    BY <1>1
  <2>3. 0 \in 0..MaxCommands /\ 0 \in 0..MaxKills
    BY ProfilesAssumption
  <2> QED  BY <1>2, <1>4, <2>1, <2>2, <2>3 DEF TypeOK
<1>6. \A s \in Shell : /\ client[s] = Idle /\ client[s].todo = << >> /\ client[s].base = None
                       /\ DOMAIN client[s].todo = {} /\ Touched(client[s].todo) = {}
  <2>1. DOMAIN << >> = {}
    OBVIOUS
  <2> QED  BY <1>2, <2>1, IdleEmpty
<1>7. CommandsRun /\ OneCommand /\ RenameUnsettled /\ SessionOwnsAccount
  <2>1. CommandsRun
    BY <1>6 DEF CommandsRun, Runs, Checked, WellFormed, Ordered, Completed, Placed
  <2>2. OneCommand /\ RenameUnsettled
    BY <1>6 DEF OneCommand, RenameUnsettled, Has
  <2>3. SessionOwnsAccount
    BY <1>2 DEF SessionOwnsAccount, NoSession
  <2> QED  BY <2>1, <2>2, <2>3
<1>8. Unraced
  <2>1. \A p \in Profile : Matches(p)
    <3> SUFFICES ASSUME NEW p \in Profile
                 PROVE  Matches(p)
      OBVIOUS
    <3>1. Personal # None
      BY ProfilesAssumption, NoneAssumption
    <3>2. CASE p \in names
      BY <1>1, <1>4, <3>1, <3>2 DEF Matches, HeldIn, SignedIn
    <3>3. CASE p \notin names
      BY <1>1, <1>4, <3>3 DEF Matches, HeldIn, SignedIn
    <3> QED  BY <3>2, <3>3
  <2>2. SettledKept /\ NamesThere /\ DefaultThere
    BY <1>4, <1>6, <2>1 DEF SettledKept, NamesThere, DefaultThere
  <2> QED  BY <2>2 DEF Unraced
<1> QED  BY <1>5, <1>7, <1>8 DEF ProfilesInv

LEMMA InvNext == ProfilesInv /\ [Next]_vars => ProfilesInv'
<1> SUFFICES ASSUME ProfilesInv, [Next]_vars PROVE ProfilesInv'
  OBVIOUS
<1>1. ASSUME NEW s \in Shell, Begin(s) PROVE ProfilesInv'
  BY <1>1, BeginKeeps
<1>2. ASSUME NEW s \in Shell, Run(s) PROVE ProfilesInv'
  <2>1. Save(s) => ProfilesInv'
    BY SaveAppliedKeeps, SaveNothingKeeps
  <2> QED
    BY <1>2, <2>1, LoadKeeps, DiscoverKeeps, EnsureKeeps, SaveSessionKeeps, HoldKeeps, DropKeeps DEF Run
<1>3. ASSUME NEW s \in Shell, Kill(s) PROVE ProfilesInv'
  BY <1>3, KillKeeps
<1>4. CASE UNCHANGED vars
  <2>1. /\ cfg' = cfg /\ session' = session /\ held' = held /\ client' = client
        /\ commands' = commands /\ kills' = kills /\ raced' = raced /\ unsettled' = unsettled
    BY <1>4 DEF vars
  <2>2. TypeOK' /\ SessionOwnsAccount'
    BY <2>1 DEF ProfilesInv, TypeOK, SessionOwnsAccount
  <2>3. CommandsRun' /\ OneCommand' /\ RenameUnsettled'
    BY <2>1 DEF ProfilesInv, CommandsRun, Runs, OneCommand, RenameUnsettled
  <2>4. Unraced => Unraced'
    BY <2>1 DEF Unraced, SettledKept, Promised, Matches, HeldIn, SignedIn, NothingToClear, NamesThere, DefaultThere
  <2> QED  BY <2>1, <2>2, <2>3, <2>4 DEF ProfilesInv
<1> QED  BY <1>1, <1>2, <1>3, <1>4 DEF Next

\* What holds in every state: the order of the steps that commands have left, and where the
\* credentials of every settled profile are meanwhile.
THEOREM ProfilesCorrect == Spec => []ProfilesInv
<1>1. Init => ProfilesInv
  BY InvInit
<1>2. ProfilesInv /\ [Next]_vars => ProfilesInv'
  BY InvNext
<1> QED  BY <1>1, <1>2, PTL DEF Spec

\* Every variable has its type, whatever the commands do.
THEOREM TypeCorrect == Spec => []TypeOK
<1>1. ProfilesInv => TypeOK
  BY DEF ProfilesInv
<1> QED  BY <1>1, ProfilesCorrect, PTL

\* Unless commands raced, the default profile is saved or is the one called "default":
\* deleting and renaming move it, and use checks it.
THEOREM DefaultStaysKnown == Spec => []DefaultKnown
<1>1. ProfilesInv => DefaultKnown
  BY DEF ProfilesInv, Unraced, DefaultThere, DefaultKnown
<1> QED  BY <1>1, ProfilesCorrect, PTL

\* Unless commands raced, a settled profile that no command is on has its credentials in
\* exactly the store it names, and nowhere when it is signed out or not saved.
THEOREM CredentialsPaired == Spec => []Paired
<1>1. ProfilesInv => Paired
  <2> SUFFICES ASSUME ProfilesInv, ~raced, NEW p \in Profile \ unsettled, ~Busy(p)
               PROVE  {st \in Store : <<st, p>> \in held} =
                         IF p \in Names(cfg) /\ cfg.profiles[p].owner # None
                         THEN {cfg.profiles[p].store} ELSE {}
    BY DEF Paired
  <2>1. SettledKept
    BY DEF ProfilesInv, Unraced
  <2>2. Matches(p)
    BY <2>1 DEF SettledKept, Busy
  <2> QED  BY <2>2 DEF Matches, HeldIn, SignedIn
<1> QED  BY <1>1, ProfilesCorrect, PTL

\* A session that names an account also names the profile it belongs to.
THEOREM SessionsOwnAccounts == Spec => []SessionOwnsAccount
<1>1. ProfilesInv => SessionOwnsAccount
  BY DEF ProfilesInv
<1> QED  BY <1>1, ProfilesCorrect, PTL

-----------------------------------------------------------------------------
(* What a step may change *)

\* A shell's step goes on with its own command, and a configuration is only changed by
\* saving a changed one.
LEMMA WhoSteps ==
    ASSUME ProfilesInv, NEW s \in Shell, Begin(s) \/ Run(s) \/ Kill(s)
    PROVE  /\ \A t \in Shell \ {s} : client'[t] = client[t] /\ session'[t] = session[t]
           /\ cfg' = cfg \/ (Save(s) /\ Applies(client[s].base, Head1(s)))
           /\ Begin(s) => client[s].todo = << >>
<1>1. client \in [Shell -> ClientState] /\ session \in [Shell -> SessionState]
  BY DEF ProfilesInv, TypeOK
<1>2. ASSUME Begin(s)
      PROVE  /\ \A t \in Shell \ {s} : client'[t] = client[t]
             /\ session' = session /\ cfg' = cfg /\ client[s] = Idle
  <2>1. \A todo : Start(s, todo) =>
           /\ \A t \in Shell \ {s} : client'[t] = client[t]
           /\ session' = session /\ cfg' = cfg /\ client[s] = Idle
    BY <1>1 DEF Start
  <2>2. Rename(s) =>
           /\ \A t \in Shell \ {s} : client'[t] = client[t]
           /\ session' = session /\ cfg' = cfg /\ client[s] = Idle
    BY <1>1 DEF Rename
  <2>3. Login(s) \/ StorageSet(s) \/ Logout(s) \/ DeleteProfile(s) \/ DeleteAll(s)
        \/ UseProfile(s) \/ SwitchAccount(s) \/ SelectTarget(s) => \E todo : Start(s, todo)
    BY DEF Login, StorageSet, Logout, DeleteProfile, DeleteAll, UseProfile, SwitchAccount, SelectTarget
  <2> QED  BY <1>2, <2>1, <2>2, <2>3 DEF Begin
<1>3. ASSUME Run(s) \/ Kill(s)
      PROVE  \E c : client' = [client EXCEPT ![s] = c]
  <2>1. Load(s) \/ Discover(s) \/ Kill(s) => \E c : client' = [client EXCEPT ![s] = c]
    BY DEF Load, Discover, Kill
  <2>2. Save(s) => \E c : client' = [client EXCEPT ![s] = c]
    BY DEF Save
  <2>3. Ensure(s) \/ SaveSession(s) => \E c : client' = [client EXCEPT ![s] = c]
    BY DEF Ensure, SaveSession
  <2>4. Hold(s) \/ Drop(s) => \E c : client' = [client EXCEPT ![s] = c]
    BY DEF Hold, Drop
  <2> QED  BY <1>3, <2>1, <2>2, <2>3, <2>4 DEF Run
<1>4. ASSUME Run(s) \/ Kill(s)
      PROVE  session' = session \/ \E c : session' = [session EXCEPT ![s] = c]
  BY <1>4 DEF Run, Load, Save, Discover, Ensure, SaveSession, Hold, Drop, Kill
<1>5. ASSUME Run(s) \/ Kill(s)
      PROVE  cfg' = cfg \/ (Save(s) /\ Applies(client[s].base, Head1(s)))
  <2>1. Load(s) \/ Discover(s) \/ Ensure(s) \/ SaveSession(s) \/ Hold(s) \/ Drop(s) \/ Kill(s) => cfg' = cfg
    BY DEF Load, Discover, Ensure, SaveSession, Hold, Drop, Kill
  <2>2. Save(s) => cfg' = cfg \/ Applies(client[s].base, Head1(s))
    BY DEF Save
  <2> QED  BY <1>5, <2>1, <2>2 DEF Run
<1>6. CASE Begin(s)
  BY <1>2, <1>6, IdleEmpty
<1>7. CASE Run(s) \/ Kill(s)
  <2>1. \A t \in Shell \ {s} : client'[t] = client[t]
    BY <1>1, <1>3, <1>7
  <2>2. \A t \in Shell \ {s} : session'[t] = session[t]
    BY <1>1, <1>4, <1>7
  <2>3. Begin(s) => client[s].todo = << >>
    BY <1>2, IdleEmpty
  <2> QED  BY <1>5, <1>7, <2>1, <2>2, <2>3
<1> QED  BY <1>6, <1>7

\* What a save makes of the configuration, and of the command.
LEMMA WhatSaves ==
    ASSUME ProfilesInv, NEW s \in Shell, Save(s), Applies(client[s].base, Head1(s)), ~raced'
    PROVE  \E step \in StepType :
             /\ step = Head1(s) /\ At(s, InConfig) /\ step.do \in InConfig /\ client'[s] # client[s]
             /\ ~raced /\ unsettled' = unsettled /\ session' = session
             /\ step.do = "baseline" => cfg' = Baseline /\ Names(cfg) = step.x
             /\ step.do # "baseline" => cfg' = Changed(s, cfg, step) /\ Applies(cfg, step)
             /\ step.do = "rename" => step.p \in Names(cfg) /\ step.x \notin Names(cfg)
<1>1. TypeOK /\ Order
  BY DEF ProfilesInv, Order
<1>0. PICK todo, step, base, new : /\ todo = client[s].todo /\ step = Head(todo)
                                   /\ base = client[s].base /\ new = Rest(s)
  OBVIOUS
<1>2. /\ todo # << >> /\ step.do \in InConfig /\ (base # None \/ step.do = "baseline")
      /\ Applies(base, step) /\ cfg' = Changed(s, base, step)
      /\ ~raced /\ (IF step.do = "baseline" THEN Names(cfg) = step.x ELSE cfg = base)
      /\ client' = [client EXCEPT ![s] =
             [todo |-> new, base |-> IF new # <<>> /\ Head(new).do \in InSession THEN cfg' ELSE None]]
      /\ session' = session /\ unsettled' = unsettled
  BY <1>0, <1>1 DEF Save, At, Head1, TypeOK
<1>3. todo \in Seq(StepType) /\ step \in StepType /\ Checked(client[s])
  BY <1>0, <1>1, <1>2, RunningFacts
<1>4. Goes(todo, new)
  BY <1>0, <1>2 DEF Goes, Rest
<1>5. new # todo
  BY <1>3, <1>4, GoesOn
<1>6. client'[s].todo = new
  BY <1>1, <1>2 DEF TypeOK
<1>7. client'[s] # client[s]
  BY <1>0, <1>5, <1>6
<1>8. step.do = "baseline" => cfg' = Baseline
  BY <1>2 DEF Changed
<1>9. step.do = "rename" => step.p \in Names(base) /\ step.x \notin Names(base)
  BY <1>0, <1>2, <1>3 DEF Checked
<1> QED  BY <1>0, <1>2, <1>3, <1>7, <1>8, <1>9 DEF At, Head1

\* Signing in again keeps the API URL of a profile that is signed in, but for a login that was
\* given another.
THEOREM ApiUrlKept == Spec => ApiUrlStays
<1>1. ProfilesInv /\ [Next]_vars =>
         [\A p \in Names(cfg) \cap Names(cfg') :
             cfg.profiles[p].owner # None /\ p \notin unsettled' /\ ~raced' =>
                 \/ cfg'.profiles[p].api = cfg.profiles[p].api
                 \/ \E s \in Shell : /\ client'[s] # client[s] /\ At(s, {"metadata"})
                                     /\ Head1(s).p = p /\ Head1(s).x.given]_vars
  <2> SUFFICES ASSUME ProfilesInv, [Next]_vars, NEW p \in Names(cfg) \cap Names(cfg'),
                      cfg.profiles[p].owner # None, p \notin unsettled', ~raced', cfg' # cfg
               PROVE  \/ cfg'.profiles[p].api = cfg.profiles[p].api
                      \/ \E s \in Shell : /\ client'[s] # client[s] /\ At(s, {"metadata"})
                                          /\ Head1(s).p = p /\ Head1(s).x.given
    OBVIOUS
  <2>1. PICK s \in Shell : Begin(s) \/ Run(s) \/ Kill(s)
    BY DEF Next, vars
  <2>2. Save(s) /\ Applies(client[s].base, Head1(s))
    BY <2>1, WhoSteps
  <2>3. PICK step \in StepType :
             /\ step = Head1(s) /\ At(s, InConfig) /\ step.do \in InConfig /\ client'[s] # client[s]
             /\ ~raced /\ unsettled' = unsettled /\ session' = session
             /\ step.do = "baseline" => cfg' = Baseline /\ Names(cfg) = step.x
             /\ step.do # "baseline" => cfg' = Changed(s, cfg, step) /\ Applies(cfg, step)
             /\ step.do = "rename" => step.p \in Names(cfg) /\ step.x \notin Names(cfg)
    BY <2>2, WhatSaves
  <2>4. TypeOK /\ Order /\ SettledKept /\ cfg \in Config /\ p \in Profile /\ SignedIn(cfg, p)
    BY <2>3, ConfigTyped DEF ProfilesInv, Order, Unraced, TypeOK, SignedIn
  <2>5. step.do # "baseline"
    BY <2>3, BaselineTyped
  <2>6. /\ CredentialsOf(cfg, cfg', step)
        /\ step.do = "remove" => step.p \notin Names(cfg')
        /\ step.do = "clear" => cfg'.profiles[step.p].api = cfg.profiles[step.p].api
        /\ step.do = "metadata" => cfg'.profiles[step.p].api = step.x.api
    BY <2>3, <2>4, <2>5, ChangedTyped
  <2>7. PICK todo : todo = client[s].todo
    OBVIOUS
  <2>8. 1 \in DOMAIN todo /\ todo[1] = step /\ todo \in Seq(StepType)
    BY <2>3, <2>4, <2>7, RunningFacts DEF At, Head1
  <2>9. CASE step.p = p /\ step.do \in {"metadata", "rename"}
    <3>1. p \in Touched(todo)
      BY <2>4, <2>8, <2>9 DEF Touched, Touches, Credential
    <3>2. Promised(p, todo)
      BY <2>3, <2>4, <2>7, <3>1 DEF SettledKept
    <3>3. step.do # "rename"
      <4>1. step.do = "rename" => Has(client[s].todo, {"rename", "dropOld"}, p)
        BY <2>7, <2>8, <2>9 DEF Has
      <4> QED  BY <2>3, <2>4, <4>1 DEF Order, RenameUnsettled
    <3>4. CASE step.x.given
      BY <2>3, <2>9, <3>3, <3>4 DEF At
    <3>5. CASE ~step.x.given
      <4>1. step.x.api = cfg.profiles[p].api
        BY <2>4, <2>8, <2>9, <3>2, <3>3, <3>5 DEF Promised
      <4> QED  BY <2>6, <2>9, <3>3, <4>1
    <3> QED  BY <3>4, <3>5
  <2>10. CASE step.p = p /\ step.do \in {"clear", "remove"}
    BY <2>6, <2>10
  <2>11. CASE ~(step.p = p /\ step.do \in {"metadata", "rename", "clear", "remove"})
    <3>1. ~(step.do = "rename" /\ p = step.x)
      BY <2>3
    <3>2. Alike(cfg, cfg', p)
      BY <2>4, <2>5, <2>6, <2>11, <3>1 DEF CredentialsOf
    <3> QED  BY <2>4, <3>2 DEF Alike
  <2> QED  BY <2>9, <2>10, <2>11
<1> QED  BY <1>1, ProfilesCorrect, PTL DEF Spec, ApiUrlStays

-----------------------------------------------------------------------------
(* Selected targets *)

Chosen(selected, x) == IF x \in DOMAIN selected THEN selected[x] ELSE None

\* Caching an account chooses nothing, and a profile that is not saved has chosen nothing.
LEMMA ChosenKept ==
    ASSUME NEW c \in Config, NEW s \in Shell, NEW p \in Profile, NEW x
    PROVE  /\ Chosen(ProfileOf(s, c, p).selected, x) = SelectionOf(c, p, x)
           /\ \A y \in Account :
                 Chosen(Cache(ProfileOf(s, c, p), y).selected, x) = SelectionOf(c, p, x)
<1>1. ProfileOf(s, c, p) \in Saved
  BY ProfileTyped
<1>2. Chosen(ProfileOf(s, c, p).selected, x) = SelectionOf(c, p, x)
  <2>1. CASE p \in Names(c)
    BY <2>1, ProfileTyped DEF Chosen, SelectionOf
  <2>2. CASE p \notin Names(c)
    BY <2>2, ProfileTyped DEF Chosen, SelectionOf
  <2> QED  BY <2>1, <2>2
<1>3. ASSUME NEW saved \in Saved, NEW y \in Account
      PROVE  Chosen(Cache(saved, y).selected, x) = Chosen(saved.selected, x)
  BY CacheTyped DEF Chosen
<1> QED  BY <1>1, <1>2, <1>3

LEMMA PutSelection ==
    ASSUME NEW c \in Config, NEW p \in Profile, NEW saved \in Saved, NEW q \in Profile, NEW x,
           q = p => Chosen(saved.selected, x) = SelectionOf(c, q, x)
    PROVE  SelectionOf(Put(c, p, saved), q, x) = SelectionOf(c, q, x)
<1>1. CASE q = p
  BY <1>1, PutTyped DEF SelectionOf, Chosen
<1>2. CASE q # p
  BY <1>2, PutTyped DEF SelectionOf
<1> QED  BY <1>1, <1>2

\* Only selecting that very target, or removing or renaming a profile, changes a selection.
LEMMA SelectionKept ==
    ASSUME NEW c \in Config, NEW s \in Shell, NEW step \in StepType,
           step.do \in InConfig \ {"remove", "rename", "baseline"}, Applies(c, step),
           NEW q \in Profile, NEW x \in Account,
           ~(step.do = "select" /\ step.p = q /\ step.x.account = x)
    PROVE  SelectionOf(Changed(s, c, step), q, x) = SelectionOf(c, q, x)
<1> DEFINE p == step.p
           d == Changed(s, c, step)
<1>1. CASE step.do \in {"prefer", "default"}
  <2>1. d.profiles = c.profiles
    BY <1>1 DEF Changed, Config
  <2> QED  BY <2>1 DEF SelectionOf, Names
<1>2. CASE step.do = "metadata"
  <2>1. p \in Profile /\ step.x \in Recorded /\ d = WithLogin(s, c, p, step.x)
    BY <1>2, StepTyped DEF Changed, Credential
  <2>2. PICK e : e = WithLogin(s, c, p, step.x)
    OBVIOUS
  <2>3. /\ Names(e) = Names(c) \cup {p}
        /\ e.profiles[p].selected = ProfileOf(s, c, p).selected
        /\ \A r \in Names(c) : r # p => e.profiles[r] = c.profiles[r]
    BY <2>1, <2>2, LoginTyped
  <2>4. Chosen(ProfileOf(s, c, p).selected, x) = SelectionOf(c, p, x)
    BY <2>1, ChosenKept
  <2>5. SelectionOf(e, q, x) = SelectionOf(c, q, x)
    <3>1. CASE q = p
      BY <2>3, <2>4, <3>1 DEF SelectionOf, Chosen
    <3>2. CASE q # p
      BY <2>3, <3>2 DEF SelectionOf
    <3> QED  BY <3>1, <3>2
  <2> QED  BY <2>1, <2>2, <2>5
<1>3. CASE step.do = "endpoints"
  <2>1. p \in Profile /\ d = Put(c, p, ProfileOf(s, c, p)) /\ ProfileOf(s, c, p) \in Saved
    BY <1>3, StepTyped, ProfileTyped DEF Changed
  <2> QED  BY <2>1, ChosenKept, PutSelection
<1>4. CASE step.do = "clear"
  <2>1. p \in Names(c) /\ p \in Profile /\ d = [c EXCEPT !.profiles[p].owner = None]
    BY <1>4, ConfigTyped DEF Changed, Applies
  <2>2. PICK saved \in Saved : /\ [c EXCEPT !.profiles[p].owner = None] = Put(c, p, saved)
                               /\ saved.selected = c.profiles[p].selected
    BY <2>1, ClearTyped
  <2>3. Chosen(saved.selected, x) = SelectionOf(c, p, x)
    BY <2>1, <2>2 DEF Chosen, SelectionOf
  <2> QED  BY <2>1, <2>2, <2>3, PutSelection
<1>5. CASE step.do = "cache"
  <2>1. /\ p \in Profile /\ step.x \in Account /\ d = Put(c, p, Cache(ProfileOf(s, c, p), step.x))
        /\ Cache(ProfileOf(s, c, p), step.x) \in Saved
    BY <1>5, StepTyped, ProfileTyped, CacheTyped DEF Changed
  <2> QED  BY <2>1, ChosenKept, PutSelection
<1>6. CASE step.do = "activate"
  <2>1. p \in Profile /\ step.x \in Account /\ d = Activate(s, c, p, step.x)
    BY <1>6, StepTyped DEF Changed
  <2>2. PICK saved \in Saved : /\ Activate(s, c, p, step.x) = Put(c, p, saved)
                               /\ saved.selected = Cache(ProfileOf(s, c, p), step.x).selected
    BY <2>1, ActivateTyped
  <2>3. Chosen(saved.selected, x) = SelectionOf(c, p, x)
    BY <2>1, <2>2, ChosenKept
  <2> QED  BY <2>1, <2>2, <2>3, PutSelection
<1>7. CASE step.do = "select"
  <2>0. PICK y, target : y = step.x.account /\ target = step.x.target
    OBVIOUS
  <2>1. /\ p \in Names(c) /\ p \in Profile /\ y \in DOMAIN c.profiles[p].selected
        /\ target \in Target \cup {None}
        /\ d = [c EXCEPT !.profiles[p].selected[y] = target]
    BY <1>7, <2>0, ConfigTyped, StepTyped DEF Changed, Applies
  <2> HIDE DEF d, p
  <2>2. PICK saved \in Saved :
             /\ [c EXCEPT !.profiles[p].selected[y] = target] = Put(c, p, saved)
             /\ DOMAIN saved.selected = DOMAIN c.profiles[p].selected
             /\ \A z \in DOMAIN saved.selected : z # y => saved.selected[z] = c.profiles[p].selected[z]
    BY <2>1, SelectTyped
  <2>3. q = p => x # y
    BY <1>7, <2>0 DEF p
  <2>4. q = p => Chosen(saved.selected, x) = SelectionOf(c, q, x)
    BY <2>1, <2>2, <2>3 DEF Chosen, SelectionOf
  <2>5. SelectionOf(d, q, x) = SelectionOf(c, q, x)
    BY <2>1, <2>2, <2>4, PutSelection
  <2> QED  BY <2>5 DEF d
<1> QED  BY <1>1, <1>2, <1>3, <1>4, <1>5, <1>6, <1>7 DEF InConfig

\* The target selected for an account changes only by selecting or clearing that very
\* target, or by removing or renaming profiles.
THEOREM SelectionsSurvive == Spec => SelectionSurvives
<1>1. ProfilesInv /\ [Next]_vars =>
         [\A p \in Profile, x \in Account :
             SelectionOf(cfg', p, x) # SelectionOf(cfg, p, x) =>
                 raced' \/ \E s \in Shell : client'[s] # client[s] /\ Selects(s, p, x)]_vars
  <2> SUFFICES ASSUME ProfilesInv, [Next]_vars, NEW p \in Profile, NEW x \in Account,
                      SelectionOf(cfg', p, x) # SelectionOf(cfg, p, x), ~raced'
               PROVE  \E s \in Shell : client'[s] # client[s] /\ Selects(s, p, x)
    OBVIOUS
  <2>1. cfg' # cfg
    OBVIOUS
  <2>2. PICK s \in Shell : Begin(s) \/ Run(s) \/ Kill(s)
    BY <2>1 DEF Next, vars
  <2>3. Save(s) /\ Applies(client[s].base, Head1(s))
    BY <2>1, <2>2, WhoSteps
  <2>4. PICK step \in StepType :
             /\ step = Head1(s) /\ At(s, InConfig) /\ step.do \in InConfig /\ client'[s] # client[s]
             /\ step.do # "baseline" => cfg' = Changed(s, cfg, step) /\ Applies(cfg, step)
    BY <2>3, WhatSaves
  <2>5. cfg \in Config
    BY DEF ProfilesInv, TypeOK
  <2>6. CASE step.do \in {"remove", "rename", "baseline"}
    BY <2>4, <2>6 DEF Selects
  <2>7. CASE step.do \notin {"remove", "rename", "baseline"}
    <3>1. step.do = "select" /\ step.p = p /\ step.x.account = x
      BY <2>4, <2>5, <2>7, SelectionKept
    <3> QED  BY <2>4, <3>1 DEF Selects
  <2> QED  BY <2>6, <2>7
<1> QED  BY <1>1, ProfilesCorrect, PTL DEF Spec, SelectionSurvives

-----------------------------------------------------------------------------
(* The account that applies *)

AccountOf(c, q) ==
    IF q \notin Names(c) THEN None
    ELSE IF c.profiles[q].active # None THEN c.profiles[q].active ELSE c.profiles[q].owner

LEMMA PutAccount ==
    ASSUME NEW c \in Config, NEW p \in Profile, NEW saved \in Saved, NEW q \in Profile,
           q = p => /\ q \in Names(c) => saved.active = c.profiles[q].active /\ saved.owner = c.profiles[q].owner
                    /\ q \notin Names(c) => saved.active = None /\ saved.owner = None
    PROVE  Put(c, p, saved).default = c.default /\ AccountOf(Put(c, p, saved), q) = AccountOf(c, q)
<1>1. CASE q = p
  BY <1>1, PutTyped DEF AccountOf
<1>2. CASE q # p
  BY <1>2, PutTyped DEF AccountOf
<1> QED  BY <1>1, <1>2

\* An integrated shell leaves the default profile and the account of every profile.
LEMMA AccountKept ==
    ASSUME NEW c \in Config, NEW s \in Integrated, NEW step \in StepType,
           step.do \in {"cache", "activate", "select"}, Applies(c, step), NEW q \in Profile
    PROVE  Changed(s, c, step).default = c.default /\ AccountOf(Changed(s, c, step), q) = AccountOf(c, q)
<1> DEFINE d == Changed(s, c, step)
<1>1. s \in Shell
  BY ProfilesAssumption
<1>2. PICK p, x : p = step.p /\ x = step.x
  OBVIOUS
<1>3. p \in Profile /\ (step.do \in {"cache", "activate"} => x \in Account)
  BY <1>2, StepTyped
<1>4. PICK e : e = ProfileOf(s, c, p)
  OBVIOUS
<1>5. /\ e \in Saved
      /\ p \in Names(c) => e = c.profiles[p]
      /\ p \notin Names(c) => e.owner = None /\ e.active = None
  BY <1>1, <1>4, ProfileTyped
<1>6. CASE step.do = "cache"
  <2>1. d = Put(c, p, Cache(e, x))
    BY <1>2, <1>4, <1>6 DEF Changed
  <2>2. Cache(e, x) \in Saved /\ Cache(e, x).owner = e.owner /\ Cache(e, x).active = e.active
    BY <1>3, <1>5, <1>6, CacheTyped
  <2> HIDE DEF d
  <2>3. d.default = c.default /\ AccountOf(d, q) = AccountOf(c, q)
    BY <1>3, <1>5, <2>1, <2>2, PutAccount
  <2> QED  BY <2>3 DEF d
<1>7. CASE step.do = "activate"
  <2>1. d = Activate(s, c, p, x)
    BY <1>2, <1>7 DEF Changed
  <2>2. PICK saved \in Saved : /\ Activate(s, c, p, x) = Put(c, p, saved)
                               /\ saved.owner = e.owner /\ saved.active = e.active
    BY <1>1, <1>3, <1>4, <1>7, ActivateTyped
  <2> HIDE DEF d
  <2>3. d.default = c.default /\ AccountOf(d, q) = AccountOf(c, q)
    BY <1>3, <1>5, <2>1, <2>2, PutAccount
  <2> QED  BY <2>3 DEF d
<1>8. CASE step.do = "select"
  <2>0. PICK y, target : y = x.account /\ target = x.target
    OBVIOUS
  <2>1. /\ p \in Names(c) /\ y \in DOMAIN c.profiles[p].selected /\ target \in Target \cup {None}
        /\ d = [c EXCEPT !.profiles[p].selected[y] = target]
    BY <1>2, <1>8, <2>0, StepTyped DEF Changed, Applies
  <2>2. PICK saved \in Saved :
             /\ [c EXCEPT !.profiles[p].selected[y] = target] = Put(c, p, saved)
             /\ saved.owner = c.profiles[p].owner /\ saved.active = c.profiles[p].active
    BY <2>1, SelectTyped
  <2> HIDE DEF d
  <2>3. d.default = c.default /\ AccountOf(d, q) = AccountOf(c, q)
    BY <1>3, <2>1, <2>2, PutAccount
  <2> QED  BY <2>3 DEF d
<1> QED  BY <1>6, <1>7, <1>8

\* What an integrated shell switches, uses or selects leaves the profile and the account
\* that apply in every other shell.
THEOREM ShellsStayApart == Spec => ShellsApart
<1>1. ProfilesInv /\ [Next]_vars =>
         [\A s \in Integrated : \A t \in Shell \ {s} :
             (/\ client'[s] # client[s]
              /\ At(s, {"enter", "act", "cache", "activate", "select", "ensure"})) =>
                 raced' \/ Applying(t)' = Applying(t)]_vars
  <2> SUFFICES ASSUME ProfilesInv, [Next]_vars, NEW s \in Integrated, NEW t \in Shell \ {s},
                      client'[s] # client[s], ~raced',
                      At(s, {"enter", "act", "cache", "activate", "select", "ensure"})
               PROVE  Applying(t)' = Applying(t)
    OBVIOUS
  <2>1. s \in Shell
    BY ProfilesAssumption
  <2>2. PICK u \in Shell : Begin(u) \/ Run(u) \/ Kill(u)
    BY DEF Next, vars
  <2>3. u = s
    BY <2>1, <2>2, WhoSteps
  <2>4. session'[t] = session[t]
    BY <2>2, <2>3, WhoSteps
  <2>5. cfg' = cfg \/ (Save(s) /\ Applies(client[s].base, Head1(s)))
    BY <2>2, <2>3, WhoSteps
  <2>6. cfg \in Config /\ session[t] \in SessionState
    BY DEF ProfilesInv, TypeOK
  <2>7. cfg'.default = cfg.default /\ \A q \in Profile : AccountOf(cfg', q) = AccountOf(cfg, q)
    <3>1. CASE cfg' = cfg
      BY <3>1
    <3>2. CASE Save(s) /\ Applies(client[s].base, Head1(s))
      <4>1. PICK step \in StepType :
                 /\ step = Head1(s) /\ step.do \in InConfig
                 /\ step.do # "baseline" => cfg' = Changed(s, cfg, step) /\ Applies(cfg, step)
        BY <2>1, <3>2, WhatSaves
      <4>2. step.do \in {"cache", "activate", "select"}
        BY <4>1 DEF At, InConfig
      <4>3. cfg' = Changed(s, cfg, step) /\ Applies(cfg, step)
        BY <4>1, <4>2
      <4>4. \A q \in Profile : /\ Changed(s, cfg, step).default = cfg.default
                               /\ AccountOf(Changed(s, cfg, step), q) = AccountOf(cfg, q)
        BY <2>6, <4>2, <4>3, AccountKept
      <4>5. Profile # {}
        BY ProfilesAssumption
      <4> QED  BY <4>3, <4>4, <4>5
    <3> QED  BY <2>5, <3>1, <3>2
  <2>8. CurrentProfile(t)' = CurrentProfile(t) /\ CurrentProfile(t) \in Profile
    BY <2>4, <2>6, <2>7, ConfigTyped DEF CurrentProfile, SessionState
  <2>9. \A q \in Profile : /\ CurrentAccount(t, q) = IF session[t].account # None /\ session[t].profile \in {None, q}
                                                       THEN session[t].account ELSE AccountOf(cfg, q)
                           /\ CurrentAccount(t, q)' = IF session'[t].account # None /\ session'[t].profile \in {None, q}
                                                        THEN session'[t].account ELSE AccountOf(cfg', q)
    BY DEF CurrentAccount, AccountOf
  <2>10. \A q \in Profile : CurrentAccount(t, q)' = CurrentAccount(t, q)
    BY <2>4, <2>7, <2>9
  <2> QED  BY <2>8, <2>10 DEF Applying
<1> QED  BY <1>1, ProfilesCorrect, PTL DEF Spec, ShellsApart
=============================================================================
