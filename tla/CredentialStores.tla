-------------------------- MODULE CredentialStores --------------------------
(***************************************************************************)
(* The credential stores behind a login (rvs/auth/credentials.py, stores.py*)
(* and plaintext_store.py).  A login first tries the stores it may use     *)
(* with a disposable probe - written, read back, deleted - and keeps its   *)
(* credential in the first that passes; a logout deletes in every store it *)
(* would look in.  The keyring, pass and the vault keep each entry by      *)
(* itself; the plaintext file is read, changed and replaced as a whole,    *)
(* without a lock.  A store may fail at any call, and a failing call may   *)
(* have done its work; commands are killed anywhere.                       *)
(*                                                                         *)
(* An entry here is the pair of tokens of a profile, its value the login   *)
(* it came from.                                                           *)
(***************************************************************************)
EXTENDS Naturals, Sequences, SequencesExt

CONSTANTS
    Worker,         \* rvs processes
    Owner,          \* the profiles that log in and out
    Tried,          \* the stores that "auto" tries, in their order
    Plain,          \* the plaintext file
    Preferred,      \* what a command may name: stores, or "auto"
    MaxLogins,      \* bound: logins and logouts in all
    Absent          \* no entry, no file that was read

ASSUME StoresAssumption == /\ IsInjective(Tried) /\ Plain \notin Range(Tried)
                           /\ Preferred \subseteq Range(Tried) \cup {Plain, "auto"}
                           /\ Owner \cap Worker = {} /\ MaxLogins \in Nat

VARIABLES
    usable,     \* the stores that are set up
    stored,     \* per store: its entries, by account
    worker,     \* per process: the step of its command
    logins,
    known,      \* history: per store and profile, what its entry must be
    overlapped, \* history: a process replaced the file by what it had read before a change
    litter      \* history: probes that a kill or a failed delete may have left

storesVars == <<usable, stored, worker, logins, known, overlapped, litter>>

Backend == Range(Tried) \cup {Plain}
Probe(w) == w   \* the account of the probe of a process
AccountName == Owner \cup {Probe(w) : w \in Worker}
Unsure == 0
Contents == UNION {[A -> 1..MaxLogins] : A \in SUBSET AccountName}
NoWork == [at |-> "idle", profile |-> Absent, left |-> {}, value |-> 1, failed |-> FALSE,
           base |-> Absent]

StoresInit ==
    /\ usable = {}
    /\ stored = [s \in Backend |-> <<>>]
    /\ worker = [w \in Worker |-> NoWork]
    /\ logins = 0
    /\ known = [e \in Backend \X Owner |-> Absent]
    /\ overlapped = FALSE /\ litter = {}

\* _store_candidates: the file is never tried unless it is asked for.
StoreCandidates(preference) == IF preference = "auto" THEN Range(Tried) ELSE {preference}
Usable(stores) == stores \cap usable'

\* Before the first command any stores are set up, and the file by storage setup.
SetUpStores == usable' \in IF logins # 0 THEN {usable} ELSE {S \cup {Plain} : S \in SUBSET Range(Tried)}

StoresBegin(w, p, at, stores) ==
    /\ worker[w] = NoWork /\ logins < MaxLogins /\ stores # {}
    /\ logins' = logins + 1
    /\ worker' = [worker EXCEPT ![w] = [NoWork EXCEPT !.at = at, !.profile = p, !.left = stores,
                                                      !.value = logins + 1]]
    /\ UNCHANGED <<stored, known, overlapped, litter>>

\* preflight_credential_store: every candidate that is set up; none is an error.
LogIn(w) == SetUpStores /\ \E p \in Owner, preference \in Preferred :
                StoresBegin(w, p, "probe", Usable(StoreCandidates(preference)))

\* delete_token: every candidate, set up or not.
LogOut(w) == SetUpStores /\ \E p \in Owner, preference \in Preferred :
                StoresBegin(w, p, "drop", StoreCandidates(preference))

-----------------------------------------------------------------------------
(* One call of a store *)

Put1(entries, a, value) == [b \in DOMAIN entries \cup {a} |-> IF b = a THEN value ELSE entries[b]]
WithoutEntry(entries, a) == [b \in DOMAIN entries \ {a} |-> entries[b]]

\* Stores are taken in the order in which they are tried.
Foremost(stores) ==
    CHOOSE s \in stores : \A i \in DOMAIN Tried : Tried[i] \in stores => \E j \in 1..i : Tried[j] = s
TheStore(w) == Foremost(worker[w].left)
Subject(w) == IF worker[w].at \in {"probe", "check", "unprobe"} THEN Probe(w)
              ELSE worker[w].profile
Edited(w, entries) ==
    IF worker[w].at \in {"probe", "hold"} THEN Put1(entries, Subject(w), worker[w].value)
    ELSE WithoutEntry(entries, Subject(w))

\* After a call: the login goes on to the next call or store, the logout to its next store.
\* A login that cannot keep its credential fails, a logout passes over what it cannot delete.
NextStore(rec) ==
    LET left == rec.left \ {Foremost(rec.left)}
    IN IF left = {} THEN NoWork
       ELSE [rec EXCEPT !.left = left, !.failed = FALSE, !.base = Absent,
                        !.at = IF @ = "drop" THEN "drop" ELSE "probe"]

\* Mutant: removes the probe only if it came back.
AfterCallTidy(rec, ok) ==
    CASE rec.at = "probe" /\ ok -> [rec EXCEPT !.at = "check", !.base = Absent]
      [] rec.at = "check" /\ ok -> [rec EXCEPT !.at = "unprobe"]
      [] rec.at = "unprobe" /\ ok -> [rec EXCEPT !.at = "hold", !.base = Absent]
      [] rec.at = "hold" -> NoWork
      [] OTHER -> NextStore(rec)

AfterCall(rec, ok) ==
    CASE rec.at = "probe" /\ ok -> [rec EXCEPT !.at = "check", !.base = Absent]
      [] rec.at = "check" \/ (rec.at = "probe" /\ ~ok) ->
            [rec EXCEPT !.at = "unprobe", !.failed = ~ok, !.base = Absent]
      [] rec.at = "unprobe" /\ ok /\ ~rec.failed -> [rec EXCEPT !.at = "hold", !.base = Absent]
      [] rec.at = "hold" -> NoWork
      [] OTHER -> NextStore(rec)

Returned(w, ok) == worker' = [worker EXCEPT ![w] = AfterCall(@, ok)]

\* What is known of an entry after a call that reports its outcome truthfully, or not.
Learns(w, s, value) ==
    known' = IF Subject(w) \in Owner THEN [known EXCEPT ![<<s, Subject(w)>>] = value] ELSE known
Now(w, s) == IF worker[w].at = "hold" THEN worker[w].value ELSE Absent

Writing(w) == worker[w].at \in {"probe", "unprobe", "hold", "drop"}

\* keyring, pass, vault: one entry is set or deleted.
Entry(w) ==
    /\ Writing(w) /\ TheStore(w) # Plain
    /\ TheStore(w) \in usable
    /\ LET s == TheStore(w)
       IN /\ stored' = [stored EXCEPT ![s] = Edited(w, @)]
          /\ Learns(w, s, Now(w, s))
    /\ Returned(w, TRUE)
    /\ UNCHANGED <<usable, logins, overlapped, litter>>

\* _read: the file as it is; a missing one is empty.  A delete that finds nothing writes
\* nothing.
ReadFile(w) ==
    /\ Writing(w) /\ TheStore(w) = Plain /\ worker[w].base = Absent
    /\ IF worker[w].at \in {"unprobe", "drop"} /\ Subject(w) \notin DOMAIN stored[Plain]
       THEN Learns(w, Plain, Now(w, Plain)) /\ Returned(w, TRUE)
       ELSE worker' = [worker EXCEPT ![w].base = stored[Plain]] /\ UNCHANGED known
    /\ UNCHANGED <<usable, stored, logins, overlapped, litter>>

\* _write: a temporary file, flushed, that replaces the file.
ReplaceFile(w) ==
    /\ Writing(w) /\ TheStore(w) = Plain /\ worker[w].base # Absent
    /\ stored' = [stored EXCEPT ![Plain] = Edited(w, worker[w].base)]
    /\ overlapped' = (overlapped \/ stored[Plain] # worker[w].base)
    /\ Learns(w, Plain, Now(w, Plain))
    /\ Returned(w, TRUE)
    /\ UNCHANGED <<usable, logins, litter>>

\* The probe is read back, with errors: only the value that was written passes.
CheckProbe(w) ==
    /\ worker[w].at = "check"
    /\ Returned(w, /\ Probe(w) \in DOMAIN stored[TheStore(w)]
                   /\ stored[TheStore(w)][Probe(w)] = worker[w].value)
    /\ UNCHANGED <<usable, stored, logins, known, overlapped, litter>>

\* The call fails: the store is not set up, locked, or refuses; it may have done its work.
\* The temporary file of a write is removed.
CallFails(w) ==
    /\ worker[w].at # "idle"
    /\ LET s == TheStore(w)
           entries == IF s = Plain /\ worker[w].base # Absent THEN worker[w].base ELSE stored[s]
       IN /\ IF Writing(w) /\ s \in usable /\ (s = Plain => worker[w].base # Absent)
             THEN \/ UNCHANGED <<stored, overlapped>>
                  \/ /\ stored' = [stored EXCEPT ![s] = Edited(w, entries)]
                     /\ overlapped' = (overlapped \/ stored[s] # entries)
             ELSE UNCHANGED <<stored, overlapped>>
          /\ Learns(w, s, Unsure)
          /\ litter' = IF worker[w].at = "unprobe" THEN litter \cup {<<s, Probe(w)>>} ELSE litter
    /\ Returned(w, FALSE)
    /\ UNCHANGED <<usable, logins>>

\* A kill leaves the probe - and the temporary file, which nothing reads or removes.
WorkerKilled(w) ==
    /\ worker[w].at # "idle"
    /\ litter' = litter \cup {<<TheStore(w), Probe(w)>>}
    /\ worker' = [worker EXCEPT ![w] = NoWork]
    /\ UNCHANGED <<usable, stored, logins, known, overlapped>>

StoresStep == \E w \in Worker :
    Entry(w) \/ ReadFile(w) \/ ReplaceFile(w) \/ CheckProbe(w) \/ CallFails(w)
StoresOthers == \E w \in Worker : LogIn(w) \/ LogOut(w) \/ WorkerKilled(w)
StoresNext == StoresStep \/ StoresOthers
StoresSpec == StoresInit /\ [][StoresNext]_storesVars

-----------------------------------------------------------------------------
\* Every variable has its type.
StoresTypeOK ==
    /\ usable \subseteq Backend
    /\ \A s \in Backend : stored[s] \in Contents
    /\ \A w \in Worker :
           /\ worker[w].at \in {"idle", "probe", "check", "unprobe", "hold", "drop"}
           /\ worker[w].profile \in Owner \cup {Absent} /\ worker[w].left \subseteq Backend
           /\ worker[w].failed \in BOOLEAN /\ worker[w].base \in Contents \cup {Absent}
    /\ logins \in 0..MaxLogins /\ overlapped \in BOOLEAN
    /\ known \in [Backend \X Owner -> 0..MaxLogins \cup {Absent}]

\* A credential that was stored is there, and one that was deleted is not, until the next
\* call that changes that very entry, whatever other profiles and probes do in the same
\* store - in the plaintext file unless two processes changed it at once.  No probe outlives
\* its command but by a kill or a delete that failed (credentials.py 219-322,
\* plaintext_store.py 31-123).
EntriesKept ==
    /\ \A s \in Backend, p \in Owner :
           known[<<s, p>>] # Unsure /\ (s = Plain => ~overlapped) =>
               known[<<s, p>>] = IF p \in DOMAIN stored[s] THEN stored[s][p] ELSE Absent
    /\ \A s \in Backend, w \in Worker :
           Probe(w) \in DOMAIN stored[s] =>
               \/ <<s, Probe(w)>> \in litter \/ (s = Plain /\ overlapped)
               \/ worker[w].at \in {"probe", "check", "unprobe"} /\ TheStore(w) = s
=============================================================================
