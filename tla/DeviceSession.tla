---------------------------- MODULE DeviceSession ----------------------------
(***************************************************************************)
(* One rvs profile with a device login, and the CLI processes that use it. *)
(*                                                                         *)
(* A process runs one command at a time: it obtains or refreshes the       *)
(* stored credential (rvs/auth/credentials.py), logs in                    *)
(* (rvs/auth/device.py) or logs out (rvs/auth/commands.py).  The processes *)
(* share the credential store, the profile's section of config.toml, the   *)
(* pending-operation file and an advisory lock file, and talk to the       *)
(* service of module AuthServer.  Refreshing takes the lock; logging in    *)
(* and logging out do not.  Each action is one store, file or network      *)
(* operation, so a process can be overtaken or killed between any two.     *)
(***************************************************************************)
EXTENDS AuthServer

CONSTANTS
  Proc,        \* the CLI processes
  NoProc,      \* the lock is free
  NoClaim,     \* there is no pending-operation file
  Commands,    \* the commands users run: a subset of CommandName
  MaxCommands  \* bound: commands started, and edits made, in one behaviour

CommandName == {"refresh", "request", "login", "logout"}

ASSUME NoProcAssumption == NoProc \notin Proc
ASSUME CommandsAssumption == Commands \subseteq CommandName
ASSUME MaxCommandsAssumption == MaxCommands \in Nat

(* retry_rate_limited sends a request at most three times. *)
MaxSends == 3

(* pending_refresh_operation's file: an operation ID and the digest of the
   refresh token it was created for. *)
Claim == [tok : Token, op : Nat]

ASSUME NoClaimAssumption == NoClaim \notin Claim

(* The profile in config.toml: its API deployment, and the pair that the
   credential metadata (type, issuer and expiry times) was written for, or
   NoToken when credential_type is not "expiring". *)
Profile == [api : Origin, meta : Token \union {NoToken}]

VARIABLES
  access, refresh,  \* the two entries of the credential store
  cfg,              \* the profile in config.toml
  pending,          \* the pending-operation file
  lock,             \* holder of the profile's refresh lock
  sent,             \* refresh requests sent: they may arrive late or twice
  lastOp,           \* the last operation ID created
  started,          \* commands started and edits made
  cmd               \* cmd[p]: what process p is doing

storeVars == <<access, refresh>>
vars == <<access, refresh, cfg, pending, lock, sent, lastOp, started, cmd,
          issued, ended, newest, rotatedBy>>

LockedStep == {"load", "readRefresh", "readAccess", "claim", "send", "wait",
               "storeRefresh", "storeAccess", "loadMeta", "saveMeta", "settle",
               "dropClaim", "release"}
FreeStep == {"idle", "initial", "acquire", "loadSync", "saveSync", "poll",
             "loginAccess", "loginRefresh", "loginMeta", "revokePrevious",
             "revokeStored"}
(* delete_token and the revocation before or after it run with or without
   the lock, depending on the caller. *)
RemovalStep == {"discard", "deleteAccess", "deleteRefresh", "loadClear", "saveClear"}

(* Why a process removes the stored credential. *)
RefreshRemoval == {"denied", "unusable", "partial"}
Reason == RefreshRemoval \union {"none", "loginFailed", "logout"}

MaybeToken == Token \union {NoToken}

(* The locals of a running command: the caller's stale_access_token, the
   refresh token read before the lock, the one the command works on, its
   operation ID and send count, the pair it received, its copy of the
   profile, and the access token it is about to return.  Most are dropped
   when they will not be read again. *)
CommandState ==
  [pc : LockedStep \union FreeStep \union RemovalStep, stale : MaybeToken,
   initial : MaybeToken, tok : MaybeToken, op : Nat, sends : 0..MaxSends,
   pair : MaybeToken, copy : Profile \union {NoToken}, why : Reason,
   result : MaybeToken]

SharedTypeOK ==
  /\ access \in MaybeToken
  /\ refresh \in MaybeToken
  /\ cfg \in Profile
  /\ pending \in Claim \union {NoClaim}
  /\ lock \in Proc \union {NoProc}
  /\ sent \in SUBSET Request
  /\ lastOp \in Nat
  /\ started \in Nat

TypeOK == ServerTypeOK /\ SharedTypeOK /\ cmd \in [Proc -> CommandState]

Idle ==
  [pc |-> "idle", stale |-> NoToken, initial |-> NoToken, tok |-> NoToken,
   op |-> NoOp, sends |-> 0, pair |-> NoToken, copy |-> NoToken,
   why |-> "none", result |-> NoToken]

(* A profile starts without a credential, or with a complete login whose
   pair is the newest of its session. *)
Init ==
  /\ pending = NoClaim
  /\ lock = NoProc
  /\ sent = {}
  /\ lastOp = NoOp
  /\ started = 0
  /\ cmd = [p \in Proc |-> Idle]
  /\ \/ \E o \in Origin :
          /\ ServerInit({})
          /\ access = NoToken /\ refresh = NoToken
          /\ cfg = [api |-> o, meta |-> NoToken]
     \/ \E s \in Session :
          LET first == [sess |-> s, gen |-> 0]
          IN  /\ ServerInit({s})
              /\ access = first /\ refresh = first
              /\ cfg = [api |-> Issuer[s], meta |-> first]

-----------------------------------------------------------------------------
(* _store_get answers None when the store cannot be read. *)
Reads(entry) == {entry, NoToken}

(* _store_delete ignores a store that refuses. *)
Deletes(entry) == {NoToken, entry}

At(p, step) == cmd[p].pc = step

Become(p, c) == cmd' = [cmd EXCEPT ![p] = c]

Goto(p, step) == Become(p, [cmd[p] EXCEPT !.pc = step])

Finish(p) == Become(p, Idle)

(* The stored credential belongs to the profile's API. *)
OriginMatches(prof) == prof.meta # NoToken => Issuer[prof.meta.sess] = prof.api

Refreshable(prof) == prof.meta # NoToken /\ OriginMatches(prof)

(* credential_origin_url: where the credential's metadata says it was issued. *)
OriginUrl(prof) == IF prof.meta = NoToken THEN prof.api ELSE Issuer[prof.meta.sess]

Starts(p, command) ==
  /\ command \in Commands
  /\ At(p, "idle")
  /\ started < MaxCommands
  /\ started' = started + 1

(* get_token with an expired or missing access token. *)
BeginRefresh(p) ==
  /\ Starts(p, "refresh")
  /\ Goto(p, "initial")
  /\ UNCHANGED <<storeVars, cfg, pending, lock, sent, lastOp, serverVars>>

(* ApiClient read the access token; it proves expired, or gets a 401. *)
BeginRequest(p) ==
  /\ Starts(p, "request")
  /\ access # NoToken
  /\ Become(p, [cmd[p] EXCEPT !.pc = "initial", !.stale = access])
  /\ UNCHANGED <<storeVars, cfg, pending, lock, sent, lastOp, serverVars>>

ReadInitial(p) ==
  /\ At(p, "initial")
  /\ \E t \in Reads(refresh) :
       Become(p, [cmd[p] EXCEPT !.pc = "acquire", !.initial = t])
  /\ UNCHANGED <<storeVars, cfg, pending, lock, sent, lastOp, started, serverVars>>

(* Mutant of Acquire: the lock is advisory and nobody looks at it. *)
AcquireUnguarded(p) ==
  /\ At(p, "acquire")
  /\ lock' = p
  /\ Goto(p, "load")
  /\ UNCHANGED <<storeVars, cfg, pending, sent, lastOp, started, serverVars>>

Acquire(p) ==
  /\ At(p, "acquire")
  /\ lock = NoProc
  /\ lock' = p
  /\ Goto(p, "load")
  /\ UNCHANGED <<storeVars, cfg, pending, sent, lastOp, started, serverVars>>

(* Under the lock: the profile must still hold a refreshable credential of
   its own API, and the store must be usable. *)
LoadProfile(p) ==
  /\ At(p, "load")
  /\ \/ Refreshable(cfg)
        /\ Become(p, [cmd[p] EXCEPT !.pc = "readRefresh", !.copy = cfg])
     \/ Goto(p, "release")
  /\ UNCHANGED <<storeVars, cfg, pending, lock, sent, lastOp, started, serverVars>>

ReadRefresh(p) ==
  /\ At(p, "readRefresh")
  /\ \/ Goto(p, "release")
     \/ /\ refresh # NoToken
        /\ Become(p, [cmd[p] EXCEPT !.pc = "readAccess", !.tok = refresh])
  /\ UNCHANGED <<storeVars, cfg, pending, lock, sent, lastOp, started, serverVars>>

(* Another process refreshed, or logged in, since this command began. *)
Overtaken(c, current) ==
  /\ current # NoToken
  /\ \/ c.initial # NoToken /\ c.tok # c.initial
     \/ c.stale # NoToken /\ current # c.stale

ReadAccess(p) ==
  /\ At(p, "readAccess")
  /\ \E current \in Reads(access) :
       IF Overtaken(cmd[p], current)
         THEN Become(p, [cmd[p] EXCEPT !.pc = "release", !.result = current])
         ELSE Become(p, [cmd[p] EXCEPT !.pc = "claim", !.stale = NoToken,
                                       !.initial = NoToken])
  /\ UNCHANGED <<storeVars, cfg, pending, lock, sent, lastOp, started, serverVars>>

(* Mutant of ClaimOperation: a new operation for every attempt. *)
ClaimAfresh(p) ==
  /\ At(p, "claim")
  /\ lastOp' = lastOp + 1
  /\ pending' = [tok |-> cmd[p].tok, op |-> lastOp + 1]
  /\ Become(p, [cmd[p] EXCEPT !.pc = "send", !.op = lastOp + 1])
  /\ UNCHANGED <<storeVars, cfg, lock, sent, started, serverVars>>

(* pending_refresh_operation: keep the operation ID recorded for this very
   token, or durably replace the file before anything is sent. *)
ClaimOperation(p) ==
  /\ At(p, "claim")
  /\ IF pending # NoClaim /\ pending.tok = cmd[p].tok
       THEN /\ Become(p, [cmd[p] EXCEPT !.pc = "send", !.op = pending.op])
            /\ UNCHANGED <<pending, lastOp>>
       ELSE /\ lastOp' = lastOp + 1
            /\ pending' = [tok |-> cmd[p].tok, op |-> lastOp + 1]
            /\ Become(p, [cmd[p] EXCEPT !.pc = "send", !.op = lastOp + 1])
  /\ UNCHANGED <<storeVars, cfg, lock, sent, started, serverVars>>

ClaimFails(p) ==
  /\ At(p, "claim")
  /\ Goto(p, "release")
  /\ UNCHANGED <<storeVars, cfg, pending, lock, sent, lastOp, started, serverVars>>

RequestOf(c) == [tok |-> c.tok, op |-> c.op, to |-> OriginUrl(c.copy)]

Send(p) ==
  /\ At(p, "send")
  /\ sent' = sent \union {RequestOf(cmd[p])}
  /\ Become(p, [cmd[p] EXCEPT !.pc = "wait", !.sends = @ + 1])
  /\ UNCHANGED <<storeVars, cfg, pending, lock, lastOp, started, serverVars>>

(* Mutant of AnsweredBusy: the attempts are not counted. *)
AnsweredBusyUncounted(p) ==
  /\ At(p, "wait")
  /\ Goto(p, "send")
  /\ UNCHANGED <<storeVars, cfg, pending, lock, sent, lastOp, started, serverVars>>

(* 429 or 503: wait and send the same request again. *)
AnsweredBusy(p) ==
  /\ At(p, "wait")
  /\ cmd[p].sends < MaxSends
  /\ Goto(p, "send")
  /\ UNCHANGED <<storeVars, cfg, pending, lock, sent, lastOp, started, serverVars>>

(* Mutant of Unanswered: an ambiguous failure forgets its operation. *)
UnansweredForgets(p) ==
  /\ At(p, "wait")
  /\ pending' = NoClaim
  /\ Goto(p, "release")
  /\ UNCHANGED <<storeVars, cfg, lock, sent, lastOp, started, serverVars>>

(* No usable answer: a transport error, another contract version, a retired
   route, an undecodable body, a server error, or still busy. *)
Unanswered(p) ==
  /\ At(p, "wait")
  /\ Goto(p, "release")
  /\ UNCHANGED <<storeVars, cfg, pending, lock, sent, lastOp, started, serverVars>>

AnsweredPair(p) ==
  /\ At(p, "wait")
  /\ Accepts(RequestOf(cmd[p]))
  /\ Handle(RequestOf(cmd[p]))
  /\ Become(p, [Idle EXCEPT !.pc = "storeRefresh",
                                            !.pair = NextPair(RequestOf(cmd[p]))])
  /\ UNCHANGED <<storeVars, cfg, pending, lock, sent, lastOp, started>>

(* Success, but the body lacks one of the two tokens. *)
AnsweredUnusable(p) ==
  /\ At(p, "wait")
  /\ Accepts(RequestOf(cmd[p]))
  /\ Handle(RequestOf(cmd[p]))
  /\ Become(p, [Idle EXCEPT !.pc = "deleteAccess", !.why = "unusable"])
  /\ UNCHANGED <<storeVars, cfg, pending, lock, sent, lastOp, started>>

(* 400, 401, 403 or 409. *)
AnsweredDenied(p) ==
  /\ At(p, "wait")
  /\ ~Accepts(RequestOf(cmd[p]))
  /\ Become(p, [Idle EXCEPT !.pc = "deleteAccess", !.why = "denied"])
  /\ UNCHANGED <<storeVars, cfg, pending, lock, sent, lastOp, started, serverVars>>

-----------------------------------------------------------------------------
(* Storing a rotated pair: refresh token, access token, metadata, and only
   then the pending-operation file is removed.  Any of the four may fail. *)
StoreFails(p) ==
  /\ cmd[p].pc \in {"storeRefresh", "storeAccess", "loadMeta", "saveMeta", "settle"}
  /\ Become(p, [cmd[p] EXCEPT !.pc = "discard", !.why = "partial"])
  /\ UNCHANGED <<storeVars, cfg, pending, lock, sent, lastOp, started, serverVars>>

(* Mutant of StoreRefresh: a failed write goes unnoticed. *)
StoreRefreshUnchecked(p) ==
  /\ At(p, "storeRefresh")
  /\ refresh' \in {cmd[p].pair, refresh}
  /\ Goto(p, "storeAccess")
  /\ UNCHANGED <<access, cfg, pending, lock, sent, lastOp, started, serverVars>>

StoreRefresh(p) ==
  /\ At(p, "storeRefresh")
  /\ refresh' = cmd[p].pair
  /\ Goto(p, "storeAccess")
  /\ UNCHANGED <<access, cfg, pending, lock, sent, lastOp, started, serverVars>>

(* Mutant of StoreAccess: a failed write goes unnoticed. *)
StoreAccessUnchecked(p) ==
  /\ At(p, "storeAccess")
  /\ access' \in {cmd[p].pair, access}
  /\ Goto(p, "loadMeta")
  /\ UNCHANGED <<refresh, cfg, pending, lock, sent, lastOp, started, serverVars>>

StoreAccess(p) ==
  /\ At(p, "storeAccess")
  /\ access' = cmd[p].pair
  /\ Goto(p, "loadMeta")
  /\ UNCHANGED <<refresh, cfg, pending, lock, sent, lastOp, started, serverVars>>

LoadMeta(p) ==
  /\ At(p, "loadMeta")
  /\ Become(p, [cmd[p] EXCEPT !.pc = "saveMeta", !.copy = cfg])
  /\ UNCHANGED <<storeVars, cfg, pending, lock, sent, lastOp, started, serverVars>>

SaveMeta(p) ==
  /\ At(p, "saveMeta")
  /\ cfg' = [cmd[p].copy EXCEPT !.meta = cmd[p].pair]
  /\ Goto(p, "settle")
  /\ UNCHANGED <<storeVars, pending, lock, sent, lastOp, started, serverVars>>

Settle(p) ==
  /\ At(p, "settle")
  /\ pending' = NoClaim
  /\ Become(p, [cmd[p] EXCEPT !.pc = "release", !.result = cmd[p].pair])
  /\ UNCHANGED <<storeVars, cfg, lock, sent, lastOp, started, serverVars>>

(* Mutant of Release: an early return keeps the lock. *)
ReleaseForgets(p) ==
  /\ At(p, "release")
  /\ lock' = IF cmd[p].pair = NoToken THEN lock ELSE NoProc
  /\ IF cmd[p].pair # NoToken /\ cmd[p].why = "none"
       THEN Goto(p, "loadSync")
       ELSE Finish(p)
  /\ UNCHANGED <<storeVars, cfg, pending, sent, lastOp, started, serverVars>>

(* A refresh that stored a whole pair goes on to discover the native
   registries after it has let the lock go. *)
Release(p) ==
  /\ At(p, "release")
  /\ lock' = NoProc
  /\ IF cmd[p].pair # NoToken /\ cmd[p].why = "none"
       THEN Goto(p, "loadSync")
       ELSE Finish(p)
  /\ UNCHANGED <<storeVars, cfg, pending, sent, lastOp, started, serverVars>>

(* sync_native_registries: nothing new or no answer, or the whole profile is
   loaded and saved again with other registry endpoints. *)
SkipSync(p) ==
  /\ At(p, "loadSync")
  /\ Finish(p)
  /\ UNCHANGED <<storeVars, cfg, pending, lock, sent, lastOp, started, serverVars>>

LoadSync(p) ==
  /\ At(p, "loadSync")
  /\ Become(p, [cmd[p] EXCEPT !.pc = "saveSync", !.copy = cfg])
  /\ UNCHANGED <<storeVars, cfg, pending, lock, sent, lastOp, started, serverVars>>

SaveSync(p) ==
  /\ At(p, "saveSync")
  /\ cfg' = cmd[p].copy
  /\ Finish(p)
  /\ UNCHANGED <<storeVars, pending, lock, sent, lastOp, started, serverVars>>

-----------------------------------------------------------------------------
(* Removing the stored credential: delete_token_from_store and
   clear_profile_credential_metadata, on behalf of a refresh (still locked),
   a failed login or a logout. *)

(* discard_device_refresh_token of a pair that could not be stored. *)
Discard(p) ==
  /\ At(p, "discard")
  /\ Revoke(cmd[p].pair, Issuer[cmd[p].pair.sess])
  /\ IF cmd[p].why = "loginFailed" THEN Finish(p) ELSE Goto(p, "deleteAccess")
  /\ UNCHANGED <<storeVars, cfg, pending, lock, sent, lastOp, started>>

DeleteAccess(p) ==
  /\ At(p, "deleteAccess")
  /\ access' \in Deletes(access)
  /\ Goto(p, "deleteRefresh")
  /\ UNCHANGED <<refresh, cfg, pending, lock, sent, lastOp, started, serverVars>>

DeleteRefresh(p) ==
  /\ At(p, "deleteRefresh")
  /\ refresh' \in Deletes(refresh)
  /\ Goto(p, IF cmd[p].why = "loginFailed" THEN "discard" ELSE "loadClear")
  /\ UNCHANGED <<access, cfg, pending, lock, sent, lastOp, started, serverVars>>

LoadClear(p) ==
  /\ At(p, "loadClear")
  /\ Become(p, [cmd[p] EXCEPT !.pc = "saveClear", !.copy = cfg])
  /\ UNCHANGED <<storeVars, cfg, pending, lock, sent, lastOp, started, serverVars>>

(* After the metadata: a denied refresh forgets its operation, any other
   refresh just ends, and a logout is done. *)
AfterClear(why) ==
  CASE why = "denied" -> "dropClaim"
    [] why \in RefreshRemoval \ {"denied"} -> "release"
    [] OTHER -> "idle"

SaveClear(p) ==
  /\ At(p, "saveClear")
  /\ cfg' = [cmd[p].copy EXCEPT !.meta = NoToken]
  /\ IF AfterClear(cmd[p].why) = "idle"
       THEN Finish(p)
       ELSE Goto(p, AfterClear(cmd[p].why))
  /\ UNCHANGED <<storeVars, pending, lock, sent, lastOp, started, serverVars>>

DropClaim(p) ==
  /\ At(p, "dropClaim")
  /\ pending' = NoClaim
  /\ Goto(p, "release")
  /\ UNCHANGED <<storeVars, cfg, lock, sent, lastOp, started, serverVars>>

-----------------------------------------------------------------------------
(* perform_device_login.  The refresh token it will replace is read before
   the user approves the new session, and revoked where the metadata of that
   moment says it was issued. *)
BeginLogin(p) ==
  /\ Starts(p, "login")
  /\ \E t \in Reads(IF cfg.meta = NoToken THEN NoToken ELSE refresh) :
       Become(p, [cmd[p] EXCEPT !.pc = "poll", !.tok = t, !.copy = cfg])
  /\ UNCHANGED <<storeVars, cfg, pending, lock, sent, lastOp, serverVars>>

Approved(p) ==
  /\ At(p, "poll")
  /\ \E s \in Session :
       /\ Issue(s)
       /\ Become(p, [cmd[p] EXCEPT !.pc = "loginAccess",
                                   !.pair = [sess |-> s, gen |-> 0]])
  /\ UNCHANGED <<storeVars, cfg, pending, lock, sent, lastOp, started>>

(* Denied, cancelled, out of time, or a failed poll. *)
NotApproved(p) ==
  /\ At(p, "poll")
  /\ Finish(p)
  /\ UNCHANGED <<storeVars, cfg, pending, lock, sent, lastOp, started, serverVars>>

LoginStoreFails(p) ==
  /\ cmd[p].pc \in {"loginAccess", "loginRefresh", "loginMeta"}
  /\ Become(p, [cmd[p] EXCEPT !.pc = "deleteAccess", !.why = "loginFailed"])
  /\ UNCHANGED <<storeVars, cfg, pending, lock, sent, lastOp, started, serverVars>>

LoginAccess(p) ==
  /\ At(p, "loginAccess")
  /\ access' = cmd[p].pair
  /\ Goto(p, "loginRefresh")
  /\ UNCHANGED <<refresh, cfg, pending, lock, sent, lastOp, started, serverVars>>

LoginRefresh(p) ==
  /\ At(p, "loginRefresh")
  /\ refresh' = cmd[p].pair
  /\ Goto(p, "loginMeta")
  /\ UNCHANGED <<access, cfg, pending, lock, sent, lastOp, started, serverVars>>

(* The login overwrites every field of the profile that is modelled, so its
   own load of the file does not matter. *)
LoginMeta(p) ==
  /\ At(p, "loginMeta")
  /\ cfg' = [api |-> Issuer[cmd[p].pair.sess], meta |-> cmd[p].pair]
  /\ Goto(p, IF cmd[p].tok = NoToken THEN "loadSync" ELSE "revokePrevious")
  /\ UNCHANGED <<storeVars, pending, lock, sent, lastOp, started, serverVars>>

RevokePrevious(p) ==
  /\ At(p, "revokePrevious")
  /\ Revoke(cmd[p].tok, OriginUrl(cmd[p].copy))
  /\ Goto(p, "loadSync")
  /\ UNCHANGED <<storeVars, cfg, pending, lock, sent, lastOp, started>>

(* logout: revoke the stored session, then remove the local credential. *)
BeginLogout(p) ==
  /\ Starts(p, "logout")
  /\ \/ Become(p, [Idle EXCEPT !.pc = "deleteAccess", !.why = "logout"])
     \/ /\ cfg.meta # NoToken
        /\ refresh # NoToken
        /\ Become(p, [Idle EXCEPT !.pc = "revokeStored", !.why = "logout",
                                  !.tok = refresh, !.copy = cfg])
  /\ UNCHANGED <<storeVars, cfg, pending, lock, sent, lastOp, serverVars>>

RevokeStored(p) ==
  /\ At(p, "revokeStored")
  /\ Revoke(cmd[p].tok, OriginUrl(cmd[p].copy))
  /\ Goto(p, "deleteAccess")
  /\ UNCHANGED <<storeVars, cfg, pending, lock, sent, lastOp, started>>

-----------------------------------------------------------------------------
(* A process is interrupted, killed or ended by an uncaught error.  The
   operating system frees its lock. *)
Crash(p) ==
  /\ ~At(p, "idle")
  /\ Finish(p)
  /\ lock' = IF lock = p THEN NoProc ELSE lock
  /\ UNCHANGED <<storeVars, cfg, pending, sent, lastOp, started, serverVars>>

(* A request reaches the service although its sender has given up on it, or
   reaches it once more. *)
ArriveLate(r) ==
  /\ Rotates(r)
  /\ Handle(r)
  /\ UNCHANGED <<storeVars, cfg, pending, lock, sent, lastOp, started, cmd>>

ServerEnds(s) ==
  /\ EndSession(s)
  /\ UNCHANGED <<storeVars, cfg, pending, lock, sent, lastOp, started, cmd>>

(* The user points the profile at another API in config.toml. *)
EditApi(o) ==
  /\ started < MaxCommands
  /\ started' = started + 1
  /\ cfg.api # o
  /\ cfg' = [cfg EXCEPT !.api = o]
  /\ UNCHANGED <<storeVars, pending, lock, sent, lastOp, cmd, serverVars>>

Refreshing(p) ==
  \/ ReadInitial(p) \/ Acquire(p) \/ LoadProfile(p) \/ ReadRefresh(p)
  \/ ReadAccess(p) \/ ClaimOperation(p) \/ ClaimFails(p) \/ Send(p)
  \/ AnsweredBusy(p) \/ Unanswered(p) \/ AnsweredPair(p)
  \/ AnsweredUnusable(p) \/ AnsweredDenied(p) \/ StoreFails(p)
  \/ StoreRefresh(p) \/ StoreAccess(p) \/ LoadMeta(p) \/ SaveMeta(p)
  \/ Settle(p) \/ Release(p) \/ SkipSync(p) \/ LoadSync(p) \/ SaveSync(p)

Removing(p) ==
  \/ Discard(p) \/ DeleteAccess(p) \/ DeleteRefresh(p) \/ LoadClear(p)
  \/ SaveClear(p) \/ DropClaim(p)

LoggingInOrOut(p) ==
  \/ Approved(p) \/ NotApproved(p) \/ LoginStoreFails(p) \/ LoginAccess(p)
  \/ LoginRefresh(p) \/ LoginMeta(p) \/ RevokePrevious(p) \/ RevokeStored(p)

Begin(p) == BeginRefresh(p) \/ BeginRequest(p) \/ BeginLogin(p) \/ BeginLogout(p)

Run(p) == Refreshing(p) \/ Removing(p) \/ LoggingInOrOut(p)

Environment ==
  \/ \E r \in sent : ArriveLate(r)
  \/ \E s \in Session : ServerEnds(s)
  \/ \E o \in Origin : EditApi(o)

Next ==
  \/ \E p \in Proc : Begin(p) \/ Run(p) \/ Crash(p)
  \/ Environment

(* A running command keeps running; nobody is obliged to start one. *)
Fairness == \A p \in Proc : WF_vars(Run(p))

Spec == Init /\ [][Next]_vars

FairSpec == Spec /\ Fairness

-----------------------------------------------------------------------------
(* While its session lives, a refresh token is spent under one operation ID
   only, whatever is lost, repeated or killed in between: the service never
   sees a second operation for a token, which it could only take for a
   replayed credential.  This is what the pending-operation file is for
   (refresh_operation.py). *)
OneOperationPerToken ==
  \A r1, r2 \in sent :
    r1.tok = r2.tok /\ r1.tok.sess \notin ended => r1.op = r2.op

(* A session the service still serves is never stranded by rvs: the stored
   refresh token is the newest of its session, or the one before it with the
   very operation on file that the service will answer again. *)
Recoverable ==
  refresh # NoToken /\ refresh.sess \notin ended =>
    \/ refresh.gen = newest[refresh.sess]
    \/ /\ refresh.gen + 1 = newest[refresh.sess]
       /\ pending # NoClaim
       /\ pending = [tok |-> refresh, op |-> rotatedBy[refresh.sess]]

(* The refresh token is stored before the access token of its pair, so the
   stored access token is never one whose refresh token was lost. *)
AccessNotAhead ==
  access # NoToken /\ refresh # NoToken /\ access.sess = refresh.sess =>
    access.gen <= refresh.gen

(* Among refreshes, the pending-operation file is a journal: with no file on
   disk, a stored refresh token of a live session has its own access token
   beside it.  (Its metadata may be gone: registry discovery saves the whole
   profile without the lock.) *)
NoClaimMeansWholePair ==
  pending = NoClaim /\ refresh # NoToken /\ refresh.sess \notin ended =>
    access = refresh

(* "Never send a refresh token to an API other than the one that issued it"
   (credentials.py). *)
SentToIssuerOnly == \A r \in sent : r.to = Issuer[r.tok.sess]

(* A concurrent refresh hands its caller the rotated access token, never the
   one the caller has just declared stale. *)
NeverReturnsStale ==
  \A p \in Proc : cmd[p].result # NoToken => cmd[p].result # cmd[p].stale

(* Every command comes to an end, whatever happens to the others. *)
CommandsEnd == \A p \in Proc : ~At(p, "idle") ~> At(p, "idle")
=============================================================================
