-------------------------- MODULE DeviceSessionInv --------------------------
(***************************************************************************)
(* The inductive invariant behind the safety theorems of DeviceSession.    *)
(* Recoverable and OneOperationPerToken are not inductive: whether a late  *)
(* request can strand the stored token depends on what the lock holder has *)
(* read, on the file it has claimed and on logins that have not stored     *)
(* their first pair yet.                                                   *)
(***************************************************************************)
EXTENDS DeviceSession

(* Where a local of a command is going to be used, it is there. *)
TokStep == {"readAccess", "claim", "send", "wait", "revokePrevious", "revokeStored"}
PairStep == {"storeRefresh", "storeAccess", "loadMeta", "saveMeta", "settle",
             "discard", "loginAccess", "loginRefresh", "loginMeta"}
RefreshCopyStep == {"readRefresh", "readAccess", "claim", "send", "wait"}
CopyStep == RefreshCopyStep \union
            {"saveMeta", "saveSync", "saveClear", "poll", "loginAccess",
             "loginRefresh", "loginMeta", "revokePrevious", "revokeStored"}

UnsentStep == {"idle", "initial", "acquire", "load", "readRefresh", "readAccess",
               "claim"}

LocalsReady(c) ==
  /\ c.pc \in TokStep => c.tok \in Token
  /\ c.pc \in PairStep \/ c.why = "loginFailed" => c.pair \in Token
  /\ c.pc \in CopyStep => c.copy \in Profile
  /\ c.pc \in RefreshCopyStep => c.copy.meta \in Token
  /\ c.pc \in UnsentStep => c.sends = 0
  /\ c.pc = "send" => c.sends < MaxSends
  /\ c.why = "loginFailed" => c.pc \in {"deleteAccess", "deleteRefresh", "discard"}
  /\ c.why = "none" => c.pc \notin RemovalStep
  /\ c.pc = "revokeStored" => c.why = "logout"

LocalsOK == TypeOK /\ \A p \in Proc : LocalsReady(cmd[p])

(* The steps between acquiring and releasing the refresh lock. *)
Locked(c) ==
  \/ c.pc \in LockedStep
  \/ c.pc \in RemovalStep /\ c.why \in RefreshRemoval

(* One refresher at a time works on the stored credential. *)
LockHeld == \A p \in Proc : Locked(cmd[p]) => lock = p

-----------------------------------------------------------------------------
(* A token that may be sent under the operation on file, and no other: the
   newest of its session, or the one before it if that operation spent it. *)
Usable(t) ==
  t.sess \notin ended =>
    /\ \A r \in sent : r.tok.sess = t.sess => r.tok.gen <= t.gen
    /\ \A r \in sent : r.tok = t => pending = [tok |-> t, op |-> r.op]
    /\ \/ newest[t.sess] = t.gen
       \/ /\ newest[t.sess] = t.gen + 1
          /\ pending = [tok |-> t, op |-> rotatedBy[t.sess]]

(* A token that nobody has sent: it does not depend on the file. *)
Fresh(t) ==
  t.sess \notin ended =>
    /\ \A r \in sent : r.tok.sess = t.sess => r.tok.gen < t.gen
    /\ newest[t.sess] = t.gen

Working(c) == c.pc \in {"readAccess", "claim", "send", "wait"}
Claimed(c) == c.pc \in {"send", "wait"}
(* The pair's refresh token is about to be stored. *)
Storing(c) == c.pc \in {"storeRefresh", "loginAccess", "loginRefresh"}
LoggingIn(c) == c.pc \in {"loginAccess", "loginRefresh"}
(* The file is about to be removed. *)
Settling(c) ==
  \/ c.pc \in {"storeAccess", "loadMeta", "saveMeta", "settle", "dropClaim"}
  \/ c.pc \in RemovalStep /\ c.why = "denied"

(* Sessions the service has not created are unknown. *)
Known ==
  /\ \A s \in Session : s \notin issued => newest[s] = 0
  /\ \A r \in sent : r.tok.sess \in issued
  /\ refresh # NoToken => refresh.sess \in issued
  /\ \A p \in Proc : /\ Working(cmd[p]) => cmd[p].tok.sess \in issued
                     /\ Storing(cmd[p]) => cmd[p].pair.sess \in issued

StoredUsable == refresh # NoToken => Usable(refresh)

(* What the lock holder has read is still what is stored, unless a login has
   replaced it or a logout removed it. *)
WorkingUsable ==
  \A p \in Proc : Working(cmd[p]) =>
    /\ Usable(cmd[p].tok)
    /\ refresh \notin {NoToken, cmd[p].tok} =>
         refresh.sess # cmd[p].tok.sess /\ Fresh(refresh)

ClaimOnFile ==
  \A p \in Proc :
    Claimed(cmd[p]) => pending = [tok |-> cmd[p].tok, op |-> cmd[p].op]

StoringFresh == \A p \in Proc : Storing(cmd[p]) => Fresh(cmd[p].pair)

SettlingFresh ==
  \A p \in Proc : Settling(cmd[p]) /\ refresh # NoToken => Fresh(refresh)

(* Nobody else has a token of the session a login is about to store. *)
LoginPrivate ==
  \A p \in Proc : LoggingIn(cmd[p]) =>
    /\ \A r \in sent : r.tok.sess # cmd[p].pair.sess
    /\ refresh # NoToken => refresh.sess # cmd[p].pair.sess
    /\ \A q \in Proc \ {p} :
         /\ Working(cmd[q]) => cmd[q].tok.sess # cmd[p].pair.sess
         /\ Storing(cmd[q]) => cmd[q].pair.sess # cmd[p].pair.sess

ChainInv ==
  /\ Known
  /\ StoredUsable
  /\ WorkingUsable
  /\ ClaimOnFile
  /\ StoringFresh
  /\ SettlingFresh
  /\ LoginPrivate
  /\ OneOperationPerToken

(* The hypothesis under which the chain invariant holds: a refresh token is
   never presented at a deployment that does not know it.  Without it a stale
   save of config.toml can send a live token elsewhere, and the denial makes
   rvs drop the operation it still needs. *)
OneDeployment == \A s, t \in Session : Issuer[s] = Issuer[t]

IInv == LocalsOK /\ LockHeld /\ ChainInv

-----------------------------------------------------------------------------
(* Why the stored access token is never ahead of its refresh token.  This needs
   neither the service's answers to be kept apart nor one deployment. *)
NotNewer(s, t) == s # NoToken /\ t # NoToken /\ s.sess = t.sess => s.gen <= t.gen

(* The pair is about to be stored, or its refresh token just has been. *)
HasPair(c) == Storing(c) \/ c.pc = "storeAccess"

AccessKnown ==
  /\ access # NoToken => access.sess \in issued
  /\ refresh # NoToken => refresh.sess \in issued
  /\ \A p \in Proc : /\ Working(cmd[p]) => cmd[p].tok.sess \in issued
                     /\ HasPair(cmd[p]) => cmd[p].pair.sess \in issued

(* Until a login stores the refresh token of its session, nobody else has one. *)
LoginApart ==
  \A p \in Proc : LoggingIn(cmd[p]) =>
    /\ refresh # NoToken => refresh.sess # cmd[p].pair.sess
    /\ \A q \in Proc \ {p} :
         /\ Working(cmd[q]) => cmd[q].tok.sess # cmd[p].pair.sess
         /\ HasPair(cmd[q]) => cmd[q].pair.sess # cmd[p].pair.sess

(* What a command works on, stores or has half stored keeps the order. *)
InOrder ==
  \A p \in Proc :
    /\ Working(cmd[p]) => NotNewer(access, cmd[p].tok)
    /\ Storing(cmd[p]) => NotNewer(access, cmd[p].pair)
    /\ cmd[p].pc = "storeAccess" => NotNewer(cmd[p].pair, refresh)

AccessInv == AccessKnown /\ LoginApart /\ InOrder /\ AccessNotAhead

-----------------------------------------------------------------------------
(* Why the pending-operation file tells of every unfinished refresh, among
   refreshes.  A login writes a pair without the file, and a logout takes one
   away. *)
RefreshesOnly == Commands \subseteq {"refresh", "request"}

LoginStep == {"poll", "loginAccess", "loginRefresh", "loginMeta", "revokePrevious",
              "revokeStored"}
(* From the first request to the last write. *)
OpenStep == {"send", "wait", "storeRefresh", "storeAccess", "loadMeta", "saveMeta",
             "settle", "dropClaim"} \union RemovalStep
RefreshStored(c) == c.pc \in {"storeAccess", "loadMeta", "saveMeta", "settle"}
PairStored(c) == c.pc \in {"loadMeta", "saveMeta", "settle"}
DeniedStep(c) == c.pc = "dropClaim" \/ (c.pc \in RemovalStep /\ c.why = "denied")

OnlyRefreshing(c) == c.pc \notin LoginStep /\ c.why \notin {"loginFailed", "logout"}

(* What a refresh works on and has stored is still there, its operation is on
   file, and a session that was denied is over. *)
InJournal(c) ==
  /\ Working(c) => refresh = c.tok
  /\ c.pc \in OpenStep => pending # NoClaim
  /\ RefreshStored(c) => refresh = c.pair
  /\ PairStored(c) => access = c.pair
  /\ DeniedStep(c) /\ refresh # NoToken => refresh.sess \in ended

JournalInv ==
  /\ \A p \in Proc : OnlyRefreshing(cmd[p]) /\ InJournal(cmd[p])
  /\ NoClaimMeansWholePair
=============================================================================
