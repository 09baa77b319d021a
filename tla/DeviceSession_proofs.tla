------------------------ MODULE DeviceSession_proofs ------------------------
(***************************************************************************)
(* Theorems about DeviceSession, for every set of processes, sessions and  *)
(* deployments.  Each step of a process replaces one record of cmd and a   *)
(* few shared variables; the lemmas follow that division.  Last, that with *)
(* one deployment it implements RotationChain, whichever session is        *)
(* watched.                                                                *)
(***************************************************************************)
EXTENDS SessionAsChain, DeviceSessionInv, TLAPS

(* What the locals of a process satisfy in every state. *)
Good(c) == c \in CommandState /\ LocalsReady(c)

(* The effect of Become on the processes. *)
LEMMA Moved ==
  ASSUME cmd \in [Proc -> CommandState], NEW p \in Proc,
         NEW c \in CommandState, Become(p, c)
  PROVE  /\ cmd' \in [Proc -> CommandState]
         /\ cmd'[p] = c
         /\ \A q \in Proc \ {p} : cmd'[q] = cmd[q]
BY DEF Become

LEMMA IdleGood == Good(Idle)
<1>1. Idle \in CommandState
  BY DEF Idle, CommandState, FreeStep, MaybeToken, NoOp, MaxSends, Reason
<1>2. LocalsReady(Idle)
  BY DEF Idle, LocalsReady, UnsentStep, TokStep, PairStep, RefreshCopyStep, CopyStep, RemovalStep
<1> QED BY <1>1, <1>2 DEF Good

(* Beginning a command. *)
LEMMA BeginLocals ==
  ASSUME LocalsOK, NEW p \in Proc, Begin(p)
  PROVE  \E c : Good(c) /\ Become(p, c)
<1> USE DEF LocalsReady, TokStep, PairStep, RefreshCopyStep, CopyStep, RemovalStep, UnsentStep
<1>0. Good(cmd[p]) /\ access \in MaybeToken /\ refresh \in MaybeToken /\ cfg \in Profile
  BY DEF LocalsOK, TypeOK, SharedTypeOK, Good
<1>1. CASE BeginRefresh(p)
  <2> DEFINE c == [cmd[p] EXCEPT !.pc = "initial"]
  <2>1. c \in CommandState BY <1>0 DEF Good, CommandState, FreeStep
  <2>2. LocalsReady(c) BY <1>0, <1>1 DEF Good, CommandState, BeginRefresh, Starts, At
  <2> QED BY <1>1, <2>1, <2>2 DEF BeginRefresh, Goto, Good
<1>2. CASE BeginRequest(p)
  <2> DEFINE c == [cmd[p] EXCEPT !.pc = "initial", !.stale = access]
  <2>1. c \in CommandState BY <1>0 DEF Good, CommandState, FreeStep
  <2>2. LocalsReady(c) BY <1>0, <1>2 DEF Good, CommandState, BeginRequest, Starts, At
  <2> QED BY <1>2, <2>1, <2>2 DEF BeginRequest, Good
<1>3. CASE BeginLogin(p)
  <2>1. PICK t \in MaybeToken :
          Become(p, [cmd[p] EXCEPT !.pc = "poll", !.tok = t, !.copy = cfg])
    BY <1>0, <1>3 DEF BeginLogin, Reads, MaybeToken
  <2> DEFINE c == [cmd[p] EXCEPT !.pc = "poll", !.tok = t, !.copy = cfg]
  <2>2. c \in CommandState BY <1>0 DEF Good, CommandState, FreeStep
  <2>3. LocalsReady(c) BY <1>0, <1>3 DEF Good, CommandState, BeginLogin, Starts, At
  <2> QED BY <2>1, <2>2, <2>3 DEF Good
<1>4. CASE BeginLogout(p)
  <2> DEFINE d == [Idle EXCEPT !.pc = "deleteAccess", !.why = "logout"]
             c == [Idle EXCEPT !.pc = "revokeStored", !.why = "logout",
                               !.tok = refresh, !.copy = cfg]
  <2>0. Idle \in CommandState /\ LocalsReady(Idle) BY IdleGood DEF Good
  <2>1. CASE Become(p, d)
    <3>1. d \in CommandState BY <2>0 DEF CommandState, Reason, RemovalStep
    <3>2. LocalsReady(d) BY <2>0 DEF CommandState
    <3> QED BY <2>1, <3>1, <3>2 DEF Good
  <2>2. CASE refresh # NoToken /\ Become(p, c)
    <3>1. c \in CommandState BY <1>0, <2>0 DEF CommandState, Reason, FreeStep
    <3>2. c.pc = "revokeStored" /\ c.why = "logout" /\ c.tok \in Token /\ c.copy \in Profile
      BY <1>0, <2>0, <2>2 DEF CommandState, MaybeToken
    <3>3. LocalsReady(c) BY <3>2
    <3> QED BY <2>2, <3>1, <3>3 DEF Good
  <2> QED BY <1>4, <2>1, <2>2 DEF BeginLogout
<1> QED BY <1>1, <1>2, <1>3, <1>4 DEF Begin

(* Refreshing, up to the answer. *)
LEMMA AskLocals ==
  ASSUME LocalsOK, NEW p \in Proc,
         \/ ReadInitial(p) \/ Acquire(p) \/ LoadProfile(p) \/ ReadRefresh(p)
         \/ ReadAccess(p) \/ ClaimOperation(p) \/ ClaimFails(p) \/ Send(p)
         \/ AnsweredBusy(p) \/ Unanswered(p)
  PROVE  \E c : Good(c) /\ Become(p, c)
<1> USE DEF LocalsReady, TokStep, PairStep, RefreshCopyStep, CopyStep, RemovalStep, UnsentStep
<1>0. /\ Good(cmd[p])
      /\ access \in MaybeToken /\ refresh \in MaybeToken /\ cfg \in Profile
      /\ pending \in Claim \union {NoClaim} /\ lastOp \in Nat
  BY DEF LocalsOK, TypeOK, SharedTypeOK, Good
<1>1. CASE ReadInitial(p)
  <2>1. PICK t \in MaybeToken :
          Become(p, [cmd[p] EXCEPT !.pc = "acquire", !.initial = t])
    BY <1>0, <1>1 DEF ReadInitial, Reads, MaybeToken
  <2> DEFINE c == [cmd[p] EXCEPT !.pc = "acquire", !.initial = t]
  <2>2. c \in CommandState BY <1>0 DEF Good, CommandState, FreeStep
  <2>3. LocalsReady(c) BY <1>0, <1>1 DEF Good, CommandState, ReadInitial, At
  <2> QED BY <2>1, <2>2, <2>3 DEF Good
<1>2. CASE Acquire(p)
  <2> DEFINE c == [cmd[p] EXCEPT !.pc = "load"]
  <2>1. c \in CommandState BY <1>0 DEF Good, CommandState, LockedStep
  <2>2. LocalsReady(c) BY <1>0, <1>2 DEF Good, CommandState, Acquire, At
  <2> QED BY <1>2, <2>1, <2>2 DEF Acquire, Goto, Good
<1>3. CASE LoadProfile(p)
  <2> DEFINE c == [cmd[p] EXCEPT !.pc = "readRefresh", !.copy = cfg]
             d == [cmd[p] EXCEPT !.pc = "release"]
  <2>1. CASE Refreshable(cfg) /\ Become(p, c)
    <3>1. c \in CommandState BY <1>0 DEF Good, CommandState, LockedStep
    <3>2. cfg.meta \in Token BY <1>0, <2>1 DEF Refreshable, Profile
    <3>3. LocalsReady(c) BY <1>0, <1>3, <3>2 DEF Good, CommandState, LoadProfile, At
    <3> QED BY <2>1, <3>1, <3>3 DEF Good
  <2>2. CASE Become(p, d)
    <3>1. d \in CommandState BY <1>0 DEF Good, CommandState, LockedStep
    <3>2. LocalsReady(d) BY <1>0, <1>3 DEF Good, CommandState, LoadProfile, At
    <3> QED BY <2>2, <3>1, <3>2 DEF Good
  <2> QED BY <1>3, <2>1, <2>2 DEF LoadProfile, Goto
<1>4. CASE ReadRefresh(p)
  <2> DEFINE c == [cmd[p] EXCEPT !.pc = "readAccess", !.tok = refresh]
             d == [cmd[p] EXCEPT !.pc = "release"]
  <2>1. CASE refresh # NoToken /\ Become(p, c)
    <3>1. c \in CommandState BY <1>0 DEF Good, CommandState, LockedStep
    <3>2. refresh \in Token BY <1>0, <2>1 DEF MaybeToken
    <3>3. LocalsReady(c) BY <1>0, <1>4, <3>2 DEF Good, CommandState, ReadRefresh, At
    <3> QED BY <2>1, <3>1, <3>3 DEF Good
  <2>2. CASE Become(p, d)
    <3>1. d \in CommandState BY <1>0 DEF Good, CommandState, LockedStep
    <3>2. LocalsReady(d) BY <1>0, <1>4 DEF Good, CommandState, ReadRefresh, At
    <3> QED BY <2>2, <3>1, <3>2 DEF Good
  <2> QED BY <1>4, <2>1, <2>2 DEF ReadRefresh, Goto
<1>5. CASE ReadAccess(p)
  <2>1. PICK t \in MaybeToken :
          \/ Become(p, [cmd[p] EXCEPT !.pc = "release", !.result = t])
          \/ Become(p, [cmd[p] EXCEPT !.pc = "claim", !.stale = NoToken,
                                      !.initial = NoToken])
    BY <1>0, <1>5 DEF ReadAccess, Reads, MaybeToken
  <2> DEFINE c == [cmd[p] EXCEPT !.pc = "release", !.result = t]
             d == [cmd[p] EXCEPT !.pc = "claim", !.stale = NoToken, !.initial = NoToken]
  <2>2. c \in CommandState BY <1>0 DEF Good, CommandState, LockedStep
  <2>3. d \in CommandState BY <1>0 DEF Good, CommandState, LockedStep, MaybeToken
  <2>4. LocalsReady(c) BY <1>0, <1>5 DEF Good, CommandState, ReadAccess, At
  <2>5. LocalsReady(d) BY <1>0, <1>5 DEF Good, CommandState, ReadAccess, At
  <2> QED BY <2>1, <2>2, <2>3, <2>4, <2>5 DEF Good
<1>6. CASE ClaimOperation(p)
  <2> DEFINE kept == pending # NoClaim /\ pending.tok = cmd[p].tok
             n == IF kept THEN pending.op ELSE lastOp + 1
  <2>0. n \in Nat BY <1>0 DEF Claim
  <2>1. Become(p, [cmd[p] EXCEPT !.pc = "send", !.op = n])
    BY <1>6 DEF ClaimOperation
  <2> HIDE DEF n
  <2> DEFINE c == [cmd[p] EXCEPT !.pc = "send", !.op = n]
  <2>2. c \in CommandState BY <1>0, <2>0 DEF Good, CommandState, LockedStep
  <2>3. LocalsReady(c) BY <1>0, <1>6 DEF Good, CommandState, ClaimOperation, At, MaxSends
  <2> QED BY <2>1, <2>2, <2>3 DEF Good
<1>7. CASE ClaimFails(p)
  <2> DEFINE c == [cmd[p] EXCEPT !.pc = "release"]
  <2>1. c \in CommandState BY <1>0 DEF Good, CommandState, LockedStep
  <2>2. LocalsReady(c) BY <1>0, <1>7 DEF Good, CommandState, ClaimFails, At
  <2> QED BY <1>7, <2>1, <2>2 DEF ClaimFails, Goto, Good
<1>8. CASE Send(p)
  <2> DEFINE c == [cmd[p] EXCEPT !.pc = "wait", !.sends = @ + 1]
  <2>0. cmd[p].sends + 1 \in 0..MaxSends
    BY <1>0, <1>8 DEF Good, CommandState, MaxSends, Send, At
  <2>1. c \in CommandState BY <1>0, <2>0 DEF Good, CommandState, LockedStep
  <2>2. LocalsReady(c) BY <1>0, <1>8 DEF Good, CommandState, Send, At
  <2> QED BY <1>8, <2>1, <2>2 DEF Send, Good
<1>9. CASE AnsweredBusy(p)
  <2> DEFINE c == [cmd[p] EXCEPT !.pc = "send"]
  <2>1. c \in CommandState BY <1>0 DEF Good, CommandState, LockedStep
  <2>2. LocalsReady(c) BY <1>0, <1>9 DEF Good, CommandState, AnsweredBusy, At
  <2> QED BY <1>9, <2>1, <2>2 DEF AnsweredBusy, Goto, Good
<1>10. CASE Unanswered(p)
  <2> DEFINE c == [cmd[p] EXCEPT !.pc = "release"]
  <2>1. c \in CommandState BY <1>0 DEF Good, CommandState, LockedStep
  <2>2. LocalsReady(c) BY <1>0, <1>10 DEF Good, CommandState, Unanswered, At
  <2> QED BY <1>10, <2>1, <2>2 DEF Unanswered, Goto, Good
<1> QED BY <1>1, <1>2, <1>3, <1>4, <1>5, <1>6, <1>7, <1>8, <1>9, <1>10

(* Refreshing, from the answer on. *)
LEMMA StoreLocals ==
  ASSUME LocalsOK, NEW p \in Proc,
         \/ AnsweredPair(p) \/ AnsweredUnusable(p) \/ AnsweredDenied(p)
         \/ StoreFails(p) \/ StoreRefresh(p) \/ StoreAccess(p) \/ LoadMeta(p)
         \/ SaveMeta(p) \/ Settle(p) \/ Release(p) \/ SkipSync(p) \/ LoadSync(p)
         \/ SaveSync(p)
  PROVE  \E c : Good(c) /\ Become(p, c)
<1> USE DEF LocalsReady, TokStep, PairStep, RefreshCopyStep, CopyStep, RemovalStep, UnsentStep
<1>0. Good(cmd[p]) /\ cfg \in Profile
  BY DEF LocalsOK, TypeOK, SharedTypeOK, Good
<1>1. CASE AnsweredPair(p)
  <2> DEFINE c == [Idle EXCEPT !.pc = "storeRefresh", !.pair = NextPair(RequestOf(cmd[p]))]
  <2>0. NextPair(RequestOf(cmd[p])) \in Token
    <3>1. cmd[p].tok \in Token BY <1>0, <1>1 DEF Good, AnsweredPair, At
    <3> QED BY <3>1 DEF NextPair, RequestOf, Token
  <2>1. c \in CommandState BY IdleGood, <2>0 DEF Good, CommandState, LockedStep, MaybeToken
  <2>2. c.pc = "storeRefresh" /\ c.pair \in Token /\ c.why = "none"
    BY <2>0 DEF Idle
  <2>3. LocalsReady(c) BY <2>2
  <2> QED BY <1>1, <2>1, <2>3 DEF AnsweredPair, Good
<1>2. CASE AnsweredUnusable(p)
  <2> DEFINE c == [Idle EXCEPT !.pc = "deleteAccess", !.why = "unusable"]
  <2>1. c \in CommandState BY IdleGood DEF Good, CommandState, Reason, RefreshRemoval
  <2>2. LocalsReady(c) BY IdleGood DEF Good, CommandState
  <2> QED BY <1>2, <2>1, <2>2 DEF AnsweredUnusable, Good
<1>3. CASE AnsweredDenied(p)
  <2> DEFINE c == [Idle EXCEPT !.pc = "deleteAccess", !.why = "denied"]
  <2>1. c \in CommandState BY IdleGood DEF Good, CommandState, Reason, RefreshRemoval
  <2>2. LocalsReady(c) BY IdleGood DEF Good, CommandState
  <2> QED BY <1>3, <2>1, <2>2 DEF AnsweredDenied, Good
<1>4. CASE StoreFails(p)
  <2> DEFINE c == [cmd[p] EXCEPT !.pc = "discard", !.why = "partial"]
  <2>0. cmd[p].pair \in Token BY <1>0, <1>4 DEF Good, StoreFails
  <2>1. c \in CommandState BY <1>0, <2>0 DEF Good, CommandState, Reason, RefreshRemoval
  <2>2. c.pc = "discard" /\ c.why = "partial" /\ c.pair = cmd[p].pair
    BY <1>0 DEF Good, CommandState
  <2>3. LocalsReady(c) BY <2>0, <2>2
  <2> QED BY <1>4, <2>1, <2>3 DEF StoreFails, Good
<1>5. CASE StoreRefresh(p)
  <2> DEFINE c == [cmd[p] EXCEPT !.pc = "storeAccess"]
  <2>1. c \in CommandState BY <1>0 DEF Good, CommandState, LockedStep
  <2>2. LocalsReady(c) BY <1>0, <1>5 DEF Good, CommandState, StoreRefresh, At
  <2> QED BY <1>5, <2>1, <2>2 DEF StoreRefresh, Goto, Good
<1>6. CASE StoreAccess(p)
  <2> DEFINE c == [cmd[p] EXCEPT !.pc = "loadMeta"]
  <2>1. c \in CommandState BY <1>0 DEF Good, CommandState, LockedStep
  <2>2. LocalsReady(c) BY <1>0, <1>6 DEF Good, CommandState, StoreAccess, At
  <2> QED BY <1>6, <2>1, <2>2 DEF StoreAccess, Goto, Good
<1>7. CASE LoadMeta(p)
  <2> DEFINE c == [cmd[p] EXCEPT !.pc = "saveMeta", !.copy = cfg]
  <2>1. c \in CommandState BY <1>0 DEF Good, CommandState, LockedStep
  <2>2. LocalsReady(c) BY <1>0, <1>7 DEF Good, CommandState, LoadMeta, At
  <2> QED BY <1>7, <2>1, <2>2 DEF LoadMeta, Good
<1>8. CASE SaveMeta(p)
  <2> DEFINE c == [cmd[p] EXCEPT !.pc = "settle"]
  <2>1. c \in CommandState BY <1>0 DEF Good, CommandState, LockedStep
  <2>2. LocalsReady(c) BY <1>0, <1>8 DEF Good, CommandState, SaveMeta, At
  <2> QED BY <1>8, <2>1, <2>2 DEF SaveMeta, Goto, Good
<1>9. CASE Settle(p)
  <2> DEFINE c == [cmd[p] EXCEPT !.pc = "release", !.result = cmd[p].pair]
  <2>1. c \in CommandState BY <1>0 DEF Good, CommandState, LockedStep
  <2>2. LocalsReady(c) BY <1>0, <1>9 DEF Good, CommandState, Settle, At
  <2> QED BY <1>9, <2>1, <2>2 DEF Settle, Good
<1>10. CASE Release(p)
  <2> DEFINE c == [cmd[p] EXCEPT !.pc = "loadSync"]
  <2>1. c \in CommandState BY <1>0 DEF Good, CommandState, FreeStep
  <2>2. LocalsReady(c) BY <1>0, <1>10 DEF Good, CommandState, Release, At
  <2> QED BY <1>10, <2>1, <2>2, IdleGood DEF Release, Goto, Finish, Good
<1>11. CASE SkipSync(p)
  <2> QED BY <1>11, IdleGood DEF SkipSync, Finish
<1>12. CASE LoadSync(p)
  <2> DEFINE c == [cmd[p] EXCEPT !.pc = "saveSync", !.copy = cfg]
  <2>1. c \in CommandState BY <1>0 DEF Good, CommandState, FreeStep
  <2>2. LocalsReady(c) BY <1>0, <1>12 DEF Good, CommandState, LoadSync, At
  <2> QED BY <1>12, <2>1, <2>2 DEF LoadSync, Good
<1>13. CASE SaveSync(p)
  <2> QED BY <1>13, IdleGood DEF SaveSync, Finish
<1> QED BY <1>1, <1>2, <1>3, <1>4, <1>5, <1>6, <1>7, <1>8, <1>9, <1>10, <1>11, <1>12, <1>13

(* Removing the stored credential. *)
LEMMA RemoveLocals ==
  ASSUME LocalsOK, NEW p \in Proc,
         Removing(p)
  PROVE  \E c : Good(c) /\ Become(p, c)
<1> USE DEF LocalsReady, TokStep, PairStep, RefreshCopyStep, CopyStep, RemovalStep, UnsentStep
<1>0. Good(cmd[p]) /\ cfg \in Profile
  BY DEF LocalsOK, TypeOK, SharedTypeOK, Good
<1>1. CASE Discard(p)
  <2> DEFINE c == [cmd[p] EXCEPT !.pc = "deleteAccess"]
  <2>1. c \in CommandState BY <1>0 DEF Good, CommandState
  <2>2. LocalsReady(c) BY <1>0, <1>1 DEF Good, CommandState, Discard, At
  <2> QED BY <1>1, <2>1, <2>2, IdleGood DEF Discard, Goto, Finish, Good
<1>2. CASE DeleteAccess(p)
  <2> DEFINE c == [cmd[p] EXCEPT !.pc = "deleteRefresh"]
  <2>1. c \in CommandState BY <1>0 DEF Good, CommandState, RemovalStep
  <2>2. LocalsReady(c) BY <1>0, <1>2 DEF Good, CommandState, DeleteAccess, At
  <2> QED BY <1>2, <2>1, <2>2 DEF DeleteAccess, Goto, Good
<1>3. CASE DeleteRefresh(p)
  <2> DEFINE s == IF cmd[p].why = "loginFailed" THEN "discard" ELSE "loadClear"
             c == [cmd[p] EXCEPT !.pc = s]
  <2>1. c \in CommandState BY <1>0 DEF Good, CommandState
  <2>2. LocalsReady(c) BY <1>0, <1>3 DEF Good, CommandState, DeleteRefresh, At
  <2> QED BY <1>3, <2>1, <2>2 DEF DeleteRefresh, Goto, Good
<1>4. CASE LoadClear(p)
  <2> DEFINE c == [cmd[p] EXCEPT !.pc = "saveClear", !.copy = cfg]
  <2>1. c \in CommandState BY <1>0 DEF Good, CommandState, RemovalStep
  <2>2. LocalsReady(c) BY <1>0, <1>4 DEF Good, CommandState, LoadClear, At
  <2> QED BY <1>4, <2>1, <2>2 DEF LoadClear, Good
<1>5. CASE SaveClear(p)
  <2> DEFINE s == AfterClear(cmd[p].why)
             c == [cmd[p] EXCEPT !.pc = s]
  <2>0. s \in {"dropClaim", "release", "idle"} BY DEF AfterClear
  <2>1. CASE s = "idle"
    <3> QED BY <1>5, <2>1, IdleGood DEF SaveClear, Finish
  <2>2. CASE s # "idle"
    <3>1. c \in CommandState BY <1>0, <2>0, <2>2 DEF Good, CommandState, LockedStep
    <3>2. LocalsReady(c) BY <1>0, <1>5, <2>0, <2>2 DEF Good, CommandState, SaveClear, At
    <3> QED BY <1>5, <2>2, <3>1, <3>2 DEF SaveClear, Goto, Good
  <2> QED BY <2>1, <2>2
<1>6. CASE DropClaim(p)
  <2> DEFINE c == [cmd[p] EXCEPT !.pc = "release"]
  <2>1. c \in CommandState BY <1>0 DEF Good, CommandState, LockedStep
  <2>2. LocalsReady(c) BY <1>0, <1>6 DEF Good, CommandState, DropClaim, At
  <2> QED BY <1>6, <2>1, <2>2 DEF DropClaim, Goto, Good
<1> QED BY <1>1, <1>2, <1>3, <1>4, <1>5, <1>6 DEF Removing

(* Logging in and out. *)
LEMMA LoginLocals ==
  ASSUME LocalsOK, NEW p \in Proc,
         LoggingInOrOut(p)
  PROVE  \E c : Good(c) /\ Become(p, c)
<1> USE DEF LocalsReady, TokStep, PairStep, RefreshCopyStep, CopyStep, RemovalStep, UnsentStep
<1>0. Good(cmd[p])
  BY DEF LocalsOK, TypeOK, SharedTypeOK, Good
<1>1. CASE Approved(p)
  <2>1. PICK s \in Session :
          Become(p, [cmd[p] EXCEPT !.pc = "loginAccess",
                                  !.pair = [sess |-> s, gen |-> 0]])
    BY <1>1 DEF Approved
  <2> DEFINE first == [sess |-> s, gen |-> 0]
             c == [cmd[p] EXCEPT !.pc = "loginAccess", !.pair = first]
  <2>2. first \in Token BY DEF Token
  <2> HIDE DEF first
  <2>3. c \in CommandState BY <1>0, <2>2 DEF Good, CommandState, FreeStep, MaybeToken
  <2>4. LocalsReady(c) BY <1>0, <1>1, <2>2 DEF Good, CommandState, Approved, At
  <2> QED BY <2>1, <2>3, <2>4 DEF Good, first
<1>2. CASE NotApproved(p)
  <2> QED BY <1>2, IdleGood DEF NotApproved, Finish
<1>3. CASE LoginStoreFails(p)
  <2> DEFINE c == [cmd[p] EXCEPT !.pc = "deleteAccess", !.why = "loginFailed"]
  <2>0. cmd[p].pair \in Token BY <1>0, <1>3 DEF Good, LoginStoreFails
  <2>1. c \in CommandState BY <1>0, <2>0 DEF Good, CommandState, Reason
  <2>2. LocalsReady(c) BY <1>0, <1>3, <2>0 DEF Good, CommandState, LoginStoreFails, At
  <2> QED BY <1>3, <2>1, <2>2 DEF LoginStoreFails, Good
<1>4. CASE LoginAccess(p)
  <2> DEFINE c == [cmd[p] EXCEPT !.pc = "loginRefresh"]
  <2>1. c \in CommandState BY <1>0 DEF Good, CommandState, FreeStep
  <2>2. LocalsReady(c) BY <1>0, <1>4 DEF Good, CommandState, LoginAccess, At
  <2> QED BY <1>4, <2>1, <2>2 DEF LoginAccess, Goto, Good
<1>5. CASE LoginRefresh(p)
  <2> DEFINE c == [cmd[p] EXCEPT !.pc = "loginMeta"]
  <2>1. c \in CommandState BY <1>0 DEF Good, CommandState, FreeStep
  <2>2. LocalsReady(c) BY <1>0, <1>5 DEF Good, CommandState, LoginRefresh, At
  <2> QED BY <1>5, <2>1, <2>2 DEF LoginRefresh, Goto, Good
<1>6. CASE LoginMeta(p)
  <2> DEFINE s == IF cmd[p].tok = NoToken THEN "loadSync" ELSE "revokePrevious"
             c == [cmd[p] EXCEPT !.pc = s]
  <2>1. c \in CommandState BY <1>0 DEF Good, CommandState, FreeStep
  <2>2. s = "revokePrevious" => cmd[p].tok \in Token
    BY <1>0 DEF Good, CommandState, MaybeToken
  <2>3. LocalsReady(c) BY <1>0, <1>6, <2>2 DEF Good, CommandState, LoginMeta, At
  <2> QED BY <1>6, <2>1, <2>3 DEF LoginMeta, Goto, Good
<1>7. CASE RevokePrevious(p)
  <2> DEFINE c == [cmd[p] EXCEPT !.pc = "loadSync"]
  <2>1. c \in CommandState BY <1>0 DEF Good, CommandState, FreeStep
  <2>2. LocalsReady(c) BY <1>0, <1>7 DEF Good, CommandState, RevokePrevious, At
  <2> QED BY <1>7, <2>1, <2>2 DEF RevokePrevious, Goto, Good
<1>8. CASE RevokeStored(p)
  <2> DEFINE c == [cmd[p] EXCEPT !.pc = "deleteAccess"]
  <2>1. c \in CommandState BY <1>0 DEF Good, CommandState, RemovalStep
  <2>2. LocalsReady(c) BY <1>0, <1>8 DEF Good, CommandState, RevokeStored, At
  <2> QED BY <1>8, <2>1, <2>2 DEF RevokeStored, Goto, Good
<1> QED BY <1>1, <1>2, <1>3, <1>4, <1>5, <1>6, <1>7, <1>8 DEF LoggingInOrOut

(* Every step of a process replaces its locals by good ones. *)
LEMMA StepLocals ==
  ASSUME LocalsOK, NEW p \in Proc, Begin(p) \/ Run(p) \/ Crash(p)
  PROVE  \E c : Good(c) /\ Become(p, c)
<1>1. Crash(p) => Become(p, Idle) BY DEF Crash, Finish
<1> QED BY <1>1, BeginLocals, AskLocals, StoreLocals, RemoveLocals, LoginLocals,
           IdleGood DEF Run, Refreshing

(* ... and keeps the shared state well typed. *)
LEMMA StepShared ==
  ASSUME LocalsOK, NEW p \in Proc, Begin(p) \/ Run(p) \/ Crash(p)
  PROVE  ServerTypeOK' /\ SharedTypeOK'
<1> USE DEF SharedTypeOK, ServerTypeOK, storeVars, serverVars, At
<1>0. /\ ServerTypeOK /\ SharedTypeOK
      /\ Good(cmd[p])
  BY DEF LocalsOK, TypeOK, SharedTypeOK, Good
<1>1. /\ cmd[p].pc \in TokStep => cmd[p].tok \in Token
      /\ cmd[p].pc \in PairStep => cmd[p].pair \in Token
      /\ cmd[p].pc \in CopyStep => cmd[p].copy \in Profile
      /\ cmd[p].pc \in RefreshCopyStep => cmd[p].copy.meta \in Token
      /\ cmd[p].op \in Nat
  BY <1>0 DEF Good, LocalsReady, CommandState
<1>2. CASE Begin(p)
  <2>1. /\ started' = started + 1
        /\ UNCHANGED <<storeVars, cfg, pending, lock, sent, lastOp, serverVars>>
    BY <1>2 DEF Begin, BeginRefresh, BeginRequest, BeginLogin, BeginLogout, Starts
  <2> QED BY <1>0, <2>1
<1>3. CASE \/ ReadInitial(p) \/ LoadProfile(p) \/ ReadRefresh(p) \/ ReadAccess(p)
           \/ ClaimFails(p) \/ AnsweredBusy(p) \/ Unanswered(p) \/ AnsweredDenied(p)
           \/ StoreFails(p) \/ LoadMeta(p) \/ SkipSync(p) \/ LoadSync(p)
           \/ LoadClear(p) \/ NotApproved(p) \/ LoginStoreFails(p)
  BY <1>0, <1>3 DEF ReadInitial, LoadProfile, ReadRefresh, ReadAccess, ClaimFails,
     AnsweredBusy, Unanswered, AnsweredDenied, StoreFails, LoadMeta, SkipSync,
     LoadSync, LoadClear, NotApproved, LoginStoreFails
<1>4. CASE Acquire(p) \/ Release(p) \/ Crash(p)
  BY <1>0, <1>4 DEF Acquire, Release, Crash
<1>5. CASE ClaimOperation(p)
  <2>1. cmd[p].tok \in Token BY <1>1, <1>5 DEF ClaimOperation, TokStep
  <2>2. pending' \in Claim \union {NoClaim} /\ lastOp' \in Nat
    BY <1>0, <1>5, <2>1 DEF ClaimOperation, Claim
  <2> QED BY <1>0, <1>5, <2>2 DEF ClaimOperation
<1>6. CASE Send(p)
  <2>1. RequestOf(cmd[p]) \in Request
    <3>1. /\ cmd[p].tok \in Token
          /\ cmd[p].copy \in Profile
          /\ cmd[p].copy.meta \in Token
      BY <1>1, <1>6 DEF Send, TokStep, CopyStep, RefreshCopyStep
    <3>2. OriginUrl(cmd[p].copy) \in Origin
      BY <3>1, IssuerAssumption DEF OriginUrl, Profile, Token
    <3> QED BY <1>1, <3>1, <3>2 DEF RequestOf, Request
  <2> QED BY <1>0, <1>6, <2>1 DEF Send
<1>7. CASE AnsweredPair(p) \/ AnsweredUnusable(p)
  <2>1. cmd[p].tok \in Token
    BY <1>1, <1>7 DEF AnsweredPair, AnsweredUnusable, TokStep
  <2>2. ServerTypeOK'
    BY <1>0, <1>1, <1>7, <2>1
       DEF AnsweredPair, AnsweredUnusable, Handle, RequestOf, Token
  <2> QED BY <1>0, <1>7, <2>2 DEF AnsweredPair, AnsweredUnusable
<1>8. CASE \/ StoreRefresh(p) \/ StoreAccess(p) \/ LoginAccess(p) \/ LoginRefresh(p)
  BY <1>0, <1>1, <1>8
     DEF StoreRefresh, StoreAccess, LoginAccess, LoginRefresh, PairStep, MaybeToken
<1>9. CASE SaveMeta(p) \/ SaveSync(p) \/ SaveClear(p) \/ LoginMeta(p)
  <2>1. cfg' \in Profile
    BY <1>1, <1>9, IssuerAssumption
       DEF SaveMeta, SaveSync, SaveClear, LoginMeta, PairStep, CopyStep, Profile, Token
  <2> QED BY <1>0, <1>9, <2>1 DEF SaveMeta, SaveSync, SaveClear, LoginMeta
<1>10. CASE Settle(p) \/ DropClaim(p)
  BY <1>0, <1>10 DEF Settle, DropClaim
<1>11. CASE DeleteAccess(p) \/ DeleteRefresh(p)
  BY <1>0, <1>11 DEF DeleteAccess, DeleteRefresh, Deletes, MaybeToken
<1>12. CASE Discard(p) \/ RevokePrevious(p) \/ RevokeStored(p)
  <2>1. \E t, o : Revoke(t, o)
    BY <1>12 DEF Discard, RevokePrevious, RevokeStored
  <2> QED BY <1>0, <1>12, <2>1 DEF Discard, RevokePrevious, RevokeStored, Revoke
<1>13. CASE Approved(p)
  BY <1>0, <1>13 DEF Approved, Issue
<1> QED BY <1>2, <1>3, <1>4, <1>5, <1>6, <1>7, <1>8, <1>9, <1>10, <1>11, <1>12,
           <1>13 DEF Run, Refreshing, Removing, LoggingInOrOut

(* What the service and the user do leaves the processes alone. *)
LEMMA EnvironmentLocals ==
  ASSUME LocalsOK, Environment
  PROVE  LocalsOK'
<1> USE DEF SharedTypeOK, ServerTypeOK, storeVars, serverVars
<1>0. ServerTypeOK /\ SharedTypeOK
  BY DEF LocalsOK, TypeOK
<1>1. UNCHANGED cmd
  BY DEF Environment, ArriveLate, ServerEnds, EditApi
<1>2. ASSUME NEW r \in sent, ArriveLate(r) PROVE ServerTypeOK' /\ SharedTypeOK'
  <2>1. r.tok \in Token /\ r.op \in Nat BY <1>0 DEF Request
  <2>2. ServerTypeOK' BY <1>0, <1>2, <2>1 DEF ArriveLate, Handle, Token
  <2> QED BY <1>0, <1>2, <2>2 DEF ArriveLate
<1>3. ASSUME NEW s \in Session, ServerEnds(s) PROVE ServerTypeOK' /\ SharedTypeOK'
  BY <1>0, <1>3 DEF ServerEnds, EndSession
<1>4. ASSUME NEW o \in Origin, EditApi(o) PROVE ServerTypeOK' /\ SharedTypeOK'
  BY <1>0, <1>4 DEF EditApi, Profile
<1> QED BY <1>1, <1>2, <1>3, <1>4 DEF Environment, LocalsOK, TypeOK

LEMMA LocalsInit == Init => LocalsOK
<1> SUFFICES ASSUME Init PROVE LocalsOK
  OBVIOUS
<1>1. ServerTypeOK /\ SharedTypeOK
  BY IssuerAssumption DEF Init, ServerInit, ServerTypeOK, SharedTypeOK, NoOp, Token,
     MaybeToken, Profile
<1> QED BY <1>1, IdleGood DEF Init, LocalsOK, TypeOK, Good

LEMMA LocalsNext == LocalsOK /\ [Next]_vars => LocalsOK'
<1> SUFFICES ASSUME LocalsOK, [Next]_vars PROVE LocalsOK'
  OBVIOUS
<1>1. ASSUME NEW p \in Proc, Begin(p) \/ Run(p) \/ Crash(p) PROVE LocalsOK'
  <2>1. PICK c : Good(c) /\ Become(p, c)
    BY <1>1, StepLocals
  <2>2. /\ cmd' \in [Proc -> CommandState]
        /\ cmd'[p] = c
        /\ \A q \in Proc \ {p} : cmd'[q] = cmd[q]
    BY <2>1, Moved DEF Good, LocalsOK, TypeOK
  <2> QED BY <1>1, <2>1, <2>2, StepShared DEF LocalsOK, TypeOK, Good
<1>2. CASE Environment
  BY <1>2, EnvironmentLocals
<1>3. CASE UNCHANGED vars
  BY <1>3 DEF vars, storeVars, LocalsOK, TypeOK, SharedTypeOK, ServerTypeOK
<1> QED BY <1>1, <1>2, <1>3 DEF Next

(* Every local of a command and every shared variable has its type, in every
   state, and a token, a pair or a copy of the profile is there wherever the
   code goes on to use it (credentials.py, device.py). *)
THEOREM LocalsCorrect == Spec => []LocalsOK
BY LocalsInit, LocalsNext, PTL DEF Spec

THEOREM TypeCorrect == Spec => []TypeOK
<1>1. LocalsOK => TypeOK BY DEF LocalsOK
<1> QED BY <1>1, LocalsCorrect, PTL

-----------------------------------------------------------------------------
(* The fields the chain invariant looks at. *)
Keeps(c, d) == d.tok = c.tok /\ d.op = c.op /\ d.pair = c.pair /\ d.why = c.why

LEMMA GotoFields ==
  ASSUME LocalsOK, NEW p \in Proc, NEW s, Goto(p, s)
  PROVE  cmd'[p].pc = s /\ Keeps(cmd[p], cmd'[p])
BY DEF LocalsOK, TypeOK, Goto, Become, CommandState, Keeps

LEMMA NoteFields ==
  ASSUME LocalsOK, NEW p \in Proc, NEW s, NEW x,
         \/ Become(p, [cmd[p] EXCEPT !.pc = s, !.stale = x])
         \/ Become(p, [cmd[p] EXCEPT !.pc = s, !.initial = x])
         \/ Become(p, [cmd[p] EXCEPT !.pc = s, !.stale = x, !.initial = x])
         \/ Become(p, [cmd[p] EXCEPT !.pc = s, !.result = x])
         \/ Become(p, [cmd[p] EXCEPT !.pc = s, !.copy = x])
  PROVE  cmd'[p].pc = s /\ Keeps(cmd[p], cmd'[p])
<1>0. cmd \in [Proc -> CommandState] BY DEF LocalsOK, TypeOK
<1>1. CASE Become(p, [cmd[p] EXCEPT !.pc = s, !.stale = x])
  BY <1>0, <1>1 DEF Become, CommandState, Keeps
<1>2. CASE Become(p, [cmd[p] EXCEPT !.pc = s, !.initial = x])
  BY <1>0, <1>2 DEF Become, CommandState, Keeps
<1>3. CASE Become(p, [cmd[p] EXCEPT !.pc = s, !.stale = x, !.initial = x])
  BY <1>0, <1>3 DEF Become, CommandState, Keeps
<1>4. CASE Become(p, [cmd[p] EXCEPT !.pc = s, !.result = x])
  BY <1>0, <1>4 DEF Become, CommandState, Keeps
<1>5. CASE Become(p, [cmd[p] EXCEPT !.pc = s, !.copy = x])
  BY <1>0, <1>5 DEF Become, CommandState, Keeps
<1> QED BY <1>1, <1>2, <1>3, <1>4, <1>5

LEMMA FinishFields ==
  ASSUME LocalsOK, NEW p \in Proc, Finish(p)
  PROVE  cmd'[p].pc = "idle"
BY DEF LocalsOK, TypeOK, Finish, Become, Idle

(* A step from c to d that does not bring a process closer to the store. *)
Lessens(c, d) ==
  /\ Working(d) => Working(c) /\ d.tok = c.tok
  /\ Claimed(d) => Claimed(c) /\ d.op = c.op
  /\ Storing(d) => Storing(c) /\ d.pair = c.pair
  /\ LoggingIn(d) => LoggingIn(c)
  /\ Settling(d) => Settling(c)
  /\ d.pc = "storeAccess" => c.pc = "storeAccess" /\ d.pair = c.pair

(* A step of p that the chain invariant hardly notices. *)
Quiet(p) ==
  /\ refresh' \in {refresh, NoToken}
  /\ ended \subseteq ended'
  /\ UNCHANGED <<pending, sent, issued, newest, rotatedBy>>
  /\ Lessens(cmd[p], cmd'[p])

LEMMA QuietSteps ==
  ASSUME LocalsOK, NEW p \in Proc,
         \/ Begin(p) \/ ReadInitial(p) \/ Acquire(p) \/ LoadProfile(p)
         \/ ReadAccess(p) \/ ClaimFails(p) \/ AnsweredBusy(p) \/ Unanswered(p)
         \/ StoreFails(p) \/ StoreAccess(p) \/ LoadMeta(p) \/ SaveMeta(p)
         \/ Release(p) \/ SkipSync(p) \/ LoadSync(p) \/ SaveSync(p) \/ Discard(p)
         \/ DeleteAccess(p) \/ DeleteRefresh(p) \/ LoadClear(p) \/ SaveClear(p)
         \/ NotApproved(p) \/ LoginStoreFails(p) \/ LoginAccess(p) \/ LoginMeta(p)
         \/ RevokePrevious(p) \/ RevokeStored(p) \/ Crash(p)
  PROVE  Quiet(p) /\ (Locked(cmd'[p]) => Locked(cmd[p]) \/ Acquire(p))
<1> DEFINE Goal == Lessens(cmd[p], cmd'[p])
                   /\ (Locked(cmd'[p]) => Locked(cmd[p]) \/ Acquire(p))
<1>0. cmd \in [Proc -> CommandState]
  BY DEF LocalsOK, TypeOK
<1>a. /\ refresh' \in {refresh, NoToken}
      /\ ended \subseteq ended'
      /\ UNCHANGED <<pending, sent, issued, newest, rotatedBy>>
  <2> USE DEF storeVars, serverVars
  <2>1. CASE Begin(p)
    BY <2>1 DEF Begin, BeginRefresh, BeginRequest, BeginLogin, BeginLogout
  <2>2. CASE \/ ReadInitial(p) \/ Acquire(p) \/ LoadProfile(p) \/ ReadAccess(p)
             \/ ClaimFails(p) \/ AnsweredBusy(p) \/ Unanswered(p) \/ StoreFails(p)
             \/ StoreAccess(p) \/ LoadMeta(p) \/ SaveMeta(p) \/ Release(p)
    BY <2>2 DEF ReadInitial, Acquire, LoadProfile, ReadAccess, ClaimFails, AnsweredBusy,
       Unanswered, StoreFails, StoreAccess, LoadMeta, SaveMeta, Release
  <2>3. CASE \/ SkipSync(p) \/ LoadSync(p) \/ SaveSync(p) \/ DeleteAccess(p)
             \/ DeleteRefresh(p) \/ LoadClear(p) \/ SaveClear(p) \/ NotApproved(p)
             \/ LoginStoreFails(p) \/ LoginAccess(p) \/ LoginMeta(p) \/ Crash(p)
    BY <2>3 DEF SkipSync, LoadSync, SaveSync, DeleteAccess, DeleteRefresh, Deletes,
       LoadClear, SaveClear, NotApproved, LoginStoreFails, LoginAccess, LoginMeta, Crash
  <2>4. CASE Discard(p) \/ RevokePrevious(p) \/ RevokeStored(p)
    BY <2>4 DEF Discard, RevokePrevious, RevokeStored, Revoke
  <2> QED BY <2>1, <2>2, <2>3, <2>4
<1>b. (cmd'[p].pc \in {"idle", "initial", "poll", "revokeStored", "acquire", "loadSync",
                       "saveSync", "loginMeta", "revokePrevious"}) => Goal
  BY DEF Lessens, Working, Claimed, Storing, LoggingIn, Settling, Locked, LockedStep,
     RemovalStep
<1> USE DEF Keeps, Lessens, Working, Claimed, Storing, LoggingIn, Settling,
       Locked, LockedStep, RemovalStep
<1> SUFFICES Goal BY <1>a DEF Quiet
<1> DEFINE Moves(from, to) ==
      cmd[p].pc = from /\ cmd'[p].pc = to /\ Keeps(cmd[p], cmd'[p])
<1>1. CASE Begin(p)
  <2>1. CASE BeginRefresh(p)
    <3>1. cmd'[p].pc = "initial" BY <2>1, GotoFields DEF BeginRefresh
    <3> QED BY <3>1, <1>b
  <2>2. CASE BeginRequest(p)
    <3>1. cmd'[p].pc = "initial" BY <2>2, NoteFields DEF BeginRequest
    <3> QED BY <3>1, <1>b
  <2>3. CASE BeginLogin(p)
    <3>1. cmd'[p].pc = "poll" BY <1>0, <2>3 DEF BeginLogin, Become, CommandState
    <3> QED BY <3>1, <1>b
  <2>4. CASE BeginLogout(p)
    <3>1. cmd'[p].pc \in {"deleteAccess", "revokeStored"} /\ cmd'[p].why = "logout"
      BY <1>0, <2>4 DEF BeginLogout, Become, Idle
    <3> QED BY <3>1 DEF RefreshRemoval
  <2> QED BY <1>1, <2>1, <2>2, <2>3, <2>4 DEF Begin
<1>2. CASE ReadInitial(p)
  <2>1. Moves("initial", "acquire")
    BY <1>2, NoteFields DEF ReadInitial, At
  <2> QED BY <2>1, <1>b
<1>3. CASE Acquire(p)
  <2>1. Moves("acquire", "load")
    BY <1>3, GotoFields DEF Acquire, At
  <2> QED BY <1>3, <2>1, <1>b
<1>4. CASE LoadProfile(p)
  <2>1. CASE Goto(p, "release")
    <3>1. Moves("load", "release") BY <1>4, <2>1, GotoFields DEF LoadProfile, At
    <3> QED BY <3>1
  <2>2. CASE Become(p, [cmd[p] EXCEPT !.pc = "readRefresh", !.copy = cfg])
    <3>1. Moves("load", "readRefresh") BY <1>4, <2>2, NoteFields DEF LoadProfile, At
    <3> QED BY <3>1
  <2> QED BY <1>4, <2>1, <2>2 DEF LoadProfile
<1>5. CASE ReadAccess(p)
  <2>1. Moves("readAccess", "release") \/ Moves("readAccess", "claim")
    BY <1>5, NoteFields DEF ReadAccess, At
  <2> QED BY <2>1
<1>6. CASE ClaimFails(p)
  <2>1. Moves("claim", "release")
    BY <1>6, GotoFields DEF ClaimFails, At
  <2> QED BY <2>1, <1>b
<1>7. CASE AnsweredBusy(p)
  <2>1. Moves("wait", "send")
    BY <1>7, GotoFields DEF AnsweredBusy, At
  <2> QED BY <2>1, <1>b
<1>8. CASE Unanswered(p)
  <2>1. Moves("wait", "release")
    BY <1>8, GotoFields DEF Unanswered, At
  <2> QED BY <2>1, <1>b
<1>9. CASE StoreFails(p)
  <2>1. cmd[p].pc \in LockedStep /\ cmd'[p].pc = "discard" /\ cmd'[p].why = "partial"
    BY <1>0, <1>9 DEF StoreFails, Become, CommandState, LockedStep
  <2> QED BY <2>1
<1>10. CASE StoreAccess(p)
  <2>1. Moves("storeAccess", "loadMeta")
    BY <1>10, GotoFields DEF StoreAccess, At
  <2> QED BY <2>1, <1>b
<1>11. CASE LoadMeta(p)
  <2>1. Moves("loadMeta", "saveMeta")
    BY <1>11, NoteFields DEF LoadMeta, At
  <2> QED BY <2>1, <1>b
<1>12. CASE SaveMeta(p)
  <2>1. Moves("saveMeta", "settle")
    BY <1>12, GotoFields DEF SaveMeta, At
  <2> QED BY <2>1, <1>b
<1>13. CASE Release(p)
  <2>1. cmd'[p].pc \in {"loadSync", "idle"}
    BY <1>13, GotoFields, FinishFields DEF Release
  <2> QED BY <2>1, <1>b
<1>14. CASE SkipSync(p)
  BY <1>14, <1>b, FinishFields DEF SkipSync
<1>15. CASE LoadSync(p)
  <2>1. Moves("loadSync", "saveSync")
    BY <1>15, NoteFields DEF LoadSync, At
  <2> QED BY <2>1, <1>b
<1>16. CASE SaveSync(p)
  BY <1>16, <1>b, FinishFields DEF SaveSync
<1>17. CASE Discard(p)
  <2>1. CASE Finish(p) BY <2>1, <1>b, FinishFields
  <2>2. CASE Goto(p, "deleteAccess")
    <3>1. Moves("discard", "deleteAccess") BY <1>17, <2>2, GotoFields DEF Discard, At
    <3> QED BY <3>1
  <2> QED BY <1>17, <2>1, <2>2 DEF Discard
<1>18. CASE DeleteAccess(p)
  <2>1. Moves("deleteAccess", "deleteRefresh")
    BY <1>18, GotoFields DEF DeleteAccess, At
  <2> QED BY <2>1, <1>b
<1>19. CASE DeleteRefresh(p)
  <2>1. Moves("deleteRefresh", "discard") \/ Moves("deleteRefresh", "loadClear")
    BY <1>19, GotoFields DEF DeleteRefresh, At
  <2> QED BY <2>1
<1>20. CASE LoadClear(p)
  <2>1. Moves("loadClear", "saveClear")
    BY <1>20, NoteFields DEF LoadClear, At
  <2> QED BY <2>1, <1>b
<1>21. CASE SaveClear(p)
  <2>1. CASE AfterClear(cmd[p].why) = "idle"
    BY <1>21, <2>1, <1>b, FinishFields DEF SaveClear
  <2>2. CASE AfterClear(cmd[p].why) = "dropClaim"
    <3>1. Moves("saveClear", "dropClaim") /\ cmd[p].why = "denied"
      BY <1>21, <2>2, GotoFields DEF SaveClear, At, AfterClear
    <3> QED BY <3>1 DEF RefreshRemoval
  <2>3. CASE AfterClear(cmd[p].why) = "release"
    <3>1. Moves("saveClear", "release") /\ cmd[p].why \in RefreshRemoval
      BY <1>21, <2>3, GotoFields DEF SaveClear, At, AfterClear
    <3> QED BY <3>1
  <2> QED BY <2>1, <2>2, <2>3 DEF AfterClear
<1>22. CASE NotApproved(p)
  BY <1>22, <1>b, FinishFields DEF NotApproved
<1>23. CASE LoginStoreFails(p)
  <2>1. cmd'[p].pc = "deleteAccess" /\ cmd'[p].why = "loginFailed"
    BY <1>0, <1>23 DEF LoginStoreFails, Become, CommandState
  <2> QED BY <2>1 DEF RefreshRemoval
<1>24. CASE LoginAccess(p)
  <2>1. Moves("loginAccess", "loginRefresh")
    BY <1>24, GotoFields DEF LoginAccess, At
  <2> QED BY <2>1, <1>b
<1>25. CASE LoginMeta(p)
  <2>1. cmd'[p].pc \in {"loadSync", "revokePrevious"}
    BY <1>25, GotoFields DEF LoginMeta
  <2> QED BY <2>1, <1>b
<1>26. CASE RevokePrevious(p)
  BY <1>26, <1>b, GotoFields DEF RevokePrevious
<1>27. CASE RevokeStored(p)
  <2>1. cmd[p].why = "logout"
    BY <1>27 DEF LocalsOK, LocalsReady, RevokeStored, At
  <2>2. Moves("revokeStored", "deleteAccess") BY <1>27, GotoFields DEF RevokeStored, At
  <2> QED BY <2>1, <2>2 DEF RefreshRemoval
<1>28. CASE Crash(p)
  BY <1>28, <1>b, FinishFields DEF Crash
<1> QED BY <1>1, <1>2, <1>3, <1>4, <1>5, <1>6, <1>7, <1>8, <1>9, <1>10,
   <1>11, <1>12, <1>13, <1>14, <1>15, <1>16, <1>17, <1>18, <1>19, <1>20, <1>21,
   <1>22, <1>23, <1>24, <1>25, <1>26, <1>27, <1>28

(* The steps the chain invariant is about. *)
LEMMA ChainFields ==
  ASSUME LocalsOK, NEW p \in Proc
  PROVE  /\ ReadRefresh(p) =>
              \/ Goto(p, "release")
              \/ /\ refresh # NoToken
                 /\ cmd'[p].pc = "readAccess" /\ cmd'[p].tok = refresh
         /\ ClaimOperation(p) =>
              /\ cmd'[p].pc = "send" /\ cmd'[p].tok = cmd[p].tok
              /\ pending' = [tok |-> cmd[p].tok, op |-> cmd'[p].op]
         /\ Send(p) => cmd'[p].pc = "wait" /\ Keeps(cmd[p], cmd'[p])
         /\ AnsweredPair(p) =>
              /\ cmd'[p].pc = "storeRefresh"
              /\ cmd'[p].pair = NextPair(RequestOf(cmd[p]))
         /\ AnsweredUnusable(p) =>
              cmd'[p].pc = "deleteAccess" /\ cmd'[p].why = "unusable"
         /\ AnsweredDenied(p) =>
              cmd'[p].pc = "deleteAccess" /\ cmd'[p].why = "denied"
         /\ StoreRefresh(p) => cmd'[p].pc = "storeAccess" /\ Keeps(cmd[p], cmd'[p])
         /\ Settle(p) => cmd'[p].pc = "release"
         /\ DropClaim(p) => cmd'[p].pc = "release"
         /\ LoginRefresh(p) => cmd'[p].pc = "loginMeta"
         /\ Approved(p) =>
              \E s \in Session :
                /\ Issue(s)
                /\ cmd'[p].pc = "loginAccess"
                /\ cmd'[p].pair = [sess |-> s, gen |-> 0]
<1>0. cmd \in [Proc -> CommandState] /\ pending \in Claim \union {NoClaim}
  BY DEF LocalsOK, TypeOK, SharedTypeOK
<1> USE <1>0 DEF Become, CommandState
<1>1. ReadRefresh(p) =>
        \/ Goto(p, "release")
        \/ refresh # NoToken /\ cmd'[p].pc = "readAccess" /\ cmd'[p].tok = refresh
  BY DEF ReadRefresh
<1>2. ClaimOperation(p) =>
        /\ cmd'[p].pc = "send" /\ cmd'[p].tok = cmd[p].tok
        /\ pending' = [tok |-> cmd[p].tok, op |-> cmd'[p].op]
  <2> SUFFICES ASSUME ClaimOperation(p)
               PROVE  /\ cmd'[p].pc = "send" /\ cmd'[p].tok = cmd[p].tok
                      /\ pending' = [tok |-> cmd[p].tok, op |-> cmd'[p].op]
    OBVIOUS
  <2>1. CASE pending # NoClaim /\ pending.tok = cmd[p].tok
    <3>1. pending = [tok |-> cmd[p].tok, op |-> pending.op] BY <2>1 DEF Claim
    <3> QED BY <2>1, <3>1 DEF ClaimOperation
  <2>2. CASE ~(pending # NoClaim /\ pending.tok = cmd[p].tok)
    BY <2>2 DEF ClaimOperation
  <2> QED BY <2>1, <2>2
<1>3. Send(p) => cmd'[p].pc = "wait" /\ Keeps(cmd[p], cmd'[p])
  BY DEF Send, Keeps
<1>4. AnsweredPair(p) =>
        cmd'[p].pc = "storeRefresh" /\ cmd'[p].pair = NextPair(RequestOf(cmd[p]))
  BY DEF AnsweredPair, Idle
<1>5. AnsweredUnusable(p) => cmd'[p].pc = "deleteAccess" /\ cmd'[p].why = "unusable"
  BY DEF AnsweredUnusable, Idle
<1>6. AnsweredDenied(p) => cmd'[p].pc = "deleteAccess" /\ cmd'[p].why = "denied"
  BY DEF AnsweredDenied, Idle
<1>7. StoreRefresh(p) => cmd'[p].pc = "storeAccess" /\ Keeps(cmd[p], cmd'[p])
  BY GotoFields DEF StoreRefresh
<1>8. Settle(p) => cmd'[p].pc = "release"
  BY DEF Settle
<1>10. DropClaim(p) => cmd'[p].pc = "release"
  BY GotoFields DEF DropClaim
<1>11. LoginRefresh(p) => cmd'[p].pc = "loginMeta"
  BY GotoFields DEF LoginRefresh
<1>12. Approved(p) => \E s \in Session : /\ Issue(s)
                                         /\ cmd'[p].pc = "loginAccess"
                                         /\ cmd'[p].pair = [sess |-> s, gen |-> 0]
  BY DEF Approved
<1> QED BY <1>1, <1>2, <1>3, <1>4, <1>5, <1>6, <1>7, <1>8, <1>10, <1>11, <1>12

(* Nobody's step changes another process. *)
LEMMA OthersStay ==
  ASSUME LocalsOK, NEW p \in Proc, Begin(p) \/ Run(p) \/ Crash(p)
  PROVE  \A q \in Proc \ {p} : cmd'[q] = cmd[q]
<1>1. PICK c : Good(c) /\ Become(p, c) BY StepLocals
<1> QED BY <1>1, Moved DEF Good, LocalsOK, TypeOK

LEMMA LockStep ==
  ASSUME LocalsOK, LockHeld, NEW p \in Proc, Begin(p) \/ Run(p) \/ Crash(p)
  PROVE  LockHeld'
<1>1. Locked(cmd'[p]) => Locked(cmd[p]) \/ Acquire(p)
  <2> USE DEF Locked, LockedStep, RemovalStep
  <2>1. CASE Approved(p) \/ LoginRefresh(p)
    BY <2>1, ChainFields
  <2>2. CASE \/ ReadRefresh(p) \/ ClaimOperation(p) \/ Send(p) \/ AnsweredPair(p)
             \/ AnsweredUnusable(p) \/ AnsweredDenied(p) \/ StoreRefresh(p)
             \/ Settle(p) \/ DropClaim(p)
    BY <2>2 DEF ReadRefresh, ClaimOperation, Send, AnsweredPair, AnsweredUnusable,
       AnsweredDenied, StoreRefresh, Settle, DropClaim, At
  <2> QED BY <2>1, <2>2, QuietSteps DEF Run, Refreshing, Removing, LoggingInOrOut
<1>2. \/ UNCHANGED lock
      \/ Acquire(p)
      \/ Release(p)
      \/ Crash(p)
  BY DEF Begin, Run, Refreshing, Removing, LoggingInOrOut, BeginRefresh, BeginRequest,
     BeginLogin, BeginLogout, ReadInitial, LoadProfile, ReadRefresh, ReadAccess,
     ClaimOperation, ClaimFails, Send, AnsweredBusy, Unanswered, AnsweredPair,
     AnsweredUnusable, AnsweredDenied, StoreFails, StoreRefresh, StoreAccess, LoadMeta,
     SaveMeta, Settle, SkipSync, LoadSync, SaveSync, Discard, DeleteAccess,
     DeleteRefresh, LoadClear, SaveClear, DropClaim, Approved, NotApproved,
     LoginStoreFails, LoginAccess, LoginRefresh, LoginMeta, RevokePrevious, RevokeStored
<1>3. CASE UNCHANGED lock /\ ~Acquire(p)
  BY <1>1, <1>3, OthersStay DEF LockHeld
<1>4. CASE Acquire(p)
  BY <1>4, OthersStay, NoProcAssumption DEF LockHeld, Acquire
<1>5. CASE Release(p)
  <2>1. ~Locked(cmd'[p])
    BY <1>5, GotoFields, FinishFields DEF Release, Locked, LockedStep, RemovalStep
  <2>2. lock = p
    BY <1>5 DEF LockHeld, Release, At, Locked, LockedStep
  <2> QED BY <1>5, <2>1, <2>2, OthersStay DEF LockHeld
<1>6. CASE Crash(p)
  <2>1. ~Locked(cmd'[p])
    BY <1>6, FinishFields DEF Crash, Locked, LockedStep, RemovalStep
  <2> QED BY <1>6, <2>1, OthersStay DEF LockHeld, Crash
<1> QED BY <1>2, <1>3, <1>4, <1>5, <1>6

LEMMA LockNext == LocalsOK /\ LockHeld /\ [Next]_vars => LockHeld'
<1> SUFFICES ASSUME LocalsOK, LockHeld, [Next]_vars PROVE LockHeld'
  OBVIOUS
<1>1. CASE Environment
  BY <1>1 DEF Environment, ArriveLate, ServerEnds, EditApi, LockHeld
<1>2. CASE UNCHANGED vars
  BY <1>2 DEF vars, LockHeld
<1> QED BY <1>1, <1>2, LockStep DEF Next

(* One process at a time is between acquiring and releasing the profile's
   refresh lock, kills and early returns included (_profile_refresh_lock). *)
THEOREM LockExclusive == Spec => []LockHeld
<1>1. Init => LockHeld
  BY DEF Init, LockHeld, Locked, Idle, LockedStep, RemovalStep
<1> QED BY <1>1, LockNext, LocalsCorrect, PTL DEF Spec

-----------------------------------------------------------------------------
(* The chain invariant, step by step. *)
LEMMA QuietChain ==
  ASSUME LocalsOK, ChainInv, NEW p \in Proc, Quiet(p),
         \A q \in Proc \ {p} : cmd'[q] = cmd[q]
  PROVE  ChainInv'
<1> USE DEF Quiet, ChainInv
<1>0. \A q \in Proc : Lessens(cmd[q], cmd'[q])
  BY DEF Lessens
<1> USE <1>0 DEF Lessens
<1>1. Known' BY DEF Known
<1>2. StoredUsable' BY DEF StoredUsable, Usable
<1>3. WorkingUsable' BY DEF WorkingUsable, Usable, Fresh
<1>4. ClaimOnFile' BY DEF ClaimOnFile, Working, Claimed
<1>5. StoringFresh' BY DEF StoringFresh, Fresh
<1>6. SettlingFresh' BY DEF SettlingFresh, Fresh
<1>7. LoginPrivate' BY DEF LoginPrivate, LoggingIn, Storing
<1>8. OneOperationPerToken' BY DEF OneOperationPerToken
<1> QED BY <1>1, <1>2, <1>3, <1>4, <1>5, <1>6, <1>7, <1>8

LEMMA TokenTypes ==
  ASSUME LocalsOK
  PROVE  /\ refresh # NoToken => refresh \in Token
         /\ refresh # NoToken => refresh.sess \in Session /\ refresh.gen \in Nat
         /\ \A r \in sent : r.tok \in Token /\ r.tok.sess \in Session /\ r.tok.gen \in Nat
         /\ newest \in [Session -> Nat] /\ rotatedBy \in [Session -> Nat]
         /\ \A p \in Proc :
              /\ Working(cmd[p]) => /\ cmd[p].tok \in Token
                                    /\ cmd[p].tok.sess \in Session /\ cmd[p].tok.gen \in Nat
              /\ Storing(cmd[p]) => /\ cmd[p].pair \in Token
                                    /\ cmd[p].pair.sess \in Session /\ cmd[p].pair.gen \in Nat
<1>1. /\ refresh # NoToken => refresh \in Token
      /\ \A r \in sent : r.tok \in Token
      /\ newest \in [Session -> Nat] /\ rotatedBy \in [Session -> Nat]
  BY DEF LocalsOK, TypeOK, SharedTypeOK, ServerTypeOK, MaybeToken, Request
<1>2. \A p \in Proc : /\ Working(cmd[p]) => cmd[p].tok \in Token
                      /\ Storing(cmd[p]) => cmd[p].pair \in Token
  BY DEF LocalsOK, LocalsReady, Working, Storing, TokStep, PairStep
<1>3. \A t \in Token : t.sess \in Session /\ t.gen \in Nat
  BY DEF Token
<1> QED BY <1>1, <1>2, <1>3

(* Nobody else works on the credential while p does. *)
LEMMA Alone ==
  ASSUME LockHeld, NEW p \in Proc, Locked(cmd[p]), NEW q \in Proc \ {p}
  PROVE  /\ ~Locked(cmd[q]) /\ ~Working(cmd[q]) /\ ~Claimed(cmd[q]) /\ ~Settling(cmd[q])
         /\ cmd[q].pc # "storeRefresh"
<1>1. ~Locked(cmd[q]) BY DEF LockHeld
<1> QED BY <1>1 DEF Locked, Working, Claimed, Settling, LockedStep, RefreshRemoval

(* The pending-operation file is removed. *)
LEMMA SettleChain ==
  ASSUME LocalsOK, LockHeld, ChainInv, NEW p \in Proc, Settle(p) \/ DropClaim(p),
         \A q \in Proc \ {p} : cmd'[q] = cmd[q]
  PROVE  ChainInv'
<1> USE DEF ChainInv
<1>0. /\ Locked(cmd[p]) /\ Settling(cmd[p]) /\ cmd'[p].pc = "release"
      /\ refresh # NoToken => Fresh(refresh)
      /\ pending' = NoClaim
      /\ UNCHANGED <<refresh, sent, issued, ended, newest, rotatedBy>>
  BY ChainFields DEF Settle, DropClaim, At, Locked, LockedStep, Settling, SettlingFresh,
     storeVars, serverVars
<1>a. \A q \in Proc : ~Working(cmd'[q]) /\ ~Claimed(cmd'[q]) /\ ~Settling(cmd'[q])
  BY <1>0, Alone DEF Working, Claimed, Settling, RemovalStep
<1>b. \A q \in Proc : Storing(cmd'[q]) => Storing(cmd[q]) /\ cmd'[q] = cmd[q]
  BY <1>0 DEF Storing
<1>c. \A q \in Proc : LoggingIn(cmd'[q]) => LoggingIn(cmd[q]) /\ cmd'[q] = cmd[q]
  BY <1>0 DEF LoggingIn
<1> USE <1>0, <1>a, <1>b, <1>c
<1>1. Known' BY DEF Known
<1>2. StoredUsable' BY TokenTypes DEF StoredUsable, Usable, Fresh
<1>3. WorkingUsable' BY DEF WorkingUsable
<1>4. ClaimOnFile' BY DEF ClaimOnFile
<1>5. StoringFresh' BY DEF StoringFresh, Fresh
<1>6. SettlingFresh' BY DEF SettlingFresh, Fresh
<1>7. LoginPrivate' BY DEF LoginPrivate
<1>8. OneOperationPerToken' BY DEF OneOperationPerToken
<1> QED BY <1>1, <1>2, <1>3, <1>4, <1>5, <1>6, <1>7, <1>8

(* The lock holder reads the refresh token it is going to spend. *)
LEMMA ReadRefreshChain ==
  ASSUME LocalsOK, LockHeld, ChainInv, NEW p \in Proc, ReadRefresh(p),
         refresh # NoToken, cmd'[p].pc = "readAccess", cmd'[p].tok = refresh,
         \A q \in Proc \ {p} : cmd'[q] = cmd[q]
  PROVE  ChainInv'
<1> USE DEF ChainInv
<1>0. /\ Locked(cmd[p])
      /\ Working(cmd'[p]) /\ ~Claimed(cmd'[p]) /\ ~Storing(cmd'[p])
      /\ ~LoggingIn(cmd'[p]) /\ ~Settling(cmd'[p])
      /\ UNCHANGED <<refresh, pending, sent, issued, ended, newest, rotatedBy>>
  BY DEF ReadRefresh, At, Locked, LockedStep, Working, Claimed, Storing, LoggingIn,
     Settling, RemovalStep, storeVars, serverVars
<1>a. \A q \in Proc \ {p} : ~Working(cmd[q]) /\ ~Claimed(cmd[q])
  BY <1>0, Alone
<1> USE <1>0, <1>a
<1>1. Known' BY DEF Known
<1>2. StoredUsable' BY DEF StoredUsable, Usable
<1>3. WorkingUsable' BY DEF WorkingUsable, StoredUsable, Usable
<1>4. ClaimOnFile' BY DEF ClaimOnFile
<1>5. StoringFresh' BY DEF StoringFresh, Fresh
<1>6. SettlingFresh' BY DEF SettlingFresh, Fresh
<1>7. LoginPrivate' BY DEF LoginPrivate
<1>8. OneOperationPerToken' BY DEF OneOperationPerToken
<1> QED BY <1>1, <1>2, <1>3, <1>4, <1>5, <1>6, <1>7, <1>8

(* The operation is on file for the token about to be sent. *)
LEMMA ClaimChain ==
  ASSUME LocalsOK, LockHeld, ChainInv, NEW p \in Proc, ClaimOperation(p),
         \A q \in Proc \ {p} : cmd'[q] = cmd[q]
  PROVE  ChainInv'
<1> USE DEF ChainInv
<1>0. /\ Locked(cmd[p]) /\ Working(cmd[p])
      /\ Working(cmd'[p]) /\ ~Storing(cmd'[p])
      /\ ~LoggingIn(cmd'[p]) /\ ~Settling(cmd'[p])
      /\ cmd'[p].tok = cmd[p].tok
      /\ pending' = [tok |-> cmd[p].tok, op |-> cmd'[p].op]
      /\ UNCHANGED <<refresh, sent, issued, ended, newest, rotatedBy>>
  BY ChainFields DEF ClaimOperation, At, Locked, LockedStep, Working, Storing, LoggingIn,
     Settling, RemovalStep, storeVars, serverVars
<1>a. \A q \in Proc \ {p} : ~Working(cmd[q]) /\ ~Claimed(cmd[q]) /\ ~Settling(cmd[q])
  BY <1>0, Alone
<1>b. pending' = pending \/ pending = NoClaim \/ pending.tok # cmd[p].tok
  BY DEF ClaimOperation
<1>c. \A t, n : pending # NoClaim /\ pending.tok # cmd[p].tok
                  => ~(t = cmd[p].tok /\ pending = [tok |-> t, op |-> n])
  OBVIOUS
<1>d. \A t \in Token, n \in Nat : NoClaim # [tok |-> t, op |-> n]
  BY NoClaimAssumption DEF Claim
<1>e. /\ Usable(cmd[p].tok) /\ cmd[p].tok \in Token
      /\ \A r \in sent : r.op \in Nat
      /\ rotatedBy[cmd[p].tok.sess] \in Nat
  BY <1>0, TokenTypes DEF WorkingUsable, LocalsOK, TypeOK, SharedTypeOK, Request
<1>f. Usable(cmd[p].tok)'
  <2>1. CASE pending' = pending BY <1>0, <1>e, <2>1 DEF Usable
  <2>2. CASE pending = NoClaim \/ pending.tok # cmd[p].tok
    BY <1>0, <1>c, <1>d, <1>e, <2>2 DEF Usable
  <2> QED BY <1>b, <2>1, <2>2
<1>g. /\ Fresh(refresh) => Fresh(refresh)'
      /\ Fresh(refresh)' => Usable(refresh)' \/ refresh = NoToken
  BY <1>0, TokenTypes DEF Fresh, Usable
<1>1. Known' BY <1>0 DEF Known
<1>2. StoredUsable' BY <1>0, <1>f, <1>g DEF StoredUsable, WorkingUsable
<1>3. WorkingUsable' BY <1>0, <1>a, <1>f, <1>g DEF WorkingUsable
<1>4. ClaimOnFile' BY <1>0, <1>a DEF ClaimOnFile
<1>5. StoringFresh' BY <1>0 DEF StoringFresh, Fresh
<1>6. SettlingFresh' BY <1>0 DEF SettlingFresh, Fresh
<1>7. LoginPrivate' BY <1>0 DEF LoginPrivate
<1>8. OneOperationPerToken' BY <1>0 DEF OneOperationPerToken
<1> QED BY <1>1, <1>2, <1>3, <1>4, <1>5, <1>6, <1>7, <1>8

(* The claimed request is sent. *)
LEMMA SendChain ==
  ASSUME LocalsOK, LockHeld, ChainInv, NEW p \in Proc, Send(p),
         \A q \in Proc \ {p} : cmd'[q] = cmd[q]
  PROVE  ChainInv'
<1> USE DEF ChainInv
<1> DEFINE r == RequestOf(cmd[p])
<1>0. /\ Locked(cmd[p]) /\ Working(cmd[p]) /\ Claimed(cmd[p])
      /\ Working(cmd'[p]) /\ Claimed(cmd'[p]) /\ ~Storing(cmd'[p])
      /\ ~LoggingIn(cmd'[p]) /\ ~Settling(cmd'[p])
      /\ cmd'[p].tok = cmd[p].tok /\ cmd'[p].op = cmd[p].op
      /\ sent' = sent \union {r} /\ r.tok = cmd[p].tok /\ r.op = cmd[p].op
      /\ UNCHANGED <<refresh, pending, issued, ended, newest, rotatedBy>>
  BY ChainFields DEF Send, At, Locked, LockedStep, Working, Claimed, Storing, LoggingIn,
     Settling, RemovalStep, storeVars, serverVars, RequestOf, Keeps
<1> HIDE DEF r
<1>a. \A q \in Proc \ {p} : ~Working(cmd[q]) /\ ~Claimed(cmd[q]) /\ ~Settling(cmd[q])
                            /\ cmd[q].pc # "storeRefresh"
  BY <1>0, Alone
<1>b. /\ Usable(cmd[p].tok) /\ cmd[p].tok.gen \in Nat
      /\ pending = [tok |-> cmd[p].tok, op |-> cmd[p].op]
      /\ refresh \notin {NoToken, cmd[p].tok} =>
           refresh.sess # cmd[p].tok.sess /\ Fresh(refresh)
  BY <1>0, TokenTypes DEF WorkingUsable, ClaimOnFile
<1>c. Usable(cmd[p].tok)' BY <1>0, <1>b DEF Usable
<1>d. refresh \notin {NoToken, cmd[p].tok} => Fresh(refresh)' /\ Usable(refresh)'
  BY <1>0, <1>b, TokenTypes DEF Fresh, Usable
<1>1. Known' BY <1>0 DEF Known
<1>2. StoredUsable' BY <1>0, <1>c, <1>d DEF StoredUsable
<1>3. WorkingUsable' BY <1>0, <1>a, <1>b, <1>c, <1>d DEF WorkingUsable
<1>4. ClaimOnFile' BY <1>0, <1>a DEF ClaimOnFile
<1>5. StoringFresh'
  <2>1. \A q \in Proc : Storing(cmd'[q]) =>
          Storing(cmd[q]) /\ LoggingIn(cmd[q]) /\ cmd'[q] = cmd[q] /\ q # p
    BY <1>0, <1>a DEF Storing, LoggingIn
  <2>2. \A q \in Proc : Storing(cmd'[q]) => cmd[q].pair.sess # cmd[p].tok.sess
    BY <1>0, <2>1 DEF LoginPrivate
  <2> QED BY <1>0, <2>1, <2>2 DEF StoringFresh, Fresh
<1>6. SettlingFresh' BY <1>0, <1>a DEF SettlingFresh
<1>7. LoginPrivate' BY <1>0 DEF LoginPrivate
<1>8. OneOperationPerToken'
  <2>1. \A r2 \in sent : r2.tok = cmd[p].tok /\ cmd[p].tok.sess \notin ended
                           => r2.op = cmd[p].op
    <3>1. \A r2 \in sent : r2.tok = cmd[p].tok /\ cmd[p].tok.sess \notin ended
                             => pending = [tok |-> cmd[p].tok, op |-> r2.op]
      BY <1>b DEF Usable
    <3> QED BY <3>1, <1>b
  <2> QED BY <1>0, <2>1 DEF OneOperationPerToken
<1> QED BY <1>1, <1>2, <1>3, <1>4, <1>5, <1>6, <1>7, <1>8

(* What the service does with a request. *)
LEMMA HandleServer ==
  ASSUME LocalsOK, NEW r, r.tok \in Token, Handle(r)
  PROVE  /\ UNCHANGED <<issued, ended>>
         /\ \A s \in Session : s # r.tok.sess =>
              newest'[s] = newest[s] /\ rotatedBy'[s] = rotatedBy[s]
         /\ Rotates(r) => /\ newest[r.tok.sess] = r.tok.gen
                          /\ newest'[r.tok.sess] = r.tok.gen + 1
                          /\ rotatedBy'[r.tok.sess] = r.op
         /\ ~Rotates(r) => UNCHANGED <<newest, rotatedBy>>
<1>1. /\ r.tok.sess \in Session
      /\ newest \in [Session -> Nat] /\ rotatedBy \in [Session -> Nat]
  BY TokenTypes DEF Token
<1> QED BY <1>1 DEF Handle, Rotates

(* A request that was sent earlier leaves good tokens good. *)
LEMMA HandleFacts ==
  ASSUME LocalsOK, NEW r \in sent, Handle(r), UNCHANGED <<sent, pending>>
  PROVE  /\ \A s \in Session : s # r.tok.sess => newest'[s] = newest[s]
         /\ \A t \in Token : Fresh(t) => Fresh(t)'
         /\ \A t \in Token : Usable(t) => Usable(t)'
<1>0. /\ r.tok \in Token /\ r.tok.sess \in Session /\ r.tok.gen \in Nat
      /\ \A s \in sent : s.tok.gen \in Nat
  BY TokenTypes
<1>1. /\ UNCHANGED <<issued, ended>>
      /\ \A s \in Session : s # r.tok.sess =>
           newest'[s] = newest[s] /\ rotatedBy'[s] = rotatedBy[s]
      /\ Rotates(r) => /\ newest[r.tok.sess] = r.tok.gen
                       /\ newest'[r.tok.sess] = r.tok.gen + 1
                       /\ rotatedBy'[r.tok.sess] = r.op
      /\ ~Rotates(r) => UNCHANGED <<newest, rotatedBy>>
  BY <1>0, HandleServer
<1>2. ASSUME NEW t \in Token, Fresh(t) PROVE Fresh(t)'
  <2>1. CASE t.sess = r.tok.sess /\ Rotates(r) /\ t.sess \notin ended
    BY <1>0, <1>1, <1>2, <2>1 DEF Fresh
  <2>2. CASE ~(t.sess = r.tok.sess /\ Rotates(r) /\ t.sess \notin ended)
    <3>1. t.sess \in Session BY DEF Token
    <3> QED BY <1>1, <1>2, <2>2, <3>1 DEF Fresh
  <2> QED BY <2>1, <2>2
<1>3. ASSUME NEW t \in Token, Usable(t) PROVE Usable(t)'
  <2>0. t.sess \in Session /\ t.gen \in Nat BY DEF Token
  <2>1. CASE t.sess = r.tok.sess /\ Rotates(r) /\ t.sess \notin ended
    <3>1. r.tok.gen <= t.gen BY <1>3, <2>1 DEF Usable
    <3>2. t.gen = r.tok.gen BY <1>0, <1>1, <1>3, <2>0, <2>1, <3>1 DEF Usable
    <3>3. t = r.tok BY <1>0, <2>1, <3>2 DEF Token
    <3>4. pending = [tok |-> t, op |-> r.op] BY <1>3, <2>1, <3>3 DEF Usable
    <3> QED BY <1>1, <1>3, <2>1, <3>2, <3>4 DEF Usable
  <2>2. CASE ~(t.sess = r.tok.sess /\ Rotates(r) /\ t.sess \notin ended)
    BY <1>1, <1>3, <2>0, <2>2 DEF Usable
  <2> QED BY <2>1, <2>2
<1> QED BY <1>1, <1>2, <1>3

(* A request reaches the service late, or once more. *)
LEMMA LateChain ==
  ASSUME LocalsOK, ChainInv, NEW r \in sent, ArriveLate(r)
  PROVE  ChainInv'
<1> USE DEF ChainInv
<1>0. UNCHANGED <<refresh, pending, sent, issued, ended, cmd>> /\ Handle(r)
  BY HandleFacts DEF ArriveLate, storeVars, Handle
<1>a. /\ \A t \in Token : Fresh(t) => Fresh(t)'
      /\ \A t \in Token : Usable(t) => Usable(t)'
      /\ \A s \in Session : s # r.tok.sess => newest'[s] = newest[s]
  BY <1>0, HandleFacts
<1>1. Known' BY <1>0, <1>a DEF Known
<1>2. StoredUsable' BY <1>0, <1>a, TokenTypes DEF StoredUsable
<1>3. WorkingUsable' BY <1>0, <1>a, TokenTypes DEF WorkingUsable
<1>4. ClaimOnFile' BY <1>0 DEF ClaimOnFile
<1>5. StoringFresh' BY <1>0, <1>a, TokenTypes DEF StoringFresh
<1>6. SettlingFresh' BY <1>0, <1>a, TokenTypes DEF SettlingFresh
<1>7. LoginPrivate' BY <1>0 DEF LoginPrivate
<1>8. OneOperationPerToken' BY <1>0 DEF OneOperationPerToken
<1> QED BY <1>1, <1>2, <1>3, <1>4, <1>5, <1>6, <1>7, <1>8

(* The service accepts p's request. *)
LEMMA AcceptedChain ==
  ASSUME LocalsOK, LockHeld, ChainInv, NEW p \in Proc,
         AnsweredPair(p) \/ AnsweredUnusable(p),
         \A q \in Proc \ {p} : cmd'[q] = cmd[q]
  PROVE  ChainInv'
<1> USE DEF ChainInv
<1> DEFINE r == RequestOf(cmd[p])
           tok == cmd[p].tok
<1>0. /\ Locked(cmd[p]) /\ Working(cmd[p]) /\ Claimed(cmd[p])
      /\ ~Working(cmd'[p]) /\ ~Claimed(cmd'[p])
      /\ ~LoggingIn(cmd'[p]) /\ ~Settling(cmd'[p])
      /\ Storing(cmd'[p]) => cmd'[p].pair = NextPair(r)
      /\ Accepts(r) /\ Handle(r) /\ r.tok = tok /\ r.op = cmd[p].op
      /\ UNCHANGED <<refresh, pending, sent>>
  BY ChainFields DEF AnsweredPair, AnsweredUnusable, At, Locked, LockedStep, Working,
     Claimed, Storing, LoggingIn, Settling, RemovalStep, storeVars, RequestOf
<1>a. /\ \A q \in Proc \ {p} : ~Working(cmd[q]) /\ ~Claimed(cmd[q]) /\ ~Settling(cmd[q])
      /\ \A q \in Proc \ {p} : Storing(cmd[q]) => LoggingIn(cmd[q])
  BY <1>0, Alone DEF Storing, LoggingIn
<1>b. /\ tok \in Token /\ tok.sess \in Session /\ tok.gen \in Nat
      /\ newest \in [Session -> Nat]
      /\ \A s \in sent : s.tok.gen \in Nat /\ s.tok.sess \in Session
      /\ refresh # NoToken => refresh.sess \in Session
      /\ tok.sess \in issued \ ended
  BY <1>0, TokenTypes DEF Accepts, Rotates, Replays, Serves
<1>c. /\ Usable(tok) /\ pending = [tok |-> tok, op |-> r.op]
      /\ refresh \notin {NoToken, tok} => refresh.sess # tok.sess /\ Fresh(refresh)
  BY <1>0 DEF WorkingUsable, ClaimOnFile
<1>d. /\ UNCHANGED <<issued, ended>>
      /\ \A s \in Session : s # tok.sess =>
           newest'[s] = newest[s] /\ rotatedBy'[s] = rotatedBy[s]
      /\ newest'[tok.sess] = tok.gen + 1
      /\ rotatedBy'[tok.sess] = r.op
  <2>1. CASE Rotates(r) BY <1>0, <1>b, <2>1, HandleServer
  <2>2. CASE ~Rotates(r)
    <3>1. Replays(r) BY <1>0, <2>2 DEF Accepts
    <3> QED BY <1>0, <1>b, <2>2, <3>1, HandleServer DEF Replays
  <2> QED BY <2>1, <2>2
<1> HIDE DEF r, tok
<1>f. \A t \in Token : t.sess # tok.sess /\ Fresh(t) => Fresh(t)'
  <2>1. \A t \in Token : t.sess \in Session BY DEF Token
  <2> QED BY <1>0, <1>d, <2>1 DEF Fresh
<1>g. refresh # NoToken => Usable(refresh)'
  <2>1. CASE refresh = tok
    BY <1>0, <1>b, <1>c, <1>d, <2>1 DEF Usable
  <2>2. CASE refresh \notin {NoToken, tok}
    BY <1>0, <1>b, <1>c, <1>d, <2>2, TokenTypes DEF Fresh, Usable
  <2> QED BY <2>1, <2>2
<1>h. NextPair(r).sess = tok.sess /\ NextPair(r).gen = tok.gen + 1
  BY <1>0 DEF NextPair
<1>1. Known' BY <1>0, <1>a, <1>b, <1>d, <1>h DEF Known
<1>2. StoredUsable' BY <1>0, <1>g DEF StoredUsable
<1>3. WorkingUsable' BY <1>0, <1>a DEF WorkingUsable
<1>4. ClaimOnFile' BY <1>0, <1>a DEF ClaimOnFile
<1>5. StoringFresh'
  <2>1. ASSUME NEW t, t = NextPair(r) PROVE Fresh(t)'
    <3>1. \A s \in sent : s.tok.sess = tok.sess => s.tok.gen <= tok.gen
      BY <1>b, <1>c DEF Usable
    <3> QED BY <1>0, <1>b, <1>d, <1>h, <2>1, <3>1 DEF Fresh
  <2>2. Storing(cmd'[p]) => Fresh(cmd[p].pair)'
    BY <1>0, <2>1 DEF Fresh
  <2>3. ASSUME NEW q \in Proc \ {p}, Storing(cmd[q]) PROVE Fresh(cmd[q].pair)'
    BY <1>0, <1>a, <1>f, <2>3, TokenTypes DEF StoringFresh, LoginPrivate, tok, Fresh
  <2> QED BY <2>2, <2>3 DEF StoringFresh
<1>6. SettlingFresh' BY <1>0, <1>a DEF SettlingFresh
<1>7. LoginPrivate'
  <2>1. \A q \in Proc : LoggingIn(cmd[q]) => cmd[q].pair.sess # tok.sess
    BY <1>0, <1>a DEF LoginPrivate, tok, LoggingIn, Working
  <2> QED BY <1>0, <1>a, <1>h, <2>1 DEF LoginPrivate
<1>8. OneOperationPerToken' BY <1>0, <1>d DEF OneOperationPerToken
<1> QED BY <1>1, <1>2, <1>3, <1>4, <1>5, <1>6, <1>7, <1>8

(* A denial means that the session of the token is over. *)
LEMMA DeniedEnds ==
  ASSUME OneDeployment, LocalsOK, ChainInv, NEW p \in Proc, AnsweredDenied(p)
  PROVE  cmd[p].tok.sess \in ended
<1> USE DEF ChainInv
<1> DEFINE r == RequestOf(cmd[p])
           tok == cmd[p].tok
<1>0. /\ Working(cmd[p]) /\ Claimed(cmd[p])
      /\ ~Accepts(r) /\ r.tok = tok /\ r.op = cmd[p].op /\ r.to = OriginUrl(cmd[p].copy)
  BY DEF AnsweredDenied, At, Working, Claimed, RequestOf
<1>b. r.to = Issuer[tok.sess]
  <2>1. cmd[p].copy.meta \in Token
    BY DEF AnsweredDenied, At, LocalsOK, LocalsReady, RefreshCopyStep
  <2>2. r.to = Issuer[cmd[p].copy.meta.sess]
    BY <1>0, <2>1, NoTokenAssumption DEF OriginUrl
  <2>3. cmd[p].copy.meta.sess \in Session /\ tok.sess \in Session
    BY <1>0, <2>1, TokenTypes DEF Token
  <2> QED BY <2>2, <2>3 DEF OneDeployment
<1>c. /\ Usable(tok) /\ pending = [tok |-> tok, op |-> r.op] /\ tok.sess \in issued
      /\ tok.gen \in Nat
  BY <1>0, TokenTypes DEF WorkingUsable, ClaimOnFile, Known
<1>d. tok.sess \in ended
  <2> SUFFICES ASSUME tok.sess \notin ended PROVE FALSE
    OBVIOUS
  <2>1. Serves(r) BY <1>0, <1>b, <1>c DEF Serves
  <2>2. CASE newest[tok.sess] = tok.gen
    BY <1>0, <2>1, <2>2 DEF Accepts, Rotates
  <2>3. CASE /\ newest[tok.sess] = tok.gen + 1
             /\ pending = [tok |-> tok, op |-> rotatedBy[tok.sess]]
    <3>1. r.op = rotatedBy[tok.sess] BY <1>c, <2>3
    <3> QED BY <1>0, <2>1, <2>3, <3>1 DEF Accepts, Replays
  <2> QED BY <1>c, <2>2, <2>3 DEF Usable
<1> QED BY <1>d

LEMMA DeniedChain ==
  ASSUME OneDeployment, LocalsOK, LockHeld, ChainInv, NEW p \in Proc,
         AnsweredDenied(p), \A q \in Proc \ {p} : cmd'[q] = cmd[q]
  PROVE  ChainInv'
<1> USE DEF ChainInv
<1> DEFINE tok == cmd[p].tok
<1>0. /\ Locked(cmd[p]) /\ Working(cmd[p]) /\ Claimed(cmd[p])
      /\ ~Working(cmd'[p]) /\ ~Claimed(cmd'[p]) /\ ~Storing(cmd'[p])
      /\ ~LoggingIn(cmd'[p])
      /\ UNCHANGED <<refresh, pending, sent, issued, ended, newest, rotatedBy>>
  BY ChainFields DEF AnsweredDenied, At, Locked, LockedStep, Working, Claimed, Storing,
     LoggingIn, storeVars, serverVars
<1>a. /\ \A q \in Proc \ {p} : ~Working(cmd[q]) /\ ~Claimed(cmd[q]) /\ ~Settling(cmd[q])
      /\ \A q \in Proc \ {p} : Storing(cmd[q]) => LoggingIn(cmd[q])
  BY <1>0, Alone DEF Storing, LoggingIn
<1>c. refresh \notin {NoToken, tok} => Fresh(refresh)
  BY <1>0 DEF WorkingUsable
<1>d. tok.sess \in ended BY DeniedEnds
<1> HIDE DEF tok
<1>1. Known' BY <1>0, <1>a DEF Known
<1>2. StoredUsable' BY <1>0 DEF StoredUsable, Usable
<1>3. WorkingUsable' BY <1>0, <1>a DEF WorkingUsable
<1>4. ClaimOnFile' BY <1>0, <1>a DEF ClaimOnFile
<1>5. StoringFresh' BY <1>0 DEF StoringFresh, Fresh
<1>6. SettlingFresh' BY <1>0, <1>a, <1>c, <1>d DEF SettlingFresh, Fresh
<1>7. LoginPrivate' BY <1>0, <1>a DEF LoginPrivate
<1>8. OneOperationPerToken' BY <1>0 DEF OneOperationPerToken
<1> QED BY <1>1, <1>2, <1>3, <1>4, <1>5, <1>6, <1>7, <1>8

(* A refresh or a login stores its refresh token. *)
LEMMA StoreChain ==
  ASSUME LocalsOK, LockHeld, ChainInv, NEW p \in Proc,
         StoreRefresh(p) \/ LoginRefresh(p),
         \A q \in Proc \ {p} : cmd'[q] = cmd[q]
  PROVE  ChainInv'
<1> USE DEF ChainInv
<1>0. /\ Storing(cmd[p])
      /\ ~Working(cmd'[p]) /\ ~Claimed(cmd'[p]) /\ ~Storing(cmd'[p])
      /\ ~LoggingIn(cmd'[p])
      /\ refresh' = cmd[p].pair
      /\ UNCHANGED <<pending, sent, issued, ended, newest, rotatedBy>>
  BY ChainFields DEF StoreRefresh, LoginRefresh, At, Working, Claimed, Storing, LoggingIn,
     serverVars
<1>a. LoggingIn(cmd[p]) \/ Locked(cmd[p])
  BY DEF StoreRefresh, LoginRefresh, At, LoggingIn, Locked, LockedStep
<1>b. \A q \in Proc \ {p} : Working(cmd[q]) => cmd[q].tok.sess # cmd[p].pair.sess
  BY <1>a, Alone DEF LoginPrivate
<1>c. \A q \in Proc \ {p} : LoggingIn(cmd[q]) => cmd[q].pair.sess # cmd[p].pair.sess
  BY <1>0 DEF LoginPrivate
<1>d. Fresh(cmd[p].pair) /\ cmd[p].pair \in Token /\ cmd[p].pair.sess \in issued
      /\ cmd[p].pair.gen \in Nat
  BY <1>0, TokenTypes DEF StoringFresh, Known
<1>e. Fresh(refresh)' /\ Usable(refresh)'
  BY <1>0, <1>d, TokenTypes DEF Fresh, Usable
<1>1. Known' BY <1>0, <1>d DEF Known
<1>2. StoredUsable' BY <1>e DEF StoredUsable
<1>3. WorkingUsable' BY <1>0, <1>b, <1>e DEF WorkingUsable, Usable
<1>4. ClaimOnFile' BY <1>0 DEF ClaimOnFile
<1>5. StoringFresh' BY <1>0 DEF StoringFresh, Fresh
<1>6. SettlingFresh' BY <1>e DEF SettlingFresh
<1>7. LoginPrivate' BY <1>0, <1>c DEF LoginPrivate
<1>8. OneOperationPerToken' BY <1>0 DEF OneOperationPerToken
<1> QED BY <1>1, <1>2, <1>3, <1>4, <1>5, <1>6, <1>7, <1>8

(* A login receives the first pair of a new session. *)
LEMMA ApprovedChain ==
  ASSUME LocalsOK, LockHeld, ChainInv, NEW p \in Proc, Approved(p),
         \A q \in Proc \ {p} : cmd'[q] = cmd[q]
  PROVE  ChainInv'
<1> USE DEF ChainInv
<1>0. PICK s \in Session : /\ Issue(s)
                           /\ cmd'[p].pc = "loginAccess"
                           /\ cmd'[p].pair = [sess |-> s, gen |-> 0]
  BY ChainFields
<1>a. /\ ~Working(cmd'[p]) /\ ~Claimed(cmd'[p]) /\ ~Settling(cmd'[p])
      /\ ~Storing(cmd[p]) /\ ~LoggingIn(cmd[p])
      /\ cmd'[p].pair.sess = s /\ cmd'[p].pair.gen = 0
      /\ s \notin issued /\ issued' = issued \union {s}
      /\ UNCHANGED <<refresh, pending, sent, ended, newest, rotatedBy>>
  BY <1>0 DEF Approved, At, Working, Claimed, Storing, LoggingIn, Settling, RemovalStep,
     Issue, storeVars
<1>b. Fresh(cmd[p].pair)'
  BY <1>a DEF Known, Fresh
<1>1. Known' BY <1>0, <1>a DEF Known
<1>2. StoredUsable' BY <1>a DEF StoredUsable, Usable
<1>3. WorkingUsable' BY <1>a DEF WorkingUsable, Usable, Fresh
<1>4. ClaimOnFile' BY <1>a DEF ClaimOnFile
<1>5. StoringFresh' BY <1>a, <1>b DEF StoringFresh, Fresh
<1>6. SettlingFresh' BY <1>a DEF SettlingFresh, Fresh
<1>7. LoginPrivate'
  <2>1. \A q \in Proc : /\ Working(cmd[q]) => cmd[q].tok.sess # s
                        /\ Storing(cmd[q]) => cmd[q].pair.sess # s
                        /\ LoggingIn(cmd[q]) => Storing(cmd[q])
    BY <1>a DEF Known, LoggingIn, Storing
  <2>2. /\ \A r \in sent : r.tok.sess # s
        /\ refresh # NoToken => refresh.sess # s
    BY <1>a DEF Known
  <2> QED BY <1>a, <2>1, <2>2 DEF LoginPrivate
<1>8. OneOperationPerToken' BY <1>a DEF OneOperationPerToken
<1> QED BY <1>1, <1>2, <1>3, <1>4, <1>5, <1>6, <1>7, <1>8

LEMMA ChainInit == Init => ChainInv
<1> SUFFICES ASSUME Init PROVE ChainInv
  OBVIOUS
<1>1. \A p \in Proc : /\ ~Working(cmd[p]) /\ ~Claimed(cmd[p]) /\ ~Storing(cmd[p])
                      /\ ~LoggingIn(cmd[p]) /\ ~Settling(cmd[p])
  BY DEF Init, Idle, Working, Claimed, Storing, LoggingIn, Settling, RemovalStep
<1>2. sent = {} /\ \A s \in Session : newest[s] = 0
  BY DEF Init, ServerInit
<1>3. refresh # NoToken =>
        \E s \in Session : refresh = [sess |-> s, gen |-> 0] /\ issued = {s}
  BY DEF Init, ServerInit
<1> QED BY <1>1, <1>2, <1>3 DEF ChainInv, Known, StoredUsable, Usable, WorkingUsable,
           ClaimOnFile, StoringFresh, SettlingFresh, LoginPrivate, OneOperationPerToken

LEMMA ChainNext ==
  ASSUME OneDeployment
  PROVE  LocalsOK /\ LockHeld /\ ChainInv /\ [Next]_vars => ChainInv'
<1> SUFFICES ASSUME LocalsOK, LockHeld, ChainInv, [Next]_vars PROVE ChainInv'
  OBVIOUS
<1>1. ASSUME NEW p \in Proc, Begin(p) \/ Run(p) \/ Crash(p) PROVE ChainInv'
  <2>1. \A q \in Proc \ {p} : cmd'[q] = cmd[q] BY <1>1, OthersStay
  <2>2. CASE ReadRefresh(p)
    <3>1. CASE Goto(p, "release")
      <4>1. Quiet(p)
        BY <2>2, <3>1, GotoFields DEF ReadRefresh, Quiet, Lessens, Working, Claimed,
           Storing, LoggingIn, Settling, RemovalStep, storeVars, serverVars
      <4> QED BY <2>1, <4>1, QuietChain
    <3>2. CASE ~Goto(p, "release")
      BY <2>1, <2>2, <3>2, ReadRefreshChain, ChainFields
    <3> QED BY <3>1, <3>2
  <2>3. CASE ClaimOperation(p) BY <2>1, <2>3, ClaimChain
  <2>4. CASE Send(p) BY <2>1, <2>4, SendChain
  <2>5. CASE AnsweredPair(p) \/ AnsweredUnusable(p) BY <2>1, <2>5, AcceptedChain
  <2>6. CASE AnsweredDenied(p) BY <2>1, <2>6, DeniedChain
  <2>7. CASE StoreRefresh(p) \/ LoginRefresh(p) BY <2>1, <2>7, StoreChain
  <2>8. CASE Settle(p) \/ DropClaim(p) BY <2>1, <2>8, SettleChain
  <2>9. CASE Approved(p) BY <2>1, <2>9, ApprovedChain
  <2>10. CASE Quiet(p) BY <2>1, <2>10, QuietChain
  <2> QED BY <1>1, <2>2, <2>3, <2>4, <2>5, <2>6, <2>7, <2>8, <2>9, <2>10, QuietSteps
             DEF Run, Refreshing, Removing, LoggingInOrOut
<1>2. CASE Environment
  <2>1. ASSUME NEW r \in sent, ArriveLate(r) PROVE ChainInv'
    BY <2>1, LateChain
  <2>2. ASSUME \/ \E s \in Session : ServerEnds(s)
               \/ \E o \in Origin : EditApi(o)
               \/ UNCHANGED vars
        PROVE  ChainInv'
    <3>1. UNCHANGED <<refresh, pending, sent, issued, newest, rotatedBy, cmd>>
          /\ ended \subseteq ended'
      BY <2>2 DEF ServerEnds, EndSession, EditApi, vars, storeVars, serverVars
    <3> QED BY <3>1 DEF ChainInv, Known, StoredUsable, Usable, Fresh, WorkingUsable,
               ClaimOnFile, StoringFresh, SettlingFresh, LoginPrivate, OneOperationPerToken
  <2> QED BY <1>2, <2>1, <2>2 DEF Environment
<1>3. CASE UNCHANGED vars
  BY <1>3 DEF vars, storeVars, ChainInv, Known, StoredUsable, Usable, Fresh, WorkingUsable,
     ClaimOnFile, StoringFresh, SettlingFresh, LoginPrivate, OneOperationPerToken
<1> QED BY <1>1, <1>2, <1>3 DEF Next

(* If all sessions come from one deployment: whatever is lost, late, repeated
   or killed, every refresh token that can still be sent is the newest of its
   session or spent by the very operation on file
   (refresh_expiring_credential with pending_refresh_operation). *)
THEOREM ChainCorrect == ASSUME OneDeployment PROVE Spec => []IInv
<1>1. Init => IInv
  <2>1. Init => LockHeld
    BY DEF Init, LockHeld, Locked, Idle, LockedStep, RemovalStep
  <2> QED BY <2>1, LocalsInit, ChainInit DEF IInv
<1>2. IInv /\ [Next]_vars => IInv'
  BY LocalsNext, LockNext, ChainNext DEF IInv
<1> QED BY <1>1, <1>2, PTL DEF Spec

(* The service never sees a second operation for a refresh token of a living
   session, with any number of processes, sessions and kills. *)
THEOREM OneOperation == ASSUME OneDeployment PROVE Spec => []OneOperationPerToken
<1>1. IInv => OneOperationPerToken BY DEF IInv, ChainInv
<1> QED BY <1>1, ChainCorrect, PTL

(* rvs never strands a session the service still serves: the stored refresh
   token is its newest, or the operation that moved past it is on file. *)
THEOREM NeverStranded == ASSUME OneDeployment PROVE Spec => []Recoverable
<1>1. IInv => Recoverable
  <2> SUFFICES ASSUME IInv, refresh # NoToken, refresh.sess \notin ended
               PROVE  \/ refresh.gen = newest[refresh.sess]
                      \/ /\ refresh.gen + 1 = newest[refresh.sess]
                         /\ pending = [tok |-> refresh, op |-> rotatedBy[refresh.sess]]
                         /\ pending # NoClaim
    BY DEF Recoverable
  <2>1. /\ refresh \in Token /\ rotatedBy[refresh.sess] \in Nat
        /\ Usable(refresh)
    BY TokenTypes DEF IInv, ChainInv, StoredUsable
  <2>2. [tok |-> refresh, op |-> rotatedBy[refresh.sess]] \in Claim
    BY <2>1 DEF Claim
  <2> QED BY <2>1, <2>2, NoClaimAssumption DEF Usable
<1> QED BY <1>1, ChainCorrect, PTL
-----------------------------------------------------------------------------
(* The order of access and refresh token, for any deployments. *)

(* A step that stores nothing and brings no token closer to the store. *)
Storeless(p) ==
  /\ access' \in {access, NoToken} /\ refresh' \in {refresh, NoToken}
  /\ issued' = issued
  /\ Working(cmd'[p]) => Working(cmd[p]) /\ cmd'[p].tok = cmd[p].tok
  /\ Storing(cmd'[p]) => Storing(cmd[p]) /\ cmd'[p].pair = cmd[p].pair
  /\ LoggingIn(cmd'[p]) => LoggingIn(cmd[p])
  /\ cmd'[p].pc = "storeAccess" => cmd[p].pc = "storeAccess" /\ cmd'[p].pair = cmd[p].pair

(* Who writes the access token. *)
LEMMA AccessSteps ==
  ASSUME NEW p \in Proc, Begin(p) \/ Run(p) \/ Crash(p), ~StoreAccess(p), ~LoginAccess(p)
  PROVE  access' \in {access, NoToken}
  BY DEF storeVars, Begin, Run, Refreshing, Removing, LoggingInOrOut, BeginRefresh, BeginRequest,
     BeginLogin, BeginLogout, ReadInitial, Acquire, LoadProfile, ReadRefresh, ReadAccess,
     ClaimOperation, ClaimFails, Send, AnsweredBusy, Unanswered, AnsweredPair,
     AnsweredUnusable, AnsweredDenied, StoreFails, StoreRefresh, LoadMeta,
     SaveMeta, Settle, Release, SkipSync, LoadSync, SaveSync, Discard, DeleteAccess, Deletes,
     DeleteRefresh, LoadClear, SaveClear, DropClaim, Approved, NotApproved,
     LoginStoreFails, LoginRefresh, LoginMeta, RevokePrevious, RevokeStored, Crash

LEMMA StorelessSteps ==
  ASSUME LocalsOK, NEW p \in Proc, Begin(p) \/ Run(p) \/ Crash(p),
         ~StoreAccess(p), ~LoginAccess(p), ~StoreRefresh(p), ~LoginRefresh(p),
         ~AnsweredPair(p), ~Approved(p), ~ReadRefresh(p) \/ Goto(p, "release")
  PROVE  Storeless(p)
<1>0. access' \in {access, NoToken}
  BY AccessSteps
<1> USE DEF Working, Storing, LoggingIn, storeVars, serverVars
<1>1. CASE ReadRefresh(p)
  BY <1>0, <1>1, GotoFields DEF ReadRefresh, Storeless
<1>2. CASE ClaimOperation(p) \/ Send(p)
  BY <1>0, <1>2, ChainFields DEF ClaimOperation, Send, At, Keeps, Storeless
<1>3. CASE AnsweredUnusable(p) \/ AnsweredDenied(p)
  BY <1>0, <1>3, ChainFields DEF AnsweredUnusable, AnsweredDenied, Handle, Storeless
<1>4. CASE Settle(p) \/ DropClaim(p)
  BY <1>0, <1>4, ChainFields DEF Settle, DropClaim, Storeless
<1>5. CASE Quiet(p)
  BY <1>0, <1>5 DEF Quiet, Lessens, Storeless
<1> QED BY <1>1, <1>2, <1>3, <1>4, <1>5, QuietSteps DEF Run, Refreshing, Removing, LoggingInOrOut

LEMMA StorelessKeeps ==
  ASSUME AccessInv, NEW p \in Proc, Storeless(p), \A q \in Proc \ {p} : cmd'[q] = cmd[q]
  PROVE  AccessInv'
<1> USE DEF AccessInv, Storeless
<1>1. AccessKnown' BY DEF AccessKnown, HasPair
<1>2. LoginApart' BY DEF LoginApart, HasPair, LoggingIn, Storing
<1>3. InOrder' BY DEF InOrder, NotNewer
<1>4. AccessNotAhead' BY DEF AccessNotAhead
<1> QED BY <1>1, <1>2, <1>3, <1>4

(* The tokens in the store and of commands, with numbers as their generations. *)
LEMMA HeldTypes ==
  ASSUME LocalsOK
  PROVE  /\ access # NoToken => access \in Token
         /\ refresh # NoToken => refresh \in Token
         /\ \A p \in Proc : /\ Working(cmd[p]) => cmd[p].tok \in Token
                            /\ HasPair(cmd[p]) => cmd[p].pair \in Token
         /\ \A t \in Token : t.sess \in Session /\ t.gen \in Nat
<1>1. access # NoToken => access \in Token
  BY DEF LocalsOK, TypeOK, SharedTypeOK, MaybeToken
<1>2. \A p \in Proc : HasPair(cmd[p]) => cmd[p].pair \in Token
  BY DEF LocalsOK, LocalsReady, HasPair, Storing, PairStep
<1>3. \A t \in Token : t.sess \in Session /\ t.gen \in Nat
  BY DEF Token
<1> QED BY <1>1, <1>2, <1>3, TokenTypes

(* A refresh reads the token it will work on, gets its successor, or stores it. *)
LEMMA RefreshInOrder ==
  ASSUME LocalsOK, LockHeld, AccessInv, NEW p \in Proc, \A q \in Proc \ {p} : cmd'[q] = cmd[q],
         \/ ReadRefresh(p) /\ ~Goto(p, "release")
         \/ AnsweredPair(p) \/ StoreRefresh(p) \/ StoreAccess(p)
  PROVE  AccessInv'
<1> USE DEF AccessInv, HasPair, Storing, Working, LoggingIn
<1>1. CASE ReadRefresh(p) /\ ~Goto(p, "release")
  <2>1. /\ refresh # NoToken /\ UNCHANGED <<access, refresh, issued>>
        /\ cmd'[p].pc = "readAccess" /\ cmd'[p].tok = refresh
    BY <1>1, ChainFields DEF ReadRefresh, storeVars, serverVars
  <2>2. AccessKnown' BY <2>1 DEF AccessKnown
  <2>3. LoginApart' BY <2>1 DEF LoginApart
  <2>4. InOrder' BY <2>1 DEF InOrder, AccessNotAhead, NotNewer
  <2> QED BY <2>1, <2>2, <2>3, <2>4 DEF AccessNotAhead
<1>2. CASE AnsweredPair(p)
  <2>1. /\ Working(cmd[p]) /\ cmd[p].tok \in Token /\ UNCHANGED <<access, refresh, issued>>
        /\ cmd'[p].pc = "storeRefresh"
        /\ cmd'[p].pair = [sess |-> cmd[p].tok.sess, gen |-> cmd[p].tok.gen + 1]
    BY <1>2, ChainFields, HeldTypes
    DEF AnsweredPair, At, Handle, storeVars, NextPair, RequestOf
  <2>2. AccessKnown' BY <2>1 DEF AccessKnown
  <2>3. LoginApart' BY <2>1 DEF LoginApart
  <2>4. NotNewer(access, cmd'[p].pair)
    <3>1. NotNewer(access, cmd[p].tok) BY <2>1 DEF InOrder
    <3>2. cmd[p].tok # NoToken BY <2>1, NoTokenAssumption
    <3> QED BY <2>1, <3>1, <3>2, HeldTypes DEF NotNewer
  <2>5. InOrder' BY <2>1, <2>4 DEF InOrder, NotNewer
  <2> QED BY <2>1, <2>2, <2>3, <2>5 DEF AccessNotAhead
<1>3. CASE StoreRefresh(p)
  <2>1. /\ cmd[p].pc = "storeRefresh" /\ cmd'[p].pc = "storeAccess"
        /\ cmd[p].pair \in Token /\ cmd[p].pair # NoToken /\ cmd'[p].pair = cmd[p].pair
        /\ refresh' = cmd[p].pair /\ UNCHANGED <<access, issued>>
    BY <1>3, ChainFields, HeldTypes, NoTokenAssumption DEF StoreRefresh, At, Keeps, serverVars
  <2>2. \A q \in Proc \ {p} : cmd[q].pc \notin {"storeAccess"} /\ ~Working(cmd[q])
    BY <2>1, Alone DEF Locked, LockedStep, Settling
  <2>3. AccessKnown' BY <2>1 DEF AccessKnown
  <2>4. LoginApart' BY <2>1 DEF LoginApart
  <2>5. InOrder' BY <2>1, <2>2, HeldTypes DEF InOrder, NotNewer
  <2>6. AccessNotAhead' BY <2>1 DEF AccessNotAhead, InOrder, NotNewer
  <2> QED BY <2>3, <2>4, <2>5, <2>6
<1>4. CASE StoreAccess(p)
  <2>1. /\ cmd[p].pc = "storeAccess" /\ cmd'[p].pc = "loadMeta"
        /\ cmd[p].pair \in Token
        /\ access' = cmd[p].pair /\ UNCHANGED <<refresh, issued>>
    BY <1>4, GotoFields, HeldTypes DEF StoreAccess, At, serverVars
  <2>2. \A q \in Proc \ {p} : ~Working(cmd[q]) /\ cmd[q].pc \notin {"storeAccess", "storeRefresh"}
    BY <2>1, Alone DEF Locked, LockedStep, Settling
  <2>3. AccessKnown' BY <2>1 DEF AccessKnown
  <2>4. LoginApart' BY <2>1 DEF LoginApart
  <2>5. InOrder' BY <2>1, <2>2 DEF InOrder, NotNewer, LoginApart
  <2>6. AccessNotAhead' BY <2>1 DEF AccessNotAhead, InOrder, NotNewer
  <2> QED BY <2>3, <2>4, <2>5, <2>6
<1> QED BY <1>1, <1>2, <1>3, <1>4

(* A login receives the first pair of a session that nobody knows, and stores it. *)
LEMMA LoginInOrder ==
  ASSUME LocalsOK, LockHeld, AccessInv, NEW p \in Proc, \A q \in Proc \ {p} : cmd'[q] = cmd[q],
         Approved(p) \/ LoginAccess(p) \/ LoginRefresh(p)
  PROVE  AccessInv'
<1> USE DEF AccessInv, HasPair, Storing, Working, LoggingIn
<1>1. CASE Approved(p)
  <2>1. PICK s \in Session : /\ Issue(s)
                             /\ cmd'[p].pc = "loginAccess"
                             /\ cmd'[p].pair = [sess |-> s, gen |-> 0]
    BY <1>1, ChainFields
  <2>a. s \notin issued /\ issued' = issued \union {s} /\ cmd'[p].pair.sess = s
    BY <2>1 DEF Issue
  <2>b. cmd[p].pc = "poll" /\ UNCHANGED <<access, refresh>>
    BY <1>1 DEF Approved, At, storeVars
  <2>3. AccessKnown' BY <2>1, <2>a, <2>b DEF AccessKnown
  <2>4. LoginApart' BY <2>1, <2>a, <2>b DEF LoginApart, AccessKnown
  <2>5. InOrder' BY <2>1, <2>a, <2>b DEF InOrder, NotNewer, AccessKnown
  <2> QED BY <2>b, <2>3, <2>4, <2>5 DEF AccessNotAhead
<1>2. CASE LoginAccess(p)
  <2>1. /\ cmd[p].pc = "loginAccess" /\ cmd'[p].pc = "loginRefresh"
        /\ cmd[p].pair \in Token /\ cmd'[p].pair = cmd[p].pair
        /\ access' = cmd[p].pair /\ UNCHANGED <<refresh, issued>>
    BY <1>2, GotoFields, HeldTypes DEF LoginAccess, At, Keeps, serverVars
  <2>2. AccessKnown' BY <2>1 DEF AccessKnown
  <2>3. LoginApart' BY <2>1 DEF LoginApart
  <2>4. InOrder' BY <2>1, HeldTypes DEF InOrder, NotNewer, LoginApart
  <2>5. AccessNotAhead' BY <2>1 DEF AccessNotAhead, LoginApart
  <2> QED BY <2>2, <2>3, <2>4, <2>5
<1>3. CASE LoginRefresh(p)
  <2>1. /\ cmd[p].pc = "loginRefresh" /\ cmd'[p].pc = "loginMeta"
        /\ cmd[p].pair \in Token /\ cmd[p].pair # NoToken
        /\ refresh' = cmd[p].pair /\ UNCHANGED <<access, issued>>
    BY <1>3, ChainFields, HeldTypes, NoTokenAssumption DEF LoginRefresh, At, serverVars
  <2>2. AccessKnown' BY <2>1 DEF AccessKnown
  <2>3. LoginApart' BY <2>1 DEF LoginApart
  <2>4. InOrder' BY <2>1 DEF InOrder, NotNewer, LoginApart
  <2>5. AccessNotAhead' BY <2>1 DEF AccessNotAhead, InOrder, NotNewer
  <2> QED BY <2>2, <2>3, <2>4, <2>5
<1> QED BY <1>1, <1>2, <1>3

LEMMA AccessInit == Init => AccessInv
  BY DEF Init, ServerInit, AccessInv, AccessKnown, LoginApart, InOrder, AccessNotAhead, HasPair,
     Storing, Working, LoggingIn, Idle, NotNewer

LEMMA AccessNext == LocalsOK /\ LockHeld /\ AccessInv /\ [Next]_vars => AccessInv'
<1> SUFFICES ASSUME LocalsOK, LockHeld, AccessInv, [Next]_vars PROVE AccessInv'
  OBVIOUS
<1>1. ASSUME NEW p \in Proc, Begin(p) \/ Run(p) \/ Crash(p) PROVE AccessInv'
  <2>1. \A q \in Proc \ {p} : cmd'[q] = cmd[q] BY <1>1, OthersStay
  <2> QED BY <1>1, <2>1, RefreshInOrder, LoginInOrder, StorelessSteps, StorelessKeeps
<1>2. CASE Environment \/ UNCHANGED vars
  <2>1. UNCHANGED <<access, refresh, issued, cmd>>
    BY <1>2 DEF Environment, ArriveLate, Handle, ServerEnds, EndSession, EditApi, vars, storeVars,
       serverVars
  <2> QED BY <2>1 DEF AccessInv, AccessKnown, LoginApart, InOrder, AccessNotAhead
<1> QED BY <1>1, <1>2 DEF Next

(* Of one session, the stored access token is never newer than the refresh token, for any
   number of processes and deployments: the order of the two writes of
   _store_expiring_credential, the lock, and a login's new session see to that. *)
THEOREM AccessBehind == Spec => []AccessNotAhead
<1>1. AccessInv => AccessNotAhead BY DEF AccessInv
<1> QED BY <1>1, AccessInit, AccessNext, LocalsCorrect, LockExclusive, PTL DEF Spec

-----------------------------------------------------------------------------
(* Among refreshes, the pending-operation file tells of every unfinished one. *)

(* No step of a refresh leads to one of a login or a logout. *)
LEMMA StaysRefreshing ==
  ASSUME LocalsOK, RefreshesOnly, NEW p \in Proc, OnlyRefreshing(cmd[p]),
         Begin(p) \/ Run(p) \/ Crash(p)
  PROVE  /\ ~BeginLogin(p) /\ ~BeginLogout(p) /\ ~LoggingInOrOut(p)
         /\ cmd[p].pc \in RemovalStep => cmd[p].why \in RefreshRemoval /\ Locked(cmd[p])
<1>1. ~BeginLogin(p) /\ ~BeginLogout(p)
  BY DEF BeginLogin, BeginLogout, Starts, RefreshesOnly
<1>2. ~LoggingInOrOut(p)
  BY DEF LoggingInOrOut, Approved, NotApproved, LoginStoreFails, LoginAccess, LoginRefresh, LoginMeta,
     RevokePrevious, RevokeStored, At, OnlyRefreshing, LoginStep
<1>3. cmd[p].pc \in RemovalStep => cmd[p].why \in RefreshRemoval
  BY DEF LocalsOK, LocalsReady, TypeOK, CommandState, Reason, OnlyRefreshing, RefreshRemoval
<1> QED BY <1>1, <1>2, <1>3 DEF Locked

(* What is stored and on file only changes under the lock. *)
LEMMA LockedWrites ==
  ASSUME LocalsOK, RefreshesOnly, NEW p \in Proc, OnlyRefreshing(cmd[p]),
         Begin(p) \/ Run(p) \/ Crash(p)
  PROVE  ended \subseteq ended' /\ (~Locked(cmd[p]) => UNCHANGED <<access, refresh, pending>>)
<1> USE DEF storeVars, serverVars
<1>1. /\ Begin(p) => BeginRefresh(p) \/ BeginRequest(p)
      /\ ~LoggingInOrOut(p)
      /\ cmd[p].pc \in RemovalStep => Locked(cmd[p])
  BY StaysRefreshing DEF Begin
<1>2. CASE Begin(p) \/ Crash(p)
  BY <1>1, <1>2 DEF BeginRefresh, BeginRequest, Crash
<1>3. CASE \/ ReadInitial(p) \/ Acquire(p) \/ LoadProfile(p) \/ ReadRefresh(p) \/ ReadAccess(p)
           \/ ClaimFails(p) \/ Send(p) \/ AnsweredBusy(p) \/ Unanswered(p) \/ AnsweredPair(p)
           \/ AnsweredUnusable(p) \/ AnsweredDenied(p) \/ StoreFails(p) \/ LoadMeta(p) \/ SaveMeta(p)
           \/ Release(p) \/ SkipSync(p) \/ LoadSync(p) \/ SaveSync(p) \/ LoadClear(p) \/ SaveClear(p)
           \/ Discard(p)
  BY <1>3 DEF ReadInitial, Acquire, LoadProfile, ReadRefresh, ReadAccess, ClaimFails, Send, AnsweredBusy,
     Unanswered, AnsweredPair, AnsweredUnusable, AnsweredDenied, Handle, StoreFails, LoadMeta, SaveMeta,
     Release, SkipSync, LoadSync, SaveSync, LoadClear, SaveClear, Discard, Revoke
<1>4. CASE \/ ClaimOperation(p) \/ StoreRefresh(p) \/ StoreAccess(p) \/ Settle(p) \/ DropClaim(p)
           \/ DeleteAccess(p) \/ DeleteRefresh(p)
  <2>1. Locked(cmd[p])
    BY <1>1, <1>4 DEF ClaimOperation, StoreRefresh, StoreAccess, Settle, DropClaim, DeleteAccess,
       DeleteRefresh, At, Locked, LockedStep, RemovalStep
  <2>2. ended' = ended
    BY <1>4 DEF ClaimOperation, StoreRefresh, StoreAccess, Settle, DropClaim, DeleteAccess, DeleteRefresh
  <2> QED BY <2>1, <2>2
<1> QED BY <1>1, <1>2, <1>3, <1>4 DEF Run, Refreshing, Removing

(* What the step of a refresh makes of the invariant, for itself and for what is stored. *)
LEMMA OwnJournal ==
  ASSUME OneDeployment, RefreshesOnly, IInv, LocalsOK', JournalInv, NEW p \in Proc,
         Begin(p) \/ Run(p) \/ Crash(p)
  PROVE  OnlyRefreshing(cmd'[p]) /\ InJournal(cmd[p])' /\ NoClaimMeansWholePair'
<1> DEFINE Apart == {"idle", "initial", "acquire", "load", "readRefresh", "release", "loadSync", "saveSync"}
           Same == UNCHANGED <<access, refresh, pending>>
<1> USE DEF storeVars, serverVars
<1>0. /\ LocalsOK /\ LockHeld /\ ChainInv /\ NoClaimMeansWholePair
      /\ OnlyRefreshing(cmd[p]) /\ InJournal(cmd[p])
      /\ ended \subseteq ended'
  BY LockedWrites DEF IInv, JournalInv
<1>1. /\ Begin(p) => BeginRefresh(p) \/ BeginRequest(p)
      /\ ~LoggingInOrOut(p)
      /\ cmd[p].pc \in RemovalStep => cmd[p].why \in RefreshRemoval
  BY <1>0, StaysRefreshing DEF Begin
<1>a. ASSUME cmd'[p].pc \in Apart PROVE InJournal(cmd[p])'
  BY <1>a DEF InJournal, Working, OpenStep, RefreshStored, PairStored, DeniedStep, RemovalStep
<1>b. Same => NoClaimMeansWholePair'
  BY <1>0 DEF NoClaimMeansWholePair
<1>c. pending' # NoClaim => NoClaimMeansWholePair'
  BY DEF NoClaimMeansWholePair
<1>d. ASSUME Keeps(cmd[p], cmd'[p]) \/ cmd'[p].why \in {"none", "partial", "unusable", "denied"},
             cmd'[p].pc \notin LoginStep
      PROVE  OnlyRefreshing(cmd'[p])
  BY <1>0, <1>d DEF OnlyRefreshing, Keeps
<1>e. ASSUME Same, cmd'[p].pc \in Apart, Keeps(cmd[p], cmd'[p]) \/ cmd'[p].why = "none"
      PROVE  OnlyRefreshing(cmd'[p]) /\ InJournal(cmd[p])' /\ NoClaimMeansWholePair'
  BY <1>a, <1>b, <1>d, <1>e DEF LoginStep
<1>f. Finish(p) => cmd'[p].pc = "idle" /\ cmd'[p].why = "none"
  BY <1>0 DEF LocalsOK, TypeOK, Finish, Become, Idle
<1>2. CASE Begin(p)
  <2>1. Same /\ cmd'[p].pc = "initial" /\ Keeps(cmd[p], cmd'[p])
    BY <1>0, <1>1, <1>2, GotoFields, NoteFields DEF BeginRefresh, BeginRequest
  <2> QED BY <2>1, <1>e
<1>3. CASE Crash(p) \/ SkipSync(p) \/ SaveSync(p)
  <2>1. Same /\ Finish(p) BY <1>3 DEF Crash, SkipSync, SaveSync
  <2> QED BY <2>1, <1>e, <1>f
<1>4. CASE \/ ReadInitial(p) \/ Acquire(p) \/ LoadProfile(p) \/ ClaimFails(p) \/ Unanswered(p)
           \/ LoadSync(p)
  <2>1. Same BY <1>4 DEF ReadInitial, Acquire, LoadProfile, ClaimFails, Unanswered, LoadSync
  <2>2. ReadInitial(p) \/ LoadProfile(p) \/ LoadSync(p) => cmd'[p].pc \in Apart /\ Keeps(cmd[p], cmd'[p])
    BY <1>0, GotoFields, NoteFields DEF ReadInitial, LoadProfile, LoadSync
  <2>3. Acquire(p) \/ ClaimFails(p) \/ Unanswered(p) => cmd'[p].pc \in Apart /\ Keeps(cmd[p], cmd'[p])
    BY <1>0, GotoFields DEF Acquire, ClaimFails, Unanswered
  <2> QED BY <1>4, <2>1, <2>2, <2>3, <1>e
<1>5. CASE Release(p)
  <2>1. Same /\ (Goto(p, "loadSync") \/ Finish(p)) BY <1>5 DEF Release
  <2>2. CASE Goto(p, "loadSync") BY <1>0, <2>1, <2>2, <1>e, GotoFields
  <2>3. CASE Finish(p) BY <2>1, <2>3, <1>e, <1>f
  <2> QED BY <2>1, <2>2, <2>3
<1>6. CASE ReadRefresh(p)
  <2>1. Same BY <1>6 DEF ReadRefresh
  <2>2. CASE Goto(p, "release") BY <1>0, <2>1, <2>2, <1>e, GotoFields
  <2>3. CASE ~Goto(p, "release")
    <3>1. /\ cmd'[p].pc = "readAccess" /\ cmd'[p].tok = refresh
          /\ cmd'[p].why = cmd[p].why
      BY <1>0, <1>6, <2>3 DEF ReadRefresh, Become, LocalsOK, TypeOK, CommandState
    <3>2. InJournal(cmd[p])'
      BY <2>1, <3>1 DEF InJournal, OpenStep, RefreshStored, PairStored, DeniedStep, RemovalStep
    <3> QED BY <1>0, <1>b, <2>1, <3>1, <3>2 DEF OnlyRefreshing, LoginStep
  <2> QED BY <2>2, <2>3
<1>7. CASE ReadAccess(p)
  <2>1. /\ Same /\ Keeps(cmd[p], cmd'[p]) /\ cmd[p].pc = "readAccess"
        /\ cmd'[p].pc \in {"release", "claim"}
    BY <1>0, <1>7, NoteFields DEF ReadAccess, At
  <2>2. InJournal(cmd[p])'
    BY <1>0, <2>1 DEF InJournal, Working, Keeps, OpenStep, RefreshStored, PairStored, DeniedStep, RemovalStep
  <2> QED BY <1>b, <1>d, <2>1, <2>2 DEF LoginStep
<1>8. CASE ClaimOperation(p)
  <2>1. /\ cmd[p].pc = "claim" /\ cmd'[p].pc = "send" /\ cmd'[p].tok = cmd[p].tok
        /\ pending' = [tok |-> cmd[p].tok, op |-> cmd'[p].op] /\ refresh' = refresh
    BY <1>0, <1>8, ChainFields DEF ClaimOperation, At
  <2>2. cmd'[p].why = cmd[p].why
    BY <1>0, <1>8 DEF ClaimOperation, Become, LocalsOK, TypeOK, CommandState
  <2>3. pending' # NoClaim
    <3>1. cmd[p].tok \in Token BY <1>0, <2>1 DEF LocalsOK, LocalsReady, TokStep
    <3>2. cmd'[p].op \in Nat BY DEF LocalsOK, TypeOK, CommandState
    <3> QED BY <2>1, <3>1, <3>2, NoClaimAssumption DEF Claim
  <2>4. InJournal(cmd[p])'
    BY <1>0, <2>1, <2>3 DEF InJournal, Working, RefreshStored, PairStored, DeniedStep, RemovalStep
  <2> QED BY <1>0, <1>c, <2>1, <2>2, <2>3, <2>4 DEF OnlyRefreshing, LoginStep
<1>9. CASE Send(p) \/ AnsweredBusy(p)
  <2>1. /\ Same /\ Keeps(cmd[p], cmd'[p]) /\ cmd[p].pc \in {"send", "wait"}
        /\ cmd'[p].pc \in {"send", "wait"}
    BY <1>0, <1>9, ChainFields, GotoFields DEF Send, AnsweredBusy, At
  <2>2. InJournal(cmd[p])'
    BY <1>0, <2>1 DEF InJournal, Working, Keeps, OpenStep, RefreshStored, PairStored, DeniedStep, RemovalStep
  <2> QED BY <1>b, <1>d, <2>1, <2>2 DEF LoginStep
<1>10. CASE AnsweredPair(p) \/ AnsweredUnusable(p)
  <2>1. /\ Same /\ cmd[p].pc = "wait"
        /\ \/ cmd'[p].pc = "storeRefresh" /\ cmd'[p].why = "none"
           \/ cmd'[p].pc = "deleteAccess" /\ cmd'[p].why = "unusable"
    BY <1>0, <1>10 DEF AnsweredPair, AnsweredUnusable, At, Become, LocalsOK, TypeOK, Idle
  <2>2. InJournal(cmd[p])'
    BY <1>0, <2>1 DEF InJournal, Working, OpenStep, RefreshStored, PairStored, DeniedStep, RemovalStep
  <2> QED BY <1>b, <1>d, <2>1, <2>2 DEF LoginStep
<1>11. CASE AnsweredDenied(p)
  <2>1. /\ Same /\ cmd[p].pc = "wait" /\ ended' = ended
        /\ cmd'[p].pc = "deleteAccess" /\ cmd'[p].why = "denied"
    BY <1>0, <1>11, ChainFields DEF AnsweredDenied, At
  <2>2. cmd[p].tok.sess \in ended /\ refresh = cmd[p].tok
    BY <1>0, <1>11, <2>1, DeniedEnds DEF InJournal, Working
  <2>3. InJournal(cmd[p])'
    BY <1>0, <2>1, <2>2 DEF InJournal, Working, OpenStep, RefreshStored, PairStored
  <2> QED BY <1>b, <1>d, <2>1, <2>3 DEF LoginStep
<1>12. CASE StoreFails(p)
  <2>1. /\ Same /\ cmd[p].pc \in OpenStep /\ cmd'[p].pc = "discard" /\ cmd'[p].why = "partial"
    BY <1>0, <1>12 DEF StoreFails, Become, LocalsOK, TypeOK, CommandState, OpenStep
  <2>2. InJournal(cmd[p])'
    BY <1>0, <2>1 DEF InJournal, Working, RefreshStored, PairStored, DeniedStep
  <2> QED BY <1>b, <1>d, <2>1, <2>2 DEF LoginStep
<1>13. CASE StoreRefresh(p)
  <2>1. /\ cmd[p].pc = "storeRefresh" /\ cmd'[p].pc = "storeAccess" /\ Keeps(cmd[p], cmd'[p])
        /\ refresh' = cmd[p].pair /\ pending' = pending
    BY <1>0, <1>13, ChainFields DEF StoreRefresh, At
  <2>2. pending # NoClaim BY <1>0, <2>1 DEF InJournal, OpenStep
  <2>3. InJournal(cmd[p])'
    BY <2>1, <2>2 DEF InJournal, Working, Keeps, PairStored, DeniedStep, RemovalStep
  <2> QED BY <1>c, <1>d, <2>1, <2>2, <2>3 DEF LoginStep
<1>14. CASE StoreAccess(p)
  <2>1. /\ cmd[p].pc = "storeAccess" /\ cmd'[p].pc = "loadMeta" /\ Keeps(cmd[p], cmd'[p])
        /\ access' = cmd[p].pair /\ refresh' = refresh /\ pending' = pending
    BY <1>0, <1>14, GotoFields DEF StoreAccess, At
  <2>2. pending # NoClaim /\ refresh = cmd[p].pair
    BY <1>0, <2>1 DEF InJournal, OpenStep, RefreshStored
  <2>3. InJournal(cmd[p])'
    BY <2>1, <2>2 DEF InJournal, Working, Keeps, DeniedStep, RemovalStep
  <2> QED BY <1>c, <1>d, <2>1, <2>2, <2>3 DEF LoginStep
<1>15. CASE LoadMeta(p) \/ SaveMeta(p)
  <2>1. /\ Same /\ Keeps(cmd[p], cmd'[p]) /\ cmd[p].pc \in {"loadMeta", "saveMeta"}
        /\ cmd'[p].pc \in {"saveMeta", "settle"}
    BY <1>0, <1>15, NoteFields, GotoFields DEF LoadMeta, SaveMeta, At
  <2>2. pending # NoClaim /\ refresh = cmd[p].pair /\ access = cmd[p].pair
    BY <1>0, <2>1 DEF InJournal, OpenStep, RefreshStored, PairStored
  <2>3. InJournal(cmd[p])'
    BY <2>1, <2>2 DEF InJournal, Working, Keeps, DeniedStep, RemovalStep
  <2> QED BY <1>b, <1>d, <2>1, <2>3 DEF LoginStep
<1>16. CASE Settle(p)
  <2>1. /\ cmd[p].pc = "settle" /\ cmd'[p].pc = "release" /\ cmd'[p].why = cmd[p].why
        /\ UNCHANGED <<access, refresh>>
    BY <1>0, <1>16 DEF Settle, At, Become, LocalsOK, TypeOK, CommandState
  <2>2. access = refresh BY <1>0, <2>1 DEF InJournal, RefreshStored, PairStored
  <2>3. NoClaimMeansWholePair' BY <2>1, <2>2 DEF NoClaimMeansWholePair
  <2> QED BY <1>0, <1>a, <2>1, <2>3 DEF OnlyRefreshing, LoginStep
<1>17. CASE DropClaim(p)
  <2>1. /\ cmd[p].pc = "dropClaim" /\ cmd'[p].pc = "release" /\ Keeps(cmd[p], cmd'[p])
        /\ UNCHANGED <<access, refresh>>
    BY <1>0, <1>17, GotoFields DEF DropClaim, At
  <2>2. NoClaimMeansWholePair'
    BY <1>0, <2>1 DEF NoClaimMeansWholePair, InJournal, DeniedStep
  <2> QED BY <1>a, <1>d, <2>1, <2>2 DEF LoginStep
<1>18. CASE Discard(p) \/ DeleteAccess(p) \/ DeleteRefresh(p) \/ LoadClear(p)
  <2>1. cmd[p].pc \in RemovalStep /\ cmd[p].why # "loginFailed"
    BY <1>0, <1>18 DEF Discard, DeleteAccess, DeleteRefresh, LoadClear, At, RemovalStep, OnlyRefreshing
  <2>2. /\ pending' = pending /\ refresh' \in {refresh, NoToken} /\ Keeps(cmd[p], cmd'[p])
        /\ cmd'[p].pc \in RemovalStep
    <3>1. CASE Discard(p)
      BY <1>0, <2>1, <3>1, GotoFields DEF Discard, RemovalStep
    <3>2. CASE DeleteAccess(p) \/ DeleteRefresh(p)
      BY <1>0, <2>1, <3>2, GotoFields DEF DeleteAccess, DeleteRefresh, Deletes, RemovalStep
    <3>3. CASE LoadClear(p)
      BY <1>0, <3>3, NoteFields DEF LoadClear, RemovalStep
    <3> QED BY <1>18, <3>1, <3>2, <3>3
  <2>3. pending # NoClaim BY <1>0, <2>1 DEF InJournal, OpenStep
  <2>4. cmd'[p].why = "denied" /\ refresh' # NoToken => refresh'.sess \in ended'
    BY <1>0, <2>1, <2>2 DEF InJournal, DeniedStep, Keeps
  <2>5. InJournal(cmd[p])'
    BY <2>2, <2>3, <2>4 DEF InJournal, Working, RefreshStored, PairStored, DeniedStep, RemovalStep
  <2> QED BY <1>c, <1>d, <2>2, <2>3, <2>5 DEF LoginStep, RemovalStep
<1>19. CASE SaveClear(p)
  <2>1. Same /\ cmd[p].pc = "saveClear" BY <1>19 DEF SaveClear, At
  <2>2. cmd[p].why \in RefreshRemoval BY <1>1, <2>1 DEF RemovalStep
  <2>3. CASE cmd[p].why = "denied"
    <3>1. cmd'[p].pc = "dropClaim" /\ Keeps(cmd[p], cmd'[p])
      BY <1>0, <1>19, <2>3, GotoFields DEF SaveClear, AfterClear
    <3>2. pending # NoClaim /\ (refresh # NoToken => refresh.sess \in ended)
      BY <1>0, <2>1, <2>3 DEF InJournal, OpenStep, DeniedStep, RemovalStep
    <3>3. InJournal(cmd[p])'
      BY <1>0, <2>1, <3>1, <3>2 DEF InJournal, Working, RefreshStored, PairStored
    <3> QED BY <1>b, <1>d, <2>1, <3>1, <3>3 DEF LoginStep
  <2>4. CASE cmd[p].why # "denied"
    <3>1. AfterClear(cmd[p].why) = "release" BY <2>2, <2>4 DEF AfterClear, RefreshRemoval
    <3>2. cmd'[p].pc = "release" /\ Keeps(cmd[p], cmd'[p])
      BY <1>0, <1>19, <3>1, GotoFields DEF SaveClear
    <3> QED BY <1>e, <2>1, <3>2
  <2> QED BY <2>3, <2>4
<1> QED BY <1>1, <1>2, <1>3, <1>4, <1>5, <1>6, <1>7, <1>8, <1>9, <1>10, <1>11, <1>12, <1>13, <1>14,
   <1>15, <1>16, <1>17, <1>18, <1>19 DEF Run, Refreshing, Removing

LEMMA JournalInit == Init => JournalInv
<1> SUFFICES ASSUME Init PROVE JournalInv
  OBVIOUS
<1>1. \A p \in Proc : cmd[p].pc = "idle" /\ cmd[p].why = "none"
  BY DEF Init, Idle
<1>2. access = refresh
  BY DEF Init
<1>3. \A p \in Proc : OnlyRefreshing(cmd[p]) /\ InJournal(cmd[p])
  BY <1>1 DEF OnlyRefreshing, InJournal, LoginStep, OpenStep, RemovalStep, Working, RefreshStored,
     PairStored, DeniedStep
<1> QED BY <1>2, <1>3 DEF JournalInv, NoClaimMeansWholePair

LEMMA JournalNext ==
  ASSUME OneDeployment, RefreshesOnly
  PROVE  IInv /\ LocalsOK' /\ JournalInv /\ [Next]_vars => JournalInv'
<1> SUFFICES ASSUME IInv, LocalsOK', JournalInv, [Next]_vars PROVE JournalInv'
  OBVIOUS
<1>1. ASSUME NEW p \in Proc, Begin(p) \/ Run(p) \/ Crash(p) PROVE JournalInv'
  <2>1. OnlyRefreshing(cmd'[p]) /\ InJournal(cmd[p])' /\ NoClaimMeansWholePair'
    BY <1>1, OwnJournal
  <2>2. ASSUME NEW q \in Proc \ {p} PROVE OnlyRefreshing(cmd'[q]) /\ InJournal(cmd[q])'
    <3>1. cmd'[q] = cmd[q] BY <1>1, OthersStay DEF IInv
    <3>2. OnlyRefreshing(cmd[q]) /\ InJournal(cmd[q]) BY DEF JournalInv
    <3>3. /\ ended \subseteq ended'
          /\ ~Locked(cmd[p]) => UNCHANGED <<access, refresh, pending>>
      BY <1>1, LockedWrites DEF IInv, JournalInv
    <3>4. CASE Locked(cmd[q])
      <4>1. UNCHANGED <<access, refresh, pending>>
        BY <3>3, <3>4 DEF IInv, LockHeld
      <4>2. InJournal(cmd[q])'
        BY <3>1, <3>2, <3>3, <4>1 DEF InJournal
      <4> QED BY <3>1, <3>2, <4>2
    <3>5. CASE ~Locked(cmd[q])
      <4>1. cmd[q].pc \notin OpenStep /\ ~Working(cmd[q])
        <5>1. cmd[q].pc \in RemovalStep => cmd[q].why \in RefreshRemoval
          BY <3>2 DEF IInv, LocalsOK, LocalsReady, TypeOK, CommandState, Reason, OnlyRefreshing, RefreshRemoval
        <5> QED BY <3>5, <5>1 DEF OpenStep, Working, Locked, LockedStep
      <4>2. InJournal(cmd[q])'
        BY <3>1, <4>1 DEF InJournal, Working, OpenStep, RefreshStored, PairStored, DeniedStep
      <4> QED BY <3>1, <3>2, <4>2
    <3> QED BY <3>4, <3>5
  <2> QED BY <2>1, <2>2 DEF JournalInv
<1>2. CASE Environment \/ UNCHANGED vars
  <2>1. UNCHANGED <<access, refresh, pending, cmd>> /\ ended \subseteq ended'
    BY <1>2 DEF Environment, ArriveLate, Handle, ServerEnds, EndSession, EditApi, vars, storeVars,
       serverVars
  <2>2. NoClaimMeansWholePair' BY <2>1 DEF JournalInv, NoClaimMeansWholePair
  <2>3. \A p \in Proc : OnlyRefreshing(cmd'[p]) /\ InJournal(cmd[p])'
    BY <2>1 DEF JournalInv, InJournal
  <2> QED BY <2>2, <2>3 DEF JournalInv
<1> QED BY <1>1, <1>2 DEF Next

(* Among refreshes of one deployment, however many at a time, killed and failing anywhere:
   with no operation on file, the stored tokens of a live session are one pair.  That is what
   the order of the four writes and of the removal of the file is for
   (_store_expiring_credential). *)
THEOREM NoClaimWholePair ==
  ASSUME OneDeployment, RefreshesOnly PROVE Spec => []NoClaimMeansWholePair
<1>1. JournalInv => NoClaimMeansWholePair BY DEF JournalInv
<1>2. Spec => []IInv BY ChainCorrect
<1>3. Init => JournalInv BY JournalInit
<1>4. IInv /\ LocalsOK' /\ JournalInv /\ [Next]_vars => JournalInv' BY JournalNext
<1>5. Spec => []JournalInv BY <1>2, <1>3, <1>4, LocalsCorrect, PTL DEF Spec
<1> QED BY <1>1, <1>5, PTL

-----------------------------------------------------------------------------
(* The refinement of RotationChain, for one deployment *)

(* A pair about to be stored has not been claimed: no operation is on file for a token
   that was never in the store. *)
PairUnclaimed ==
  /\ pending # NoClaim => pending.tok.sess \in issued
  /\ \A p \in Proc : Storing(cmd[p]) /\ pending # NoClaim => pending.tok # cmd[p].pair

(* What the mapping makes of the store and the file. *)
OnFile == Holds /\ pending # NoClaim /\ pending.tok = refresh

ChainStep == [Chain!Next]_(Chain!vars)

LEMMA UnclaimedNext == IInv /\ PairUnclaimed /\ [Next]_vars => PairUnclaimed'
<1> SUFFICES ASSUME IInv, PairUnclaimed, [Next]_vars PROVE PairUnclaimed'
  OBVIOUS
<1>0. LocalsOK /\ LockHeld /\ ChainInv
  BY DEF IInv
<1>1. ASSUME NEW p \in Proc, Begin(p) \/ Run(p) \/ Crash(p) PROVE PairUnclaimed'
  <2>0. \A q \in Proc \ {p} : cmd'[q] = cmd[q] BY <1>0, <1>1, OthersStay
  <2>1. CASE Approved(p)
    <3>1. PICK s \in Session : Issue(s) /\ cmd'[p].pair = [sess |-> s, gen |-> 0]
      BY <1>0, <2>1, ChainFields
    <3>2. s \notin issued /\ issued' = issued \union {s} /\ cmd'[p].pair.sess = s
      BY <3>1 DEF Issue
    <3>3. UNCHANGED pending
      BY <2>1 DEF Approved
    <3> QED BY <2>0, <3>2, <3>3 DEF PairUnclaimed
  <2>2. CASE AnsweredPair(p)
    <3>1. /\ Working(cmd[p]) /\ Claimed(cmd[p]) /\ UNCHANGED <<pending, issued>>
          /\ cmd'[p].pair = [sess |-> cmd[p].tok.sess, gen |-> cmd[p].tok.gen + 1]
      BY <1>0, <2>2, ChainFields
      DEF AnsweredPair, At, Working, Claimed, Handle, NextPair, RequestOf
    <3>2. pending = [tok |-> cmd[p].tok, op |-> cmd[p].op] /\ cmd[p].tok.gen \in Nat
      BY <1>0, <3>1, TokenTypes DEF ChainInv, ClaimOnFile
    <3>3. pending.tok.gen # cmd'[p].pair.gen
      BY <3>1, <3>2
    <3> QED BY <2>0, <3>1, <3>3 DEF PairUnclaimed
  <2>3. CASE ClaimOperation(p)
    <3>1. /\ Locked(cmd[p]) /\ Working(cmd[p]) /\ ~Storing(cmd'[p]) /\ UNCHANGED issued
          /\ pending' = [tok |-> cmd[p].tok, op |-> cmd'[p].op]
      BY <1>0, <2>3, ChainFields
      DEF ClaimOperation, At, Locked, LockedStep, Working, Storing, serverVars
    <3>2. \A q \in Proc : Storing(cmd'[q]) => LoggingIn(cmd[q]) /\ q # p /\ cmd'[q] = cmd[q]
      BY <1>0, <2>0, <3>1, Alone DEF Storing, LoggingIn
    <3>3. \A q \in Proc : Storing(cmd'[q]) => cmd'[q].pair.sess # cmd[p].tok.sess
      BY <1>0, <3>1, <3>2 DEF ChainInv, LoginPrivate
    <3>4. cmd[p].tok.sess \in issued
      BY <1>0, <3>1 DEF ChainInv, Known
    <3> QED BY <3>1, <3>3, <3>4 DEF PairUnclaimed
  <2>4. CASE Quiet(p)
    BY <2>0, <2>4 DEF Quiet, Lessens, PairUnclaimed
  <2>5. CASE StoreRefresh(p) \/ LoginRefresh(p) \/ ReadRefresh(p) \/ Send(p)
             \/ AnsweredUnusable(p) \/ AnsweredDenied(p)
    <3>1. UNCHANGED <<pending, issued>>
      BY <2>5 DEF StoreRefresh, LoginRefresh, ReadRefresh, Send, AnsweredUnusable, AnsweredDenied,
         Handle, serverVars
    <3>2. ~Storing(cmd'[p])
      BY <1>0, <2>5, ChainFields, GotoFields DEF Storing
    <3> QED BY <2>0, <3>1, <3>2 DEF PairUnclaimed
  <2>6. CASE Settle(p) \/ DropClaim(p)
    BY <2>6 DEF Settle, DropClaim, PairUnclaimed
  <2> QED BY <1>0, <1>1, <2>1, <2>2, <2>3, <2>4, <2>5, <2>6, QuietSteps
          DEF Run, Refreshing, Removing, LoggingInOrOut
<1>2. CASE Environment \/ UNCHANGED vars
  <2>1. UNCHANGED <<pending, issued, cmd>>
    BY <1>2 DEF Environment, ArriveLate, Handle, ServerEnds, EndSession, EditApi, vars, serverVars
  <2> QED BY <2>1 DEF PairUnclaimed
<1> QED BY <1>1, <1>2 DEF Next

-----------------------------------------------------------------------------
(* The steps of RotationChain, in terms of the store, the file and the service. *)
LEMMA MapInit == Init => Chain!Init
<1> SUFFICES ASSUME Init PROVE Chain!Init
  OBVIOUS
<1>1. newest[Watched] = 0 /\ Watched \notin ended
  BY WatchedAssumption DEF Init, ServerInit
<1>2. refresh = NoToken \/ \E s \in Session : refresh = [sess |-> s, gen |-> 0]
  BY DEF Init
<1>3. pending = NoClaim
  BY DEF Init
<1> QED BY <1>1, <1>2, <1>3 DEF Chain!Init, Holds

(* Nothing changes that the mapping looks at, except that the session may end. *)
LEMMA MapEnd ==
  ASSUME UNCHANGED <<refresh, pending, newest>>, ended \subseteq ended'
  PROVE  ChainStep
<1>1. CASE Watched \in ended' /\ Watched \notin ended
  BY <1>1 DEF ChainStep, Chain!Next, Chain!End, Holds
<1>2. CASE ~(Watched \in ended' /\ Watched \notin ended)
  BY <1>2 DEF ChainStep, Chain!vars, Holds
<1> QED BY <1>1, <1>2

(* The credential goes, or stays. *)
LEMMA MapLose ==
  ASSUME refresh' = NoToken, UNCHANGED <<newest, ended>>
  PROVE  ChainStep
  BY DEF ChainStep, Chain!Next, Chain!Lose, Holds

(* The service handles a request of the stored token, which is claimed, or of a session the
   store has no token of. *)
LEMMA MapHandle ==
  ASSUME LocalsOK, NEW r, r.tok \in Token, Handle(r), UNCHANGED <<refresh, pending>>,
         Rotates(r) /\ r.tok.sess = Watched /\ Holds => OnFile /\ refresh.gen = newest[Watched]
  PROVE  ChainStep
<1>0. Watched \in Session /\ newest[Watched] \in Nat /\ UNCHANGED ended
  BY WatchedAssumption DEF LocalsOK, TypeOK, ServerTypeOK, Handle
<1>1. CASE Rotates(r) /\ r.tok.sess = Watched
  <2>1. newest'[Watched] = newest[Watched] + 1 /\ Watched \notin ended
    BY <1>1, HandleServer DEF Rotates, Serves
  <2> QED BY <1>0, <1>1, <2>1 DEF ChainStep, Chain!Next, Chain!Advance, Holds, OnFile
<1>2. CASE ~(Rotates(r) /\ r.tok.sess = Watched)
  <2>1. newest'[Watched] = newest[Watched]
    BY <1>0, <1>2, HandleServer
  <2> QED BY <1>0, <2>1 DEF ChainStep, Chain!vars, Holds
<1> QED BY <1>1, <1>2

(* A request that arrives late. *)
LEMMA MapLate ==
  ASSUME IInv, NEW r \in sent, ArriveLate(r)
  PROVE  ChainStep
<1>0. LocalsOK /\ ChainInv
  BY DEF IInv
<1>1. /\ r.tok \in Token /\ r.tok.gen \in Nat
      /\ Handle(r) /\ UNCHANGED <<refresh, pending>>
  BY <1>0, TokenTypes DEF ArriveLate, storeVars
<1>2. ASSUME Rotates(r), r.tok.sess = Watched, Holds
      PROVE  OnFile /\ refresh.gen = newest[Watched]
  <2>1. /\ Usable(refresh) /\ refresh \in Token /\ refresh.gen \in Nat
        /\ refresh.sess = r.tok.sess /\ r.tok.sess \notin ended /\ r.tok.gen = newest[Watched]
    BY <1>0, <1>2, TokenTypes DEF ChainInv, StoredUsable, Holds, Rotates, Serves
  <2>2. refresh.gen = r.tok.gen
    BY <1>1, <1>2, <2>1 DEF Usable
  <2>3. refresh = r.tok
    BY <1>1, <2>1, <2>2 DEF Token
  <2>4. pending = [tok |-> refresh, op |-> r.op]
    BY <2>1, <2>3 DEF Usable
  <2>5. r.op \in Nat
    BY <1>0 DEF LocalsOK, TypeOK, SharedTypeOK, Request
  <2>6. pending # NoClaim
    BY <2>1, <2>4, <2>5, NoClaimAssumption DEF Claim
  <2> QED BY <1>2, <2>1, <2>2, <2>4, <2>6 DEF OnFile
<1> QED BY <1>0, <1>1, <1>2, MapHandle

(* A request that is answered. *)
LEMMA MapAccepted ==
  ASSUME IInv, NEW p \in Proc, AnsweredPair(p) \/ AnsweredUnusable(p)
  PROVE  ChainStep
<1> DEFINE r == RequestOf(cmd[p])
<1>0. LocalsOK /\ ChainInv
  BY DEF IInv
<1>1. /\ Working(cmd[p]) /\ Claimed(cmd[p]) /\ r.tok = cmd[p].tok
      /\ Handle(r) /\ UNCHANGED <<refresh, pending>>
  BY DEF AnsweredPair, AnsweredUnusable, At, Working, Claimed, RequestOf, storeVars
<1>2. /\ r.tok \in Token /\ cmd[p].op \in Nat
      /\ pending = [tok |-> r.tok, op |-> cmd[p].op]
      /\ refresh \notin {NoToken, r.tok} => refresh.sess # r.tok.sess
  BY <1>0, <1>1, TokenTypes DEF ChainInv, ClaimOnFile, WorkingUsable, LocalsOK, TypeOK, CommandState
<1>3. pending # NoClaim /\ pending.tok = r.tok
  BY <1>2, NoClaimAssumption DEF Claim
<1> HIDE DEF r
<1>4. ASSUME Rotates(r), r.tok.sess = Watched, Holds
      PROVE  OnFile /\ refresh.gen = newest[Watched]
  <2>1. refresh = r.tok BY <1>2, <1>4 DEF Holds
  <2> QED BY <1>3, <1>4, <2>1 DEF OnFile, Rotates
<1> QED BY <1>0, <1>1, <1>2, <1>4, MapHandle

(* The operation is put on file for the token that is stored; or for one that is not any
   more, and then the stored one does not need the file. *)
LEMMA MapClaim ==
  ASSUME IInv, NEW p \in Proc, ClaimOperation(p)
  PROVE  ChainStep
<1>0. LocalsOK /\ ChainInv
  BY DEF IInv
<1>1. /\ Working(cmd[p]) /\ UNCHANGED <<refresh, newest, ended>>
      /\ pending' = [tok |-> cmd[p].tok, op |-> cmd'[p].op]
      /\ pending' = pending \/ ~(pending # NoClaim /\ pending.tok = cmd[p].tok)
  BY <1>0, ChainFields DEF ClaimOperation, At, Working, storeVars, serverVars
<1>2. /\ refresh # NoToken => Usable(refresh)
      /\ refresh \notin {NoToken, cmd[p].tok} => Fresh(refresh)
  BY <1>0, <1>1 DEF ChainInv, StoredUsable, WorkingUsable
<1>3. CASE pending' = pending
  BY <1>1, <1>3 DEF ChainStep, Chain!vars, Holds
<1>4. CASE pending' # pending /\ ~Holds
  BY <1>1, <1>4 DEF ChainStep, Chain!vars, Holds
<1>5. CASE pending' # pending /\ Holds /\ refresh = cmd[p].tok
  <2>1. ~OnFile
    BY <1>1, <1>5 DEF OnFile
  <2>2. Watched \in ended \/ refresh.gen = newest[Watched]
    <3>1. \A n : pending # NoClaim => pending # [tok |-> refresh, op |-> n]
      BY <2>1, <1>5 DEF OnFile
    <3>2. rotatedBy[Watched] \in Nat /\ refresh \in Token
      BY <1>0, <1>5, TokenTypes, WatchedAssumption DEF Holds
    <3>3. pending = NoClaim => pending # [tok |-> refresh, op |-> rotatedBy[Watched]]
      BY <3>2, NoClaimAssumption DEF Claim
    <3> QED BY <1>2, <1>5, <3>1, <3>3 DEF Usable, Holds
  <2>3. pending' # NoClaim /\ pending'.tok = refresh
    <3>1. pending' = [tok |-> refresh, op |-> lastOp + 1]
      BY <1>5 DEF ClaimOperation
    <3>2. refresh \in Token /\ lastOp + 1 \in Nat
      BY <1>0, <1>5, TokenTypes DEF Holds, LocalsOK, TypeOK, SharedTypeOK
    <3> QED BY <3>1, <3>2, NoClaimAssumption DEF Claim
  <2>4. refresh.gen # NoToken
    BY <1>0, <1>5, TokenTypes, NothingAssumption DEF Holds
  <2> QED BY <1>1, <1>5, <2>1, <2>2, <2>3, <2>4
          DEF ChainStep, Chain!Next, Chain!Claim, Holds, OnFile
<1>6. CASE pending' # pending /\ Holds /\ refresh # cmd[p].tok
  <2>1. Watched \in ended \/ refresh.gen = newest[Watched]
    BY <1>2, <1>6 DEF Fresh, Holds
  <2>2. ~(pending'.tok = refresh)
    BY <1>1, <1>6
  <2> QED BY <1>1, <1>6, <2>1, <2>2 DEF ChainStep, Chain!Next, Chain!Drop, Holds
<1> QED BY <1>3, <1>4, <1>5, <1>6

(* A pair's refresh token is stored: it is the newest, and has no operation on file. *)
LEMMA MapStore ==
  ASSUME IInv, PairUnclaimed, NEW p \in Proc, StoreRefresh(p) \/ LoginRefresh(p)
  PROVE  ChainStep
<1>0. LocalsOK /\ ChainInv
  BY DEF IInv
<1>1. /\ Storing(cmd[p]) /\ refresh' = cmd[p].pair /\ UNCHANGED <<pending, newest, ended>>
  BY DEF StoreRefresh, LoginRefresh, At, Storing, serverVars
<1>2. /\ Fresh(cmd[p].pair) /\ cmd[p].pair \in Token /\ cmd[p].pair.gen \in Nat
      /\ cmd[p].pair # NoToken
      /\ pending # NoClaim => pending.tok # cmd[p].pair
  BY <1>0, <1>1, TokenTypes, NoTokenAssumption DEF ChainInv, StoringFresh, PairUnclaimed
<1>3. CASE cmd[p].pair.sess = Watched
  <2>1. Watched \in ended \/ cmd[p].pair.gen = newest[Watched]
    BY <1>2, <1>3 DEF Fresh
  <2> QED BY <1>1, <1>2, <1>3, <2>1 DEF ChainStep, Chain!Next, Chain!Adopt, Holds
<1>4. CASE cmd[p].pair.sess # Watched
  BY <1>1, <1>2, <1>4 DEF ChainStep, Chain!Next, Chain!Lose, Holds
<1> QED BY <1>3, <1>4

(* The file is removed when the stored token is the newest. *)
LEMMA MapSettle ==
  ASSUME IInv, NEW p \in Proc, Settle(p) \/ DropClaim(p)
  PROVE  ChainStep
<1>0. LocalsOK /\ ChainInv
  BY DEF IInv
<1>1. Settling(cmd[p]) /\ pending' = NoClaim /\ UNCHANGED <<refresh, newest, ended>>
  BY DEF Settle, DropClaim, At, Settling, storeVars, serverVars
<1>2. Holds => Watched \in ended \/ refresh.gen = newest[Watched]
  BY <1>0, <1>1 DEF ChainInv, SettlingFresh, Fresh, Holds
<1>3. CASE Holds
  BY <1>1, <1>2, <1>3 DEF ChainStep, Chain!Next, Chain!Drop, Holds
<1>4. CASE ~Holds
  BY <1>1, <1>4 DEF ChainStep, Chain!vars, Holds
<1> QED BY <1>3, <1>4

(* Whatever else a command does. *)
LEMMA MapQuiet ==
  ASSUME NEW p \in Proc, Quiet(p), Run(p) \/ Begin(p) \/ Crash(p), ~StoreRefresh(p), ~LoginRefresh(p)
  PROVE  ChainStep
<1>1. CASE refresh' = refresh
  BY <1>1, MapEnd DEF Quiet
<1>2. CASE refresh' # refresh
  <2>1. DeleteRefresh(p)
    BY <1>2 DEF Run, Begin, Refreshing, Removing, LoggingInOrOut, storeVars, BeginRefresh,
     BeginRequest, BeginLogin, BeginLogout, ReadInitial, Acquire, LoadProfile, ReadRefresh,
     ReadAccess, ClaimOperation, ClaimFails, Send, AnsweredBusy, Unanswered, AnsweredPair,
     AnsweredUnusable, AnsweredDenied, StoreFails, StoreAccess, LoadMeta, SaveMeta, Settle, Release,
     SkipSync, LoadSync, SaveSync, Discard, DeleteAccess, LoadClear, SaveClear, DropClaim, Approved,
     NotApproved, LoginStoreFails, LoginAccess, LoginMeta, RevokePrevious, RevokeStored, Crash
  <2> QED BY <1>2, <2>1, MapLose DEF Quiet, DeleteRefresh, serverVars
<1> QED BY <1>1, <1>2

(* Every step of DeviceSession is a step of RotationChain or none. *)
LEMMA StepsAsChain == IInv /\ PairUnclaimed /\ [Next]_vars => ChainStep
<1> SUFFICES ASSUME IInv, PairUnclaimed, [Next]_vars PROVE ChainStep
  OBVIOUS
<1>0. LocalsOK
  BY DEF IInv
<1>1. ASSUME NEW p \in Proc, Begin(p) \/ Run(p) \/ Crash(p) PROVE ChainStep
  <2>1. CASE StoreRefresh(p) \/ LoginRefresh(p) BY <2>1, MapStore
  <2>2. CASE Quiet(p) /\ ~StoreRefresh(p) /\ ~LoginRefresh(p) BY <1>1, <2>2, MapQuiet
  <2>3. CASE AnsweredPair(p) \/ AnsweredUnusable(p) BY <2>3, MapAccepted
  <2>4. CASE ClaimOperation(p) BY <2>4, MapClaim
  <2>5. CASE Settle(p) \/ DropClaim(p) BY <2>5, MapSettle
  <2>6. CASE ReadRefresh(p) \/ Send(p) \/ AnsweredDenied(p) \/ Approved(p)
    <3>1. UNCHANGED <<refresh, pending, newest, ended>>
      BY <2>6 DEF ReadRefresh, Send, AnsweredDenied, Approved, Issue, storeVars, serverVars
    <3> QED BY <3>1, MapEnd
  <2> QED BY <1>0, <1>1, <2>1, <2>2, <2>3, <2>4, <2>5, <2>6, QuietSteps
          DEF Run, Refreshing, Removing, LoggingInOrOut
<1>2. CASE Environment \/ UNCHANGED vars
  <2>1. ASSUME NEW r \in sent, ArriveLate(r) PROVE ChainStep
    BY <2>1, MapLate
  <2>2. ASSUME ~(\E r \in sent : ArriveLate(r)) PROVE ChainStep
    <3>1. UNCHANGED <<refresh, pending, newest>> /\ ended \subseteq ended'
      BY <1>2, <2>2 DEF Environment, ServerEnds, EndSession, EditApi, vars, storeVars, serverVars
    <3> QED BY <3>1, MapEnd
  <2> QED BY <2>1, <2>2
<1> QED BY <1>1, <1>2 DEF Next

(* If all sessions come from one deployment, everything that any number of processes, logins,
   files and messages do to a session is what RotationChain allows: the service's chain moves
   past a stored refresh token only if the pending-operation file claims it, and the claim
   stays until the token that replaces it is stored (refresh_expiring_credential). *)
THEOREM Implements == ASSUME OneDeployment PROVE Spec => ImplementsRotationChain
<1>1. Init => Chain!Init /\ PairUnclaimed
  BY MapInit DEF Init, PairUnclaimed
<1>2. IInv /\ PairUnclaimed /\ [Next]_vars => PairUnclaimed'
  BY UnclaimedNext
<1>3. IInv /\ PairUnclaimed /\ [Next]_vars => [Chain!Next]_(Chain!vars)
  BY StepsAsChain DEF ChainStep
<1> QED BY <1>1, <1>2, <1>3, ChainCorrect, PTL DEF Spec, ImplementsRotationChain, Chain!Spec
=============================================================================
