---------------------- MODULE ServiceCommands_proofs ----------------------
(***************************************************************************)
(* Proofs about one request, the wait for a login's approval, the staging  *)
(* of evidence and a listing: for every service, file and edit, and for    *)
(* every interval, lifetime of a code, collection and size of its pages;   *)
(* and about the stores that keep what a login obtained: for any stores,   *)
(* processes and profiles, wherever calls fail and commands are killed.    *)
(***************************************************************************)
EXTENDS ApiRequest, DevicePoll, Evidence, Listing, CredentialStores, SequenceTheorems, TLAPS

-----------------------------------------------------------------------------
(* One request *)

RequestRecord ==
    [kind : RequestKind, at : {"idle", "send", "refresh", "done", "failed"}, allowed : BOOLEAN,
     fresh : BOOLEAN, tries : 0..2, rounds : 0..2, mints : 0..2, elapsed : 0..29,
     sends : Nat, applied : Nat]

\* What has been sent so far: a read has six sends in each of its rounds, three before and
\* three after a refresh; a change has one of each; a mint one per attempt, and none is
\* refreshed once it has been sent.
Unrefreshed(n) == IF request.fresh THEN 0 ELSE n
ReadSent ==
    request.kind = "read" =>
        /\ request.at = "send" =>
                request.sends <= 6 * request.rounds + Unrefreshed(3) + request.tries
        /\ request.at = "refresh" =>
                \/ request.sends = 0
                \/ ~request.fresh /\ request.sends <= 6 * request.rounds + 3
ChangeSent ==
    request.kind = "change" /\ request.at \in {"send", "refresh"} =>
        request.applied = 0 /\ request.sends <= Unrefreshed(1)
MintSent ==
    request.kind = "mint" =>
        /\ request.at = "send" => request.sends <= request.mints
        /\ request.at = "refresh" => request.sends = 0
RequestSent == ReadSent /\ ChangeSent /\ MintSent /\ SentSafely
RequestInv == request \in RequestRecord /\ RequestSent

\* Nothing has been sent at first.
LEMMA RequestInitInv == RequestInit => RequestInv
<1> SUFFICES ASSUME RequestInit PROVE RequestInv
  OBVIOUS
<1>1. request \in RequestRecord
  BY DEF RequestInit, NoRequest, RequestRecord, RequestKind
<1>2. RequestSent
  BY DEF RequestInit, NoRequest, RequestSent, ReadSent, ChangeSent, MintSent, Unrefreshed, SentSafely,
         MintAttempts, MintSeconds
<1> QED  BY <1>1, <1>2 DEF RequestInv

\* The fields of a request.
LEMMA RequestTyped ==
    ASSUME NEW r \in RequestRecord
    PROVE  /\ r.at \in {"idle", "send", "refresh", "done", "failed"} /\ r.kind \in RequestKind
           /\ r.fresh \in BOOLEAN /\ r.allowed \in BOOLEAN /\ r.tries \in 0..2 /\ r.rounds \in 0..2
           /\ r.mints \in 0..2 /\ r.elapsed \in 0..29 /\ r.sends \in Nat /\ r.applied \in Nat
  BY DEF RequestRecord
\* A request as it is when it has been sent, applied or not.
SentAgain(r) ==
    /\ r \in RequestRecord /\ r.at = "send"
    /\ r.kind = request.kind /\ r.allowed = request.allowed /\ r.fresh = request.fresh
    /\ r.tries = request.tries /\ r.rounds = request.rounds /\ r.mints = request.mints
    /\ r.elapsed = request.elapsed /\ r.sends = request.sends + 1
    /\ r.applied \in {request.applied, request.applied + 1}

\* What a step leaves, in terms of the request before it: nothing more is sent, ...
LEMMA RequestEnds ==
    ASSUME RequestInv, request.at = "send", NEW r, SentAgain(r), NEW at \in {"done", "failed"},
           request' = [r EXCEPT !.at = at]
    PROVE  RequestInv'
<1>1. /\ request' \in RequestRecord /\ request'.at = at /\ request'.kind = request.kind
      /\ request'.sends = request.sends + 1 /\ request'.elapsed = request.elapsed
      /\ request'.applied \in {request.applied, request.applied + 1}
  <2>1. r \in RequestRecord
    BY DEF SentAgain
  <2>2. /\ request' \in RequestRecord /\ request'.at = at /\ request'.kind = r.kind /\ request'.sends = r.sends
        /\ request'.elapsed = r.elapsed /\ request'.applied = r.applied
    BY <2>1 DEF RequestRecord
  <2> QED  BY <2>2 DEF SentAgain
<1>2. RequestSent'
  BY <1>1, RequestTyped DEF RequestInv, RequestSent, ReadSent, ChangeSent, MintSent, Unrefreshed, SentSafely,
                     RequestKind,                     MintAttempts, MintSeconds
<1> QED  BY <1>1, <1>2 DEF RequestInv

\* ... or the next attempt of a mint begins.
LEMMA MintsAgain ==
    ASSUME RequestInv, request.at = "send", NEW r, SentAgain(r), request.kind = "mint",
           NEW elapsed \in Nat, elapsed < MintSeconds, request.mints + 1 < MintAttempts,
           request' = [r EXCEPT !.at = "send", !.mints = @ + 1, !.elapsed = elapsed]
    PROVE  RequestInv'
<1>1. r.mints + 1 \in 0..2 /\ elapsed \in 0..29 /\ r.mints = request.mints
  BY RequestTyped DEF SentAgain, MintSeconds, MintAttempts
<1>2. PICK mints \in 0..2 :
          /\ mints = request.mints + 1
          /\ request' = [r EXCEPT !.at = "send", !.mints = mints, !.elapsed = elapsed]
  BY <1>1
<1>3. /\ request' \in RequestRecord /\ request'.at = "send" /\ request'.kind = "mint"
      /\ request'.sends = request.sends + 1 /\ request'.mints = mints /\ request'.elapsed = elapsed
  <2>1. r \in RequestRecord
    BY DEF SentAgain
  <2>2. /\ request' \in RequestRecord /\ request'.at = "send" /\ request'.kind = r.kind /\ request'.sends = r.sends
        /\ request'.mints = mints /\ request'.elapsed = elapsed
    BY <1>1, <1>2, <2>1 DEF RequestRecord
  <2> QED  BY <2>2 DEF SentAgain
<1>4. RequestSent'
  BY <1>2, <1>3, RequestTyped DEF RequestInv, RequestSent, ReadSent, ChangeSent, MintSent, Unrefreshed, SentSafely,
                           RequestKind, MintAttempts, MintSeconds
<1> QED  BY <1>3, <1>4 DEF RequestInv

\* So whatever status an attempt ends with and however long it took.
LEMMA GivesUp ==
    ASSUME RequestInv, request.at = "send", NEW r, SentAgain(r), NEW after \in Nat, NEW is,
           GiveUp(r, [is |-> is, after |-> after])
    PROVE  RequestInv'
<1>1. PICK took \in {0, AttemptSeconds(r.elapsed)} :
          LET then == r.elapsed + took + Backoff([is |-> is, after |-> after])
          IN request' =
              IF r.kind = "mint" /\ is \in Temporary /\ r.mints + 1 < MintAttempts /\ then < MintSeconds
              THEN [r EXCEPT !.at = "send", !.mints = @ + 1, !.elapsed = then]
              ELSE [r EXCEPT !.at = "failed"]
  BY DEF GiveUp
<1> DEFINE then == r.elapsed + took + Backoff([is |-> is, after |-> after])
<1>2. then \in Nat
  <2>1. r.elapsed \in 0..29
    BY RequestTyped DEF SentAgain
  <2>2. AttemptSeconds(r.elapsed) \in Nat
    BY <2>1 DEF AttemptSeconds, MintSeconds
  <2>3. Backoff([is |-> is, after |-> after]) \in Nat
    BY DEF Backoff
  <2> QED  BY <2>1, <2>2, <2>3
<1>3. \/ request' = [r EXCEPT !.at = "failed"]
      \/ /\ r.kind = "mint" /\ r.mints + 1 < MintAttempts /\ then < MintSeconds
         /\ request' = [r EXCEPT !.at = "send", !.mints = @ + 1, !.elapsed = then]
  BY <1>1
<1>4. r.kind = request.kind /\ r.mints = request.mints
  BY DEF SentAgain
<1> HIDE DEF then
<1> QED  BY <1>2, <1>3, <1>4, RequestEnds, MintsAgain

\* A transport error.
LEMMA Loses ==
    ASSUME RequestInv, request.at = "send", NEW r, SentAgain(r), Lost(r)
    PROVE  RequestInv'
<1>1. CASE r.kind = "read" /\ r.tries + 1 < TransportAttempts
  <2>1. r.tries + 1 \in 0..2 /\ r.tries = request.tries /\ r.at = "send"
    BY <1>1, RequestTyped DEF SentAgain, TransportAttempts
  <2>2. PICK tries \in 0..2 : tries = request.tries + 1 /\ request' = [r EXCEPT !.tries = tries]
    BY <1>1, <2>1 DEF Lost
  <2>3. /\ request' \in RequestRecord /\ request'.at = "send" /\ request'.kind = "read" /\ request.kind = "read"
        /\ request'.sends = request.sends + 1 /\ request'.tries = tries
        /\ request'.fresh = request.fresh /\ request'.rounds = request.rounds
    <3>1. r \in RequestRecord
      BY DEF SentAgain
    <3>2. /\ request' \in RequestRecord /\ request'.at = r.at /\ request'.kind = r.kind
          /\ request'.sends = r.sends /\ request'.tries = tries /\ request'.fresh = r.fresh
          /\ request'.rounds = r.rounds
      BY <2>2, <3>1 DEF RequestRecord
    <3> QED  BY <1>1, <2>1, <3>2 DEF SentAgain
  <2>4. RequestSent'
    BY <2>2, <2>3, RequestTyped DEF RequestInv, RequestSent, ReadSent, ChangeSent, MintSent, Unrefreshed, SentSafely
  <2> QED  BY <2>3, <2>4 DEF RequestInv
<1>2. CASE ~(r.kind = "read" /\ r.tries + 1 < TransportAttempts)
  BY <1>2, GivesUp DEF Lost
<1> QED  BY <1>1, <1>2

\* A 401.
LEMMA Refuses ==
    ASSUME RequestInv, request.at = "send", NEW r, SentAgain(r), r.applied = request.applied, Unauthorized(r)
    PROVE  RequestInv'
<1>1. CASE r.allowed /\ r.kind # "mint" /\ r.fresh
  <2>1. request' = [r EXCEPT !.at = "refresh", !.fresh = FALSE]
    BY <1>1 DEF Unauthorized
  <2>2. /\ request' \in RequestRecord /\ request'.at = "refresh" /\ request'.kind = request.kind
        /\ ~request'.fresh /\ request'.sends = request.sends + 1 /\ request'.rounds = request.rounds
        /\ request'.applied = request.applied /\ request.fresh /\ request.kind # "mint"
    <3>1. r \in RequestRecord
      BY DEF SentAgain
    <3>2. /\ request' \in RequestRecord /\ request'.at = "refresh" /\ request'.kind = r.kind
          /\ ~request'.fresh /\ request'.sends = r.sends /\ request'.rounds = r.rounds
          /\ request'.applied = r.applied
      BY <2>1, <3>1 DEF RequestRecord
    <3> QED  BY <1>1, <3>2 DEF SentAgain
  <2>3. RequestSent'
    BY <2>2, RequestTyped DEF RequestInv, RequestSent, ReadSent, ChangeSent, MintSent, Unrefreshed, SentSafely,
                             RequestKind
  <2> QED  BY <2>2, <2>3 DEF RequestInv
<1>2. CASE ~(r.allowed /\ r.kind # "mint" /\ r.fresh)
  BY <1>2, RequestEnds DEF Unauthorized
<1> QED  BY <1>1, <1>2

\* A 429 or 503.
LEMMA Waits ==
    ASSUME RequestInv, request.at = "send", NEW r, SentAgain(r), NEW after \in Nat, Limited(r, after)
    PROVE  RequestInv'
<1>1. CASE r.kind = "read" /\ r.rounds + 1 < ReadAttempts /\ after <= MaxRetryAfter
  <2>1. r.rounds + 1 \in 0..2 /\ r.rounds = request.rounds /\ r.at = "send"
    BY <1>1, RequestTyped DEF SentAgain, ReadAttempts
  <2>2. PICK rounds \in 0..2, tries \in 0..2, fresh \in BOOLEAN :
            /\ rounds = request.rounds + 1 /\ tries = 0 /\ fresh
            /\ request' = [r EXCEPT !.rounds = rounds, !.tries = tries, !.fresh = fresh]
    <3>1. request' = [r EXCEPT !.rounds = r.rounds + 1, !.tries = 0, !.fresh = TRUE]
      BY <1>1 DEF Limited
    <3>2. 0 \in 0..2 /\ TRUE \in BOOLEAN /\ r.rounds + 1 = request.rounds + 1
      BY <2>1
    <3> QED  BY <2>1, <3>1, <3>2, Zenon
  <2>3. /\ request' \in RequestRecord /\ request'.at = "send" /\ request'.kind = "read" /\ request.kind = "read"
        /\ request'.sends = request.sends + 1 /\ request'.tries = 0
        /\ request'.fresh /\ request'.rounds = rounds
    <3>1. r \in RequestRecord
      BY DEF SentAgain
    <3>2. /\ request' \in RequestRecord /\ request'.at = r.at /\ request'.kind = r.kind
          /\ request'.sends = r.sends /\ request'.tries = tries /\ request'.fresh = fresh
          /\ request'.rounds = rounds
      BY <2>2, <3>1 DEF RequestRecord
    <3> QED  BY <1>1, <2>1, <2>2, <3>2 DEF SentAgain
  <2>4. RequestSent'
    BY <2>2, <2>3, RequestTyped DEF RequestInv, RequestSent, ReadSent, ChangeSent, MintSent, Unrefreshed, SentSafely
  <2> QED  BY <2>3, <2>4 DEF RequestInv
<1>2. CASE ~(r.kind = "read" /\ r.rounds + 1 < ReadAttempts /\ after <= MaxRetryAfter)
  BY <1>2, GivesUp DEF Limited
<1> QED  BY <1>1, <1>2

\* Every answer keeps to the count.
LEMMA RequestStepInv == RequestInv /\ [RequestNext]_request => RequestInv'
<1> SUFFICES ASSUME RequestInv, [RequestNext]_request PROVE RequestInv'
  OBVIOUS
<1>0. request \in RequestRecord
  BY DEF RequestInv
<1>1. CASE RequestBegin
  <2>1. PICK kind \in RequestKind, allowed \in BOOLEAN, at \in {"refresh", "send"} :
          request' = [NoRequest EXCEPT !.kind = kind, !.allowed = allowed, !.fresh = TRUE, !.at = at]
    BY <1>1 DEF RequestBegin
  <2>2. /\ request' \in RequestRecord /\ request'.sends = 0 /\ request'.applied = 0 /\ request'.rounds = 0
        /\ request'.tries = 0 /\ request'.mints = 0 /\ request'.elapsed = 0 /\ request'.fresh
    <3>1. request' = [kind |-> kind, at |-> at, allowed |-> allowed, fresh |-> TRUE, tries |-> 0,
                      rounds |-> 0, mints |-> 0, elapsed |-> 0, sends |-> 0, applied |-> 0]
      BY <2>1 DEF NoRequest
    <3> QED  BY <3>1 DEF RequestRecord
  <2>3. RequestSent'
    BY <2>2 DEF RequestSent, ReadSent, ChangeSent, MintSent, Unrefreshed, SentSafely, MintAttempts, MintSeconds
  <2> QED  BY <2>2, <2>3 DEF RequestInv
<1>2. CASE RefreshToken
  <2>1. CASE request' = [request EXCEPT !.at = "failed"]
    <3>1. /\ request' \in RequestRecord /\ request'.at = "failed" /\ request'.kind = request.kind
          /\ request'.sends = request.sends /\ request'.applied = request.applied
          /\ request'.elapsed = request.elapsed
      BY <1>0, <2>1 DEF RequestRecord
    <3>2. RequestSent'
      BY <3>1 DEF RequestInv, RequestSent, ReadSent, ChangeSent, MintSent, Unrefreshed, SentSafely
    <3> QED  BY <3>1, <3>2 DEF RequestInv
  <2>2. CASE request' = [request EXCEPT !.at = "send", !.tries = 0, !.fresh = request.sends = 0]
    <3>1. PICK tries \in 0..2, fresh \in BOOLEAN :
            /\ request' = [request EXCEPT !.at = "send", !.tries = tries, !.fresh = fresh]
            /\ tries = 0
            /\ fresh <=> request.sends = 0
      <4>1. (request.sends = 0) \in BOOLEAN /\ 0 \in 0..2
        OBVIOUS
      <4> QED  BY <2>2, <4>1, Zenon
    <3>2. /\ request' \in RequestRecord /\ request'.at = "send" /\ request'.kind = request.kind
          /\ request'.fresh = fresh /\ request'.tries = tries /\ request'.rounds = request.rounds
          /\ request'.sends = request.sends /\ request'.applied = request.applied
          /\ request'.elapsed = request.elapsed /\ request'.mints = request.mints
      BY <1>0, <3>1 DEF RequestRecord
    <3>3. RequestSent'
      BY <1>0, <1>2, <3>1, <3>2, RequestTyped
      DEF RefreshToken, RequestInv, RequestSent, ReadSent, ChangeSent, MintSent, Unrefreshed, SentSafely
    <3> QED  BY <3>2, <3>3 DEF RequestInv
  <2> QED  BY <1>2, <2>1, <2>2 DEF RefreshToken
<1>3. CASE Deliver
  <2> DEFINE sent == [request EXCEPT !.sends = @ + 1]
             applied == [sent EXCEPT !.applied = @ + 1]
  <2>1. request.at = "send"
    BY <1>3 DEF Deliver
  <2>2. SentAgain(sent) /\ SentAgain(applied) /\ sent.applied = request.applied
    <3>1. PICK n, k \in Nat : n = request.sends + 1 /\ k = request.applied + 1
      BY <1>0, RequestTyped
    <3>2. sent = [request EXCEPT !.sends = n]
      BY <3>1
    <3>3. sent.applied = request.applied
      BY <1>0, <3>2 DEF RequestRecord
    <3>4. applied = [sent EXCEPT !.applied = k]
      BY <3>1, <3>3
    <3> HIDE DEF sent, applied
    <3>5. /\ sent \in RequestRecord /\ sent.at = request.at /\ sent.kind = request.kind
          /\ sent.allowed = request.allowed /\ sent.fresh = request.fresh /\ sent.tries = request.tries
          /\ sent.rounds = request.rounds /\ sent.mints = request.mints
          /\ sent.elapsed = request.elapsed /\ sent.sends = n /\ sent.applied = request.applied
      BY <1>0, <3>2 DEF RequestRecord
    <3>6. /\ applied \in RequestRecord /\ applied.at = sent.at /\ applied.kind = sent.kind
          /\ applied.allowed = sent.allowed /\ applied.fresh = sent.fresh /\ applied.tries = sent.tries
          /\ applied.rounds = sent.rounds /\ applied.mints = sent.mints
          /\ applied.elapsed = sent.elapsed /\ applied.sends = sent.sends /\ applied.applied = k
      BY <3>4, <3>5 DEF RequestRecord
    <3> QED  BY <2>1, <3>1, <3>5, <3>6 DEF SentAgain
  <2>3. \/ request' = [applied EXCEPT !.at = "done"]
        \/ \E r \in {sent, applied} : \E is \in {"gateway", "refused"} : GiveUp(r, [is |-> is, after |-> 0])
        \/ \E r \in {sent, applied} : Lost(r)
        \/ Unauthorized(sent)
        \/ \E after \in RetryAfter \cup {0} : Limited(sent, after)
    BY <1>3 DEF Deliver
  <2> HIDE DEF sent, applied
  <2>4. CASE request' = [applied EXCEPT !.at = "done"]
    BY <2>1, <2>2, <2>4, RequestEnds
  <2>5. ASSUME NEW r \in {sent, applied}, NEW is \in {"gateway", "refused"},
               GiveUp(r, [is |-> is, after |-> 0])
        PROVE  RequestInv'
    BY <2>1, <2>2, <2>5, GivesUp
  <2>6. ASSUME NEW r \in {sent, applied}, Lost(r) PROVE RequestInv'
    BY <2>1, <2>2, <2>6, Loses
  <2>7. CASE Unauthorized(sent)
    BY <2>1, <2>2, <2>7, Refuses
  <2>8. ASSUME NEW after \in RetryAfter \cup {0}, Limited(sent, after) PROVE RequestInv'
    BY <2>1, <2>2, <2>8, Waits, RequestAssumption
  <2> QED  BY <2>3, <2>4, <2>5, <2>6, <2>7, <2>8
<1>4. CASE UNCHANGED request
  BY <1>4 DEF RequestInv, RequestSent, ReadSent, ChangeSent, MintSent, Unrefreshed, SentSafely
<1> QED  BY <1>1, <1>2, <1>3, <1>4 DEF RequestNext, RequestStep

\* RequestInv is what every request keeps.
LEMMA RequestCorrect == RequestSpec => []RequestInv
<1> QED  BY RequestInitInv, RequestStepInv, PTL DEF RequestSpec

\* A change is applied at most once, and reads and minting attempts are bounded, for every
\* service and every Retry-After (client.py 187-208 and 318-403).
THEOREM SendsSafely == RequestSpec => []SentSafely
<1>1. RequestInv => SentSafely
  BY DEF RequestInv, RequestSent
<1> QED  BY <1>1, RequestCorrect, PTL

\* Every field of a request has its type (client.py 187-208 and 318-403).
LEMMA RequestTypes == RequestSpec => []RequestTypeOK
<1>1. RequestInv => RequestTypeOK
  BY DEF RequestInv, RequestRecord, RequestTypeOK, TransportAttempts, ReadAttempts, MintAttempts,
         MintSeconds
<1> QED  BY <1>1, RequestCorrect, PTL

-----------------------------------------------------------------------------
(* The wait for the approval of a login *)

Moment == (0..Expires) \cup {Never}
PollRecord ==
    [at : {"idle", "poll", "approved", "expired", "failed"}, now : Nat, interval : Nat \ {0},
     approved : Moment, last : Moment, took : Nat, due : Nat, limited : BOOLEAN]
PollInv == poll \in PollRecord /\ PollsOnTime

\* The fields of the loop.
LEMMA PollTyped ==
    ASSUME NEW p \in PollRecord
    PROVE  /\ p.at \in {"idle", "poll", "approved", "expired", "failed"} /\ p.now \in Nat
           /\ p.interval \in Nat \ {0} /\ p.approved \in Moment /\ p.last \in Moment /\ p.due \in Nat
           /\ p.took \in Nat /\ p.limited \in BOOLEAN
  BY DEF PollRecord

\* A loop that sleeps until its next poll is due, or until the code has expired.
LEMMA Sleeps ==
    ASSUME NEW p \in PollRecord, NEW seconds \in Nat, Sleep(p, seconds),
           p.now + seconds < Expires => p.due <= p.now + seconds,
           p.approved # Never /\ ~p.limited => p.approved + p.took + p.interval >= p.now + seconds
    PROVE  PollInv'
<1>1. PICK now \in Nat, at \in {"poll", "expired"} :
          /\ now = p.now + seconds
          /\ at = IF now < Expires THEN "poll" ELSE "expired"
          /\ poll' = [p EXCEPT !.now = now, !.at = at]
  <2>1. p.now + seconds \in Nat
    BY PollTyped
  <2> QED  BY <2>1 DEF Sleep
<1>2. /\ poll' \in PollRecord /\ poll'.now = now /\ poll'.at = at /\ poll'.due = p.due
      /\ poll'.approved = p.approved /\ poll'.limited = p.limited /\ poll'.interval = p.interval
      /\ poll'.took = p.took
  BY <1>1 DEF PollRecord
<1>3. PollsOnTime'
  <2>1. p.due \in Nat /\ p.now \in Nat /\ Expires \in Nat /\ p.interval \in Nat /\ p.approved \in Moment
        /\ p.took \in Nat
    BY PollTyped, PollAssumption
  <2>2. poll'.at = "poll" => poll'.due <= poll'.now /\ poll'.now < Expires
    BY <1>1, <1>2
  <2>3. poll'.at = "expired" /\ poll'.approved # Never /\ ~poll'.limited =>
            poll'.approved + poll'.took + poll'.interval >= Expires
    <3>1. SUFFICES ASSUME poll'.at = "expired", p.approved # Never, ~p.limited
                   PROVE  p.approved + p.took + p.interval >= Expires
      BY <1>2
    <3>2. now >= Expires /\ p.approved \in Nat
      BY <1>1, <1>2, <2>1, <3>1 DEF Moment
    <3> QED  BY <1>1, <2>1, <3>1, <3>2
  <2> QED  BY <2>2, <2>3 DEF PollsOnTime
<1> QED  BY <1>2, <1>3 DEF PollInv

\* Every answer to a poll keeps to the time.
LEMMA PollStepInv == PollInv /\ [PollNext]_poll => PollInv'
<1> SUFFICES ASSUME PollInv, [PollNext]_poll PROVE PollInv'
  OBVIOUS
<1>0. poll \in PollRecord /\ Expires \in Nat \ {0}
  BY PollAssumption DEF PollInv
<1>1. CASE PollBegin
  <2>1. PICK interval \in Interval, approved \in Moment :
            poll' = [NoPoll EXCEPT !.at = "poll", !.interval = interval, !.approved = approved]
    BY <1>1 DEF PollBegin, Moment
  <2>2. interval \in Nat \ {0} /\ Never \in Moment
    BY PollAssumption DEF Moment
  <2>3. poll' = [at |-> "poll", now |-> 0, interval |-> interval, approved |-> approved, last |-> Never,
                 took |-> 0, due |-> 0, limited |-> FALSE]
    BY <2>1 DEF NoPoll
  <2>4. poll' \in PollRecord /\ poll'.at = "poll" /\ poll'.now = 0 /\ poll'.due = 0
    BY <2>2, <2>3 DEF PollRecord
  <2> QED  BY <1>0, <2>4 DEF PollInv, PollsOnTime
<1>2. CASE Poll
  <2>1. poll.at = "poll" /\ poll.now < Expires
    BY <1>2 DEF Poll, PollInv, PollsOnTime
  <2>2. PICK took \in Duration : \E decided \in 0..took :
        LET p == [poll EXCEPT !.last = poll.now, !.took = took, !.now = @ + took, !.limited = FALSE]
            approved == poll.approved # Never /\ poll.approved <= poll.now + decided
        IN \/ approved /\ poll' = [p EXCEPT !.at = "approved"]
           \/ ~approved /\ Sleep([p EXCEPT !.due = p.last + p.interval], p.interval)
           \/ ~approved /\ SlowDown(p)
           \/ \E after \in Wait \cup {Never} : BackOff(p, after)
           \/ poll' = [p EXCEPT !.at = "failed"]
    BY <1>2 DEF Poll
  <2>3. took \in Nat /\ \E now \in Nat : now = poll.now + took
    BY <1>0, PollTyped, PollAssumption
  <2>3a. PICK now \in Nat : now = poll.now + took
    BY <2>3
  <2>3b. PICK decided \in 0..took :
        LET p == [poll EXCEPT !.last = poll.now, !.took = took, !.now = now, !.limited = FALSE]
            approved == poll.approved # Never /\ poll.approved <= poll.now + decided
        IN \/ approved /\ poll' = [p EXCEPT !.at = "approved"]
           \/ ~approved /\ Sleep([p EXCEPT !.due = p.last + p.interval], p.interval)
           \/ ~approved /\ SlowDown(p)
           \/ \E after \in Wait \cup {Never} : BackOff(p, after)
           \/ poll' = [p EXCEPT !.at = "failed"]
    BY <2>2, <2>3a
  <2> DEFINE p == [poll EXCEPT !.last = poll.now, !.took = took, !.now = now, !.limited = FALSE]
  <2>4. /\ p \in PollRecord /\ p.at = "poll" /\ p.last = poll.now /\ p.now = now
        /\ p.interval = poll.interval /\ p.approved = poll.approved /\ p.took = took
    <3>1. poll.now \in Moment
      BY <1>0, <2>1, PollTyped DEF Moment
    <3> QED  BY <1>0, <2>1, <2>3, <3>1 DEF PollRecord
  <2>5. \/ poll' = [p EXCEPT !.at = "approved"]
        \/ /\ ~(poll.approved # Never /\ poll.approved <= poll.now)
           /\ Sleep([p EXCEPT !.due = p.last + p.interval], p.interval) \/ SlowDown(p)
        \/ \E after \in Wait \cup {Never} : BackOff(p, after)
        \/ poll' = [p EXCEPT !.at = "failed"]
    <3>1. decided \in Nat /\ poll.now \in Nat /\ (poll.approved # Never => poll.approved \in Nat)
      BY <1>0, <2>3, PollTyped DEF Moment
    <3>2. poll.approved # Never /\ poll.approved <= poll.now => poll.approved <= poll.now + decided
      BY <3>1
    <3> QED  BY <2>3b, <3>2
  <2> HIDE DEF p
  <2>6. /\ p.now \in Nat /\ p.last \in Nat /\ p.interval \in Nat \ {0} /\ p.approved \in Moment
        /\ p.took \in Nat /\ p.now = p.last + p.took /\ p.last = poll.now
    BY <1>0, <2>3, <2>3a, <2>4, PollTyped
  <2>7. ASSUME NEW at \in {"approved", "failed"}, poll' = [p EXCEPT !.at = at] PROVE PollInv'
    <3>1. poll' \in PollRecord /\ poll'.at = at
      BY <2>4, <2>7 DEF PollRecord
    <3> QED  BY <3>1 DEF PollInv, PollsOnTime
  <2>8. ASSUME ~(poll.approved # Never /\ poll.approved <= poll.now)
        PROVE  p.approved # Never => p.approved \in Nat /\ p.approved >= p.last + 1
    BY <1>0, <2>4, <2>6, <2>8 DEF Moment
  <2>9. CASE /\ ~(poll.approved # Never /\ poll.approved <= poll.now)
             /\ Sleep([p EXCEPT !.due = p.last + p.interval], p.interval)
    <3>1. PICK due \in Nat : due = p.last + p.interval
      BY <2>6
    <3> DEFINE q == [p EXCEPT !.due = due]
    <3>2. /\ q \in PollRecord /\ q.due = due /\ q.now = p.now /\ q.approved = p.approved
          /\ q.interval = p.interval /\ q.took = p.took
      BY <2>4 DEF PollRecord
    <3>3. Sleep(q, p.interval)
      BY <2>9, <3>1
    <3> HIDE DEF q
    <3>4. q.due <= q.now + p.interval
      BY <2>6, <3>1, <3>2
    <3>5. q.approved # Never => q.approved + q.took + q.interval >= q.now + p.interval
      BY <2>6, <2>8, <2>9, <3>2
    <3> QED  BY <2>6, <3>2, <3>3, <3>4, <3>5, Sleeps
  <2>10. CASE /\ ~(poll.approved # Never /\ poll.approved <= poll.now)
              /\ SlowDown(p)
    <3>1. PICK due \in Nat, interval \in Nat \ {0} :
              interval = p.interval + 5 /\ due = p.last + p.interval + 5
      <4>1. p.interval + 5 \in Nat \ {0} /\ p.last + p.interval + 5 \in Nat
        BY <2>6
      <4> QED  BY <4>1
    <3> DEFINE q == [p EXCEPT !.interval = interval, !.due = due]
    <3>2. /\ q \in PollRecord /\ q.due = due /\ q.now = p.now /\ q.approved = p.approved
          /\ q.interval = interval /\ q.took = p.took
      BY <2>4 DEF PollRecord
    <3>3. Sleep(q, interval)
      BY <2>10, <3>1 DEF SlowDown
    <3> HIDE DEF q
    <3>4. q.due <= q.now + interval
      BY <2>6, <3>1, <3>2
    <3>5. q.approved # Never => q.approved + q.took + q.interval >= q.now + interval
      BY <2>6, <2>8, <2>10, <3>1, <3>2
    <3> QED  BY <3>1, <3>2, <3>3, <3>4, <3>5, Sleeps
  <2>11. ASSUME NEW after \in Wait \cup {Never}, BackOff(p, after) PROVE PollInv'
    <3>1. PICK wait \in Nat : wait = IF after = Never THEN p.interval + 5 ELSE Longer(p.interval, after)
      BY <2>6, PollAssumption DEF Longer
    <3>2. PICK due \in Nat, seconds \in Nat :
              /\ due = Shorter(p.last + wait, Expires)
              /\ seconds = Longer(1, Shorter(wait, IF p.now < Expires THEN Expires - p.now ELSE 0))
      <4>1. Shorter(p.last + wait, Expires) \in Nat
        BY <1>0, <2>6 DEF Shorter
      <4>2. Longer(1, Shorter(wait, IF p.now < Expires THEN Expires - p.now ELSE 0)) \in Nat
        BY <1>0, <2>6 DEF Shorter, Longer
      <4> QED  BY <4>1, <4>2
    <3> DEFINE q == [p EXCEPT !.limited = TRUE, !.due = due]
    <3>3. q \in PollRecord /\ q.due = due /\ q.now = p.now /\ q.limited
      BY <2>4 DEF PollRecord
    <3>4. Sleep(q, seconds)
      BY <2>11, <3>1, <3>2 DEF BackOff
    <3> HIDE DEF q
    <3>5. q.now + seconds < Expires => q.due <= q.now + seconds
      BY <1>0, <2>6, <3>2, <3>3 DEF Shorter, Longer
    <3> QED  BY <3>3, <3>4, <3>5, Sleeps
  <2> QED  BY <2>5, <2>7, <2>9, <2>10, <2>11
<1>3. CASE UNCHANGED poll
  BY <1>3 DEF PollInv, PollsOnTime
<1> QED  BY <1>1, <1>2, <1>3 DEF PollNext, PollStep

\* PollInv is what every wait keeps.
LEMMA PollCorrect == PollSpec => []PollInv
<1>1. PollInit => PollInv
  <2> SUFFICES ASSUME PollInit PROVE PollInv
    OBVIOUS
  <2>1. Never \in Moment /\ 0 \in Nat /\ 1 \in Nat \ {0}
    BY DEF Moment
  <2>2. poll \in PollRecord /\ poll.at = "idle"
    BY <2>1 DEF PollInit, NoPoll, PollRecord
  <2> QED  BY <2>2 DEF PollInv, PollsOnTime
<1> QED  BY <1>1, PollStepInv, PTL DEF PollSpec

\* No poll is early or late, and an approval is missed only within the last request and interval,
\* for every interval, Retry-After, lifetime of the code and duration of a request (device.py
\* 254-345).
THEOREM PollsInTime == PollSpec => []PollsOnTime
<1>1. PollInv => PollsOnTime
  BY DEF PollInv
<1> QED  BY <1>1, PollCorrect, PTL

\* Every field of a wait has its type (device.py 254-345).
LEMMA PollTypes == PollSpec => []PollTypeOK
<1>1. PollInv => PollTypeOK
  BY PollTyped DEF PollInv, Moment, PollTypeOK
<1> QED  BY <1>1, PollCorrect, PTL

-----------------------------------------------------------------------------
(* The staging of evidence *)

Content == (0..MaxEdits) \cup {NoFile}
EvidenceRecord ==
    [at : {"idle", "hash", "check", "stream", "complete", "wait", "done", "failed"},
     file : File \cup {NoFile}, opened : Content, hashed : [File -> Content],
     stored : [File -> Content], completed : SUBSET File, left : 0..WaitSeconds, raced : SUBSET File]

\* The file in hand is the one that was hashed until it is edited while it is streamed, and
\* what is stored of it then is what was hashed.
InHand ==
    /\ evidence.at = "hash" => evidence.completed = {}
    /\ evidence.at \in {"stream", "complete"} => evidence.file \in File \ evidence.completed
    /\ evidence.at = "stream" /\ evidence.file \notin evidence.raced =>
            disk[evidence.file] = evidence.hashed[evidence.file]
    /\ evidence.at = "complete" /\ evidence.file \notin evidence.raced =>
            evidence.stored[evidence.file] = evidence.hashed[evidence.file]
EvidenceInv ==
    /\ disk \in [File -> 0..MaxEdits] /\ evidence \in EvidenceRecord
    /\ InHand /\ StoredAsDeclared

\* A step that only moves the command on, or changes what is in hand.
Moves(at, file, opened, left) ==
    evidence' = [evidence EXCEPT !.at = at, !.file = file, !.opened = opened, !.left = left]

\* Nothing the command does or others do to a file undoes this.
LEMMA EvidenceStepInv == EvidenceInv /\ [EvidenceNext]_evidenceVars => EvidenceInv'
<1> SUFFICES ASSUME EvidenceInv, [EvidenceNext]_evidenceVars PROVE EvidenceInv'
  OBVIOUS
<1>0. /\ disk \in [File -> 0..MaxEdits] /\ evidence \in EvidenceRecord /\ InHand /\ StoredAsDeclared
      /\ evidence.hashed \in [File -> Content] /\ evidence.stored \in [File -> Content]
      /\ evidence.completed \subseteq File /\ evidence.file \in File \cup {NoFile} /\ NoFile \in Content
  BY DEF EvidenceInv, EvidenceRecord, Content
<1>a. ASSUME NEW at \in {"hash", "check", "wait", "done", "failed"}, NEW file \in File \cup {NoFile},
             NEW opened \in Content, NEW left \in 0..WaitSeconds, UNCHANGED disk,
             Moves(at, file, opened, left), at = "hash" => evidence.at = "hash"
      PROVE  EvidenceInv'
  <2>1. /\ evidence' \in EvidenceRecord /\ evidence'.at = at /\ evidence'.completed = evidence.completed
        /\ evidence'.raced = evidence.raced /\ evidence'.hashed = evidence.hashed
        /\ evidence'.stored = evidence.stored
    BY <1>0, <1>a DEF EvidenceRecord, Moves
  <2> QED  BY <1>0, <1>a, <2>1 DEF EvidenceInv, InHand, StoredAsDeclared
<1>b. /\ evidence.at \in {"idle", "hash", "check", "stream", "complete", "wait", "done", "failed"}
      /\ evidence.opened \in Content /\ evidence.left \in 0..WaitSeconds /\ evidence.raced \subseteq File
  BY <1>0 DEF EvidenceRecord
<1>1. CASE EvidenceBegin
  <2>1. /\ evidence' \in EvidenceRecord /\ evidence'.at = "hash" /\ evidence'.completed = {}
    <3>1. Unknown \in [File -> Content] /\ 0 \in 0..WaitSeconds
      BY <1>0, EvidenceAssumption DEF Unknown
    <3>2. evidence' = [at |-> "hash", file |-> NoFile, opened |-> NoFile, hashed |-> Unknown,
                       stored |-> Unknown, completed |-> {}, left |-> 0, raced |-> {}]
      BY <1>1 DEF EvidenceBegin, NoEvidence
    <3> QED  BY <1>0, <3>1, <3>2 DEF EvidenceRecord
  <2> QED  BY <1>0, <1>1, <2>1 DEF EvidenceBegin, EvidenceInv, InHand, StoredAsDeclared
<1>2. ASSUME NEW f \in File, Edit(f) PROVE EvidenceInv'
  <2>1. PICK raced \in SUBSET File :
          /\ raced = evidence.raced \cup (IF evidence.at = "stream" THEN {evidence.file} \cap {f} ELSE {})
          /\ evidence' = [evidence EXCEPT !.raced = raced]
    BY <1>b, <1>2 DEF Edit
  <2>2. /\ evidence' \in EvidenceRecord /\ evidence'.at = evidence.at /\ evidence'.raced = raced
        /\ evidence'.completed = evidence.completed /\ evidence'.hashed = evidence.hashed
        /\ evidence'.stored = evidence.stored /\ evidence'.file = evidence.file
    BY <1>0, <2>1 DEF EvidenceRecord
  <2>3. /\ disk' \in [File -> 0..MaxEdits] /\ \A g \in File \ {f} : disk'[g] = disk[g]
    <3>1. disk[f] + 1 \in 0..MaxEdits /\ disk' = [disk EXCEPT ![f] = @ + 1]
      BY <1>0, <1>2, EvidenceAssumption DEF Edit
    <3> QED  BY ONLY <1>0, <3>1
  <2>4. evidence.raced \subseteq raced /\ (evidence.at = "stream" /\ evidence.file = f => f \in raced)
    BY ONLY <2>1
  <2>5. InHand'
    BY ONLY <1>0, <2>2, <2>3, <2>4 DEF InHand
  <2>6. StoredAsDeclared'
    BY ONLY <1>0, <2>2, <2>4 DEF StoredAsDeclared
  <2> QED  BY <2>2, <2>3, <2>5, <2>6 DEF EvidenceInv
<1>3. CASE EvidenceFails
  <2>1. Moves("failed", NoFile, NoFile, evidence.left)
    BY <1>0, <1>3 DEF EvidenceFails, EvidenceRecord, Moves
  <2> QED  BY <1>0, <1>3, <1>a, <1>b, <2>1 DEF EvidenceFails
<1>4. ASSUME NEW f \in File, OpenToHash(f) PROVE EvidenceInv'
  <2>1. disk[f] \in Content
    BY <1>0 DEF Content
  <2>2. Moves("hash", f, disk[f], evidence.left)
    BY <1>0, <1>4 DEF OpenToHash, EvidenceRecord, Moves
  <2> QED  BY <1>4, <1>a, <1>b, <2>1, <2>2 DEF OpenToHash
<1>5. CASE Hash
  <2>1. evidence.at = "hash" /\ evidence.file \in File /\ disk[evidence.file] \in Content /\ disk' = disk
    BY <1>0, <1>5 DEF Hash, Content
  <2>2. PICK hashed \in [File -> Content] :
          evidence' = [evidence EXCEPT !.file = NoFile, !.opened = NoFile, !.hashed = hashed]
    <3>1. [evidence.hashed EXCEPT ![evidence.file] = disk[evidence.file]] \in [File -> Content]
      BY <1>0, <2>1
    <3>2. evidence' = [evidence EXCEPT !.file = NoFile, !.opened = NoFile,
                          !.hashed = [evidence.hashed EXCEPT ![evidence.file] = disk[evidence.file]]]
      BY <1>5 DEF Hash
    <3> QED  BY <3>1, <3>2, Zenon
  <2>3. /\ evidence' \in EvidenceRecord /\ evidence'.at = "hash" /\ evidence'.completed = evidence.completed
    BY <1>0, <2>1, <2>2 DEF EvidenceRecord
  <2> QED  BY <1>0, <2>1, <2>3 DEF EvidenceInv, InHand, StoredAsDeclared
<1>6. CASE Prepare
  <2>1. Moves("check", evidence.file, evidence.opened, evidence.left)
    BY <1>0, <1>6 DEF Prepare, EvidenceRecord, Moves
  <2> QED  BY <1>0, <1>6, <1>a, <1>b, <2>1 DEF Prepare
<1>7. ASSUME NEW f \in File, RequireUnchanged(f) PROVE EvidenceInv'
  <2>1. evidence' = [evidence EXCEPT !.at = "stream", !.file = f] /\ disk' = disk
    BY <1>7 DEF RequireUnchanged
  <2>2. /\ evidence' \in EvidenceRecord /\ evidence'.at = "stream" /\ evidence'.file = f
        /\ evidence'.raced = evidence.raced /\ evidence'.completed = evidence.completed
        /\ evidence'.hashed = evidence.hashed /\ evidence'.stored = evidence.stored
    BY <1>0, <2>1 DEF EvidenceRecord
  <2> QED  BY <1>0, <1>7, <2>1, <2>2 DEF RequireUnchanged, EvidenceInv, InHand, StoredAsDeclared
<1>8. CASE Stream
  <2>1. /\ evidence.at = "stream" /\ evidence.file \in File \ evidence.completed
        /\ disk[evidence.file] \in Content /\ disk' = disk
    BY <1>0, <1>8 DEF Stream, Content, InHand
  <2> DEFINE sent == [evidence.stored EXCEPT ![evidence.file] = disk[evidence.file]]
  <2>2. /\ sent \in [File -> Content] /\ sent[evidence.file] = disk[evidence.file]
        /\ \A f \in evidence.completed : sent[f] = evidence.stored[f]
    BY <1>0, <2>1
  <2>3. evidence' = [evidence EXCEPT !.at = "complete", !.stored = sent]
    BY <1>8 DEF Stream
  <2> HIDE DEF sent
  <2>4. /\ evidence' \in EvidenceRecord /\ evidence'.at = "complete" /\ evidence'.file = evidence.file
        /\ evidence'.raced = evidence.raced /\ evidence'.completed = evidence.completed
        /\ evidence'.hashed = evidence.hashed /\ evidence'.stored = sent
    BY <1>0, <2>2, <2>3 DEF EvidenceRecord
  <2> QED  BY <1>0, <2>1, <2>2, <2>4 DEF EvidenceInv, InHand, StoredAsDeclared
<1>9. CASE Complete
  <2>1. evidence.at = "complete" /\ evidence.file \in File \ evidence.completed /\ disk' = disk
    BY <1>0, <1>9 DEF Complete, InHand
  <2>2. PICK completed \in SUBSET File, at \in {"check", "wait", "done"}, left \in 0..WaitSeconds :
          /\ completed = evidence.completed \cup {evidence.file}
          /\ evidence' = [evidence EXCEPT !.completed = completed, !.file = NoFile, !.at = at, !.left = left]
    <3>1. 0 \in 0..WaitSeconds /\ WaitSeconds \in 0..WaitSeconds
      BY EvidenceAssumption
    <3>2. evidence.completed \cup {evidence.file} \in SUBSET File
      BY <1>0, <2>1
    <3> QED  BY <1>9, <3>1, <3>2 DEF Complete
  <2>3. /\ evidence' \in EvidenceRecord /\ evidence'.at = at /\ evidence'.completed = completed
        /\ evidence'.raced = evidence.raced
        /\ evidence'.hashed = evidence.hashed /\ evidence'.stored = evidence.stored
    BY <1>0, <2>2 DEF EvidenceRecord
  <2> QED  BY <1>0, <2>1, <2>2, <2>3 DEF EvidenceInv, InHand, StoredAsDeclared
<1>10. CASE AwaitIntent
  <2>1. PICK at \in {"wait", "done", "failed"}, left \in 0..WaitSeconds :
          evidence' = [evidence EXCEPT !.at = at, !.left = left]
    <3>1. evidence.at = "wait" /\ evidence = [evidence EXCEPT !.at = "wait"]
      BY <1>0, <1>10 DEF AwaitIntent, EvidenceRecord
    <3>2. CASE evidence' = [evidence EXCEPT !.left = IF @ < 5 THEN 0 ELSE @ - 5]
      <4>1. PICK left \in 0..WaitSeconds : evidence' = [evidence EXCEPT !.left = left]
        <5>1. (IF evidence.left < 5 THEN 0 ELSE evidence.left - 5) \in 0..WaitSeconds
          BY <1>b, EvidenceAssumption
        <5> QED  BY <3>2, <5>1
      <4>2. evidence' = [evidence EXCEPT !.at = "wait", !.left = left]
        BY <1>0, <3>1, <4>1 DEF EvidenceRecord
      <4> QED  BY <4>2
    <3>3. ASSUME NEW at \in {"done", "failed"}, evidence' = [evidence EXCEPT !.at = at]
          PROVE  evidence' = [evidence EXCEPT !.at = at, !.left = evidence.left]
      BY <1>0, <3>3 DEF EvidenceRecord
    <3> QED  BY <1>b, <1>10, <3>2, <3>3 DEF AwaitIntent
  <2>2. Moves(at, evidence.file, evidence.opened, left)
    BY <1>0, <2>1 DEF EvidenceRecord, Moves
  <2>3. UNCHANGED disk
    BY <1>10 DEF AwaitIntent
  <2> QED  BY <1>0, <1>a, <1>b, <2>2, <2>3
<1>11. CASE UNCHANGED evidenceVars
  BY <1>11 DEF evidenceVars, EvidenceInv, InHand, StoredAsDeclared
<1> QED
  BY <1>1, <1>2, <1>3, <1>4, <1>5, <1>6, <1>7, <1>8, <1>9, <1>10, <1>11 DEF EvidenceNext, EvidenceStep

\* EvidenceInv is what every staging keeps.
LEMMA EvidenceCorrect == EvidenceSpec => []EvidenceInv
<1>1. EvidenceInit => EvidenceInv
  <2> SUFFICES ASSUME EvidenceInit PROVE EvidenceInv
    OBVIOUS
  <2>1. Unknown \in [File -> Content] /\ 0 \in 0..WaitSeconds /\ 0 \in 0..MaxEdits /\ NoFile \in Content
    BY EvidenceAssumption DEF Unknown, Content
  <2>2. evidence \in EvidenceRecord /\ evidence.at = "idle" /\ evidence.completed = {}
    BY <2>1 DEF EvidenceInit, NoEvidence, EvidenceRecord
  <2> QED  BY <2>1, <2>2 DEF EvidenceInit, EvidenceInv, InHand, StoredAsDeclared
<1> QED  BY <1>1, EvidenceStepInv, PTL DEF EvidenceSpec

\* Completed entries have the bytes their digest declares, for any number of files and edits
\* (evidence_commands.py 66-131 and 286-336).
THEOREM StoresAsDeclared == EvidenceSpec => []StoredAsDeclared
<1>1. EvidenceInv => StoredAsDeclared
  BY DEF EvidenceInv
<1> QED  BY <1>1, EvidenceCorrect, PTL

\* Every field of a staging has its type (evidence_commands.py 66-131 and 286-336).
LEMMA EvidenceTypes == EvidenceSpec => []EvidenceTypeOK
<1>1. EvidenceInv => EvidenceTypeOK
  BY DEF EvidenceInv, EvidenceRecord, Content, EvidenceTypeOK
<1> QED  BY <1>1, EvidenceCorrect, PTL

-----------------------------------------------------------------------------
(* A listing *)

ListingRecord ==
    [at : {"idle", "page", "done", "failed"}, honest : BOOLEAN, from : Nat,
     max : Nat \cup {NoCursor}, items : Seq(Nat), cursor : Nat \cup {NoCursor}, seen : SUBSET Nat,
     pages : Nat]

\* While it reads, a listing has less than it was asked for, and what an honest service gave
\* it ends where its cursor is; it has seen no cursor beyond.
ListingReads ==
    listing.at = "page" =>
        /\ listing.max # NoCursor => Len(listing.items) < listing.max
        /\ listing.honest =>
             /\ listing.items = [i \in 1..Len(listing.items) |-> listing.from + i]
             /\ listing.from + Len(listing.items) = IF listing.cursor = NoCursor THEN 0 ELSE listing.cursor
             /\ \A x \in listing.seen : x <= listing.from + Len(listing.items)
ListingInv == listing \in ListingRecord /\ ListingReads /\ ListingExact

\* Items that follow each other, and those that follow them.
Consecutive(s, from) == s = [i \in 1..Len(s) |-> from + i]

LEMMA Continue ==
    ASSUME NEW a \in Seq(Nat), NEW b \in Seq(Nat), NEW from \in Nat,
           Consecutive(a, from), Consecutive(b, from + Len(a))
    PROVE  /\ a \o b \in Seq(Nat) /\ Len(a \o b) = Len(a) + Len(b)
           /\ Consecutive(a \o b, from)
<1> USE DEF Consecutive
<1>1. /\ a \o b \in Seq(Nat) /\ Len(a \o b) = Len(a) + Len(b)
      /\ \A i \in 1..Len(a) + Len(b) : (a \o b)[i] = IF i <= Len(a) THEN a[i] ELSE b[i - Len(a)]
  BY ConcatProperties
<1> DEFINE c == a \o b
<1>2. Len(a) \in Nat /\ Len(b) \in Nat /\ Len(c) \in Nat
  BY <1>1, LenProperties
<1>3. ASSUME NEW i \in 1..Len(c) PROVE c[i] = from + i
  <2>1. CASE i <= Len(a)
    <3>1. i \in 1..Len(a) /\ c[i] = a[i]
      BY <1>1, <1>2, <2>1
    <3> HIDE DEF c
    <3> QED  BY <3>1
  <2>2. CASE ~(i <= Len(a))
    <3>1. i - Len(a) \in 1..Len(b) /\ c[i] = b[i - Len(a)]
      BY <1>1, <1>2, <2>2
    <3> HIDE DEF c
    <3>2. b[i - Len(a)] = from + Len(a) + (i - Len(a))
      BY <3>1
    <3> QED  BY <1>2, <3>1, <3>2
  <2> QED  BY <2>1, <2>2
<1>4. DOMAIN c = 1..Len(c) /\ c = [i \in DOMAIN c |-> c[i]]
  BY <1>1, LenProperties
<1> HIDE DEF c
<1>5. c = [i \in 1..Len(c) |-> from + i]
  BY <1>3, <1>4
<1> QED  BY <1>1, <1>5 DEF c

\* The fields of a listing.
LEMMA ListingTyped ==
    ASSUME NEW l \in ListingRecord
    PROVE  /\ l.at \in {"idle", "page", "done", "failed"} /\ l.honest \in BOOLEAN /\ l.from \in Nat
           /\ l.max \in Nat \cup {NoCursor} /\ l.items \in Seq(Nat) /\ Len(l.items) \in Nat
           /\ l.cursor \in Nat \cup {NoCursor} /\ l.seen \in SUBSET Nat /\ l.pages \in Nat
  BY LenProperties DEF ListingRecord

\* A listing that fails, having read all pages it may unless the service is not honest.
LEMMA ListingFails ==
    ASSUME ListingInv, Fail, listing.honest => listing.pages + 1 = MaxPages
    PROVE  ListingInv'
<1>1. /\ listing' \in ListingRecord /\ listing'.at = "failed"
      /\ listing'.honest = listing.honest /\ listing'.pages = listing.pages
  BY DEF ListingInv, ListingRecord, Fail
<1> QED  BY <1>1 DEF ListingInv, ListingReads, ListingExact

LEMMA ReadPageInv == ListingInv /\ ReadPage => ListingInv'
<1> SUFFICES ASSUME ListingInv, ReadPage PROVE ListingInv'
  OBVIOUS
<1>1. /\ listing \in ListingRecord /\ listing.at = "page" /\ ListingReads
      /\ Size \in Nat /\ PageLimit \in Nat /\ NoCursor \notin Nat
  BY ListingAssumption DEF ListingInv, ReadPage
<1>2. PICK n \in 0..PageLimit + 1, next \in (1..Size) \cup {NoCursor},
           first \in IF listing.honest THEN 1..Size ELSE {1} :
        LET items == [i \in 1..n |-> IF listing.honest THEN first + i - 1 ELSE 1]
            read == [listing EXCEPT !.items = @ \o items, !.cursor = next, !.pages = @ + 1]
            full == listing.max # NoCursor /\ Len(read.items) >= listing.max
        IN /\ Page(items, next)
           /\ CASE n > Limit -> Fail
                [] n <= Limit /\ (next = NoCursor \/ full) ->
                     listing' = [read EXCEPT !.at = "done"]
                [] OTHER ->
                     IF next \in listing.seen \/ read.pages = MaxPages THEN Fail
                     ELSE listing' = [read EXCEPT !.seen = @ \cup {next}]
  BY DEF ReadPage
<1> DEFINE items == [i \in 1..n |-> IF listing.honest THEN first + i - 1 ELSE 1]
           read == [listing EXCEPT !.items = @ \o items, !.cursor = next, !.pages = @ + 1]
           full == listing.max # NoCursor /\ Len(read.items) >= listing.max
           pos == IF listing.cursor = NoCursor THEN 0 ELSE listing.cursor
<1>3. items \in Seq(Nat) /\ Len(items) = n /\ n \in Nat /\ DOMAIN items = 1..n
  <2>1. first \in Nat /\ first >= 1
    OBVIOUS
  <2>2. \A i \in 1..n : (IF listing.honest THEN first + i - 1 ELSE 1) \in Nat
    BY <2>1
  <2> QED  BY <2>2
<1>4. /\ Page(items, next)
      /\ \/ n > Limit /\ Fail
         \/ n <= Limit /\ (next = NoCursor \/ full) /\ listing' = [read EXCEPT !.at = "done"]
         \/ ~(n > Limit) /\ ~(n <= Limit /\ (next = NoCursor \/ full))
            /\ (next \in listing.seen \/ read.pages = MaxPages) /\ Fail
         \/ ~(n > Limit) /\ ~(n <= Limit /\ (next = NoCursor \/ full)) /\ next \notin listing.seen
            /\ listing' = [read EXCEPT !.seen = @ \cup {next}]
  BY <1>2
<1> HIDE DEF items
<1>5. /\ listing.at \in {"idle", "page", "done", "failed"} /\ listing.honest \in BOOLEAN
      /\ listing.from \in Nat /\ listing.max \in Nat \cup {NoCursor} /\ listing.items \in Seq(Nat)
      /\ Len(listing.items) \in Nat /\ listing.cursor \in Nat \cup {NoCursor}
      /\ listing.seen \in SUBSET Nat /\ listing.pages \in Nat
  BY <1>1, ListingTyped
<1>6. Limit \in Int /\ (listing.max # NoCursor => Limit <= listing.max - Len(listing.items))
  BY <1>1, <1>5 DEF Limit
<1>7. /\ listing.items \o items \in Seq(Nat) /\ Len(listing.items \o items) = Len(listing.items) + n
  BY <1>3, <1>5, ConcatProperties
<1>8. /\ read \in ListingRecord /\ read.at = "page" /\ read.items = listing.items \o items
      /\ read.cursor = next /\ read.pages = listing.pages + 1 /\ read.honest = listing.honest
      /\ read.from = listing.from /\ read.max = listing.max /\ read.seen = listing.seen
  <2>1. next \in Nat \cup {NoCursor} /\ listing.pages + 1 \in Nat
    BY <1>1, <1>5
  <2>2. [listing EXCEPT !.items = listing.items \o items] \in ListingRecord
    BY <1>1, <1>7 DEF ListingRecord
  <2> QED  BY <1>1, <1>5, <1>7, <2>1, <2>2 DEF ListingRecord
<1> DEFINE all == listing.items \o items
           end == listing.from + Len(listing.items) + n
<1> HIDE DEF read
<1>9. ASSUME listing.honest
      PROVE  /\ n <= Limit /\ end <= Size /\ (n = 0 => end = Size)
             /\ (next = NoCursor /\ end = Size) \/ (next = end /\ n # 0)
             /\ all = [i \in 1..Len(all) |-> listing.from + i]
             /\ \A x \in listing.seen : x <= listing.from + Len(listing.items)
  <2>1. /\ listing.items = [i \in 1..Len(listing.items) |-> listing.from + i]
        /\ listing.from + Len(listing.items) = pos
        /\ \A x \in listing.seen : x <= listing.from + Len(listing.items)
    BY <1>1, <1>9 DEF ListingReads
  <2>2. /\ items = [i \in 1..n |-> pos + i] /\ n <= Limit /\ pos + n <= Size
        /\ n = 0 => pos + n = Size
        /\ (next = NoCursor /\ pos + n = Size) \/ (next = pos + n /\ items # <<>>)
    BY <1>3, <1>4, <1>9 DEF Page
  <2>3. items # <<>> => n # 0
    BY <1>3
  <2>4. items = [i \in 1..Len(items) |-> listing.from + Len(listing.items) + i]
    BY <1>3, <2>1, <2>2
  <2>5. all = [i \in 1..Len(all) |-> listing.from + i]
    <3>1. listing.items = [i \in 1..Len(listing.items) |-> listing.from + i]
      BY <2>1
    <3>2. listing.items \in Seq(Nat) /\ items \in Seq(Nat) /\ listing.from \in Nat
      BY <1>3, <1>5
    <3>3. Consecutive(listing.items, listing.from)
      BY ONLY <3>1 DEF Consecutive
    <3>4. Consecutive(items, listing.from + Len(listing.items))
      BY ONLY <2>4 DEF Consecutive
    <3>5. Consecutive(listing.items \o items, listing.from)
      BY ONLY <3>2, <3>3, <3>4, Continue
    <3> QED  BY ONLY <3>5 DEF Consecutive
  <2> QED  BY <2>1, <2>2, <2>3, <2>5
<1> HIDE DEF all, end
<1>10. CASE n > Limit /\ Fail
  <2>1. listing.honest => n <= Limit
    BY <1>9
  <2>2. ~listing.honest
    BY <1>3, <1>6, <1>10, <2>1
  <2> QED  BY <1>10, <2>2, ListingFails
<1>11. CASE n <= Limit /\ (next = NoCursor \/ full) /\ listing' = [read EXCEPT !.at = "done"]
  <2>1. /\ listing' \in ListingRecord /\ listing'.at = "done" /\ listing'.items = all
        /\ listing'.cursor = next /\ listing'.honest = listing.honest
        /\ listing'.from = listing.from /\ listing'.max = listing.max
    BY <1>8, <1>11 DEF ListingRecord, all
  <2>2. Len(all) = Len(listing.items) + n /\ end = listing.from + Len(all)
    BY <1>3, <1>5, <1>7 DEF all, end
  <2>3. listing.max # NoCursor => Len(all) <= listing.max
    BY <1>3, <1>5, <1>6, <1>11, <2>2
  <2>4. full => listing.max # NoCursor
    OBVIOUS
  <2>5. listing.honest =>
            /\ all = [i \in 1..Len(all) |-> listing.from + i]
            /\ next \in {NoCursor, listing.from + Len(all)}
            /\ next = NoCursor => listing.from + Len(all) = Size
            /\ listing.max = NoCursor => listing.from + Len(all) = Size
    <3> SUFFICES ASSUME listing.honest
                 PROVE  /\ all = [i \in 1..Len(all) |-> listing.from + i]
                        /\ next \in {NoCursor, listing.from + Len(all)}
                        /\ next = NoCursor => listing.from + Len(all) = Size
                        /\ listing.max = NoCursor => listing.from + Len(all) = Size
      OBVIOUS
    <3>1. end \in Nat
      BY <1>3, <1>5 DEF end
    <3> QED  BY <1>1, <1>9, <1>11, <2>2, <2>4, <3>1
  <2>6. ListingExact'
    BY <2>1, <2>3, <2>5 DEF ListingExact
  <2> QED  BY <2>1, <2>6 DEF ListingInv, ListingReads
<1>12. CASE ~(n > Limit) /\ ~(n <= Limit /\ (next = NoCursor \/ full))
  <2>1. n <= Limit /\ next # NoCursor /\ ~full /\ next \in Nat
    BY <1>1, <1>3, <1>6, <1>12
  <2>2. listing.honest => next \notin listing.seen
    <3>1. end = listing.from + Len(listing.items) + n
      BY DEF end
    <3> QED  BY <1>1, <1>3, <1>5, <1>9, <2>1, <3>1
  <2>3. CASE (next \in listing.seen \/ read.pages = MaxPages) /\ Fail
    BY <1>8, <2>2, <2>3, ListingFails
  <2>4. CASE listing' = [read EXCEPT !.seen = @ \cup {next}]
    <3>1. /\ listing' \in ListingRecord /\ listing'.at = "page" /\ listing'.items = all
          /\ listing'.cursor = next /\ listing'.honest = listing.honest
          /\ listing'.from = listing.from /\ listing'.max = listing.max
          /\ listing'.seen = listing.seen \cup {next}
      BY <1>8, <2>1, <2>4 DEF ListingRecord, all
    <3>2. Len(all) = Len(listing.items) + n /\ end = listing.from + Len(all) /\ Len(all) \in Nat
      <4>1. Len(all) = Len(listing.items) + n
        BY <1>7 DEF all
      <4> QED  BY <1>3, <1>5, <4>1 DEF end
    <3>3. listing.max # NoCursor => Len(all) < listing.max
      <4>1. read.items = all
        BY <1>8 DEF all
      <4> QED  BY <1>5, <2>1, <3>2, <4>1
    <3>4. listing.honest => next = end
      BY <1>9, <2>1
    <3>5. listing.honest => \A x \in listing.seen \cup {next} : x <= listing.from + Len(all)
      BY <1>3, <1>5, <1>9, <2>1, <3>2, <3>4
    <3>6. ListingReads'
      BY <1>9, <2>1, <3>1, <3>2, <3>3, <3>4, <3>5 DEF ListingReads
    <3> QED  BY <3>1, <3>6 DEF ListingInv, ListingExact
  <2> QED  BY <1>4, <1>12, <2>3, <2>4
<1> QED  BY <1>4, <1>10, <1>11, <1>12

\* ListingInv is what every listing keeps.
LEMMA ListingCorrect == ListingSpec => []ListingInv
<1>1. NoListing \in ListingRecord /\ NoListing.at = "idle"
  BY DEF NoListing, ListingRecord
<1>2. ListingInit => ListingInv
  BY <1>1 DEF ListingInit, ListingInv, ListingReads, ListingExact
<1>3. ListingInv /\ [ListingNext]_listing => ListingInv'
  <2> SUFFICES ASSUME ListingInv, [ListingNext]_listing PROVE ListingInv'
    OBVIOUS
  <2>1. CASE ListingBegin
    <3>1. PICK honest \in BOOLEAN, max \in (1..Size + 1) \cup {NoCursor},
               cursor \in (1..Size) \cup {NoCursor} :
            listing' = [NoListing EXCEPT !.at = "page", !.honest = honest, !.max = max,
                !.cursor = cursor, !.from = IF cursor = NoCursor THEN 0 ELSE cursor,
                !.seen = {cursor} \ {NoCursor}]
      BY <2>1 DEF ListingBegin
    <3>2. listing' = [at |-> "page", honest |-> honest, from |-> IF cursor = NoCursor THEN 0 ELSE cursor,
                      max |-> max, items |-> <<>>, cursor |-> cursor, seen |-> {cursor} \ {NoCursor},
                      pages |-> 0]
      BY <3>1 DEF NoListing
    <3>3. Size \in Nat /\ NoCursor \notin Nat
      BY ListingAssumption
    <3>4. listing' \in ListingRecord
      BY <3>2, <3>3 DEF ListingRecord
    <3>5. ListingReads'
      <4>1. Len(<<>>) = 0 /\ <<>> = [i \in 1..0 |-> listing'.from + i]
        OBVIOUS
      <4> QED  BY <3>2, <3>3, <4>1 DEF ListingReads
    <3> QED  BY <3>2, <3>4, <3>5 DEF ListingInv, ListingExact
  <2>2. CASE ReadPage
    BY <2>2, ReadPageInv
  <2>3. CASE UNCHANGED listing
    BY <2>3 DEF ListingInv, ListingReads, ListingExact
  <2> QED  BY <2>1, <2>2, <2>3 DEF ListingNext, ListingStep
<1> QED  BY <1>2, <1>3, PTL DEF ListingSpec

\* However the service answers, what a listing returns is exactly what it was asked for and its
\* cursor continues there, for every size of collection, page and maximum (api.py 188-236).
THEOREM ListsExactly == ListingSpec => []ListingExact
<1>1. ListingInv => ListingExact
  BY DEF ListingInv
<1> QED  BY <1>1, ListingCorrect, PTL

\* Items and cursors are positions of the collection, and no page is read beyond the last
\* that may be (api.py 188-236).
ListingBounded ==
    ListingTypeOK /\ (listing.at = "page" => listing.pages < MaxPages)

\* Every page that is read keeps them so.
LEMMA ListingBoundedStep ==
    ListingInv /\ ListingBounded /\ [ListingNext]_listing => ListingBounded'
<1> SUFFICES ASSUME ListingInv, ListingBounded, [ListingNext]_listing PROVE ListingBounded'
  OBVIOUS
<1> USE ListingAssumption
<1>0. listing \in ListingRecord /\ ListingTypeOK
  BY DEF ListingInv, ListingBounded
<1>1. CASE ListingBegin
  <2>1. PICK honest \in BOOLEAN, max \in (1..Size + 1) \cup {NoCursor},
             cursor \in (1..Size) \cup {NoCursor} :
          listing' = [NoListing EXCEPT !.at = "page", !.honest = honest, !.max = max,
              !.cursor = cursor, !.from = IF cursor = NoCursor THEN 0 ELSE cursor,
              !.seen = {cursor} \ {NoCursor}]
    BY <1>1 DEF ListingBegin
  <2>2. listing' = [at |-> "page", honest |-> honest, from |-> IF cursor = NoCursor THEN 0 ELSE cursor,
                    max |-> max, items |-> <<>>, cursor |-> cursor, seen |-> {cursor} \ {NoCursor},
                    pages |-> 0]
    BY <2>1 DEF NoListing
  <2> QED  BY <2>2 DEF ListingBounded, ListingTypeOK
<1>2. CASE ReadPage
  <2>1. listing.at = "page" /\ listing.pages < MaxPages /\ listing.pages \in Nat
    BY <1>2 DEF ReadPage, ListingBounded, ListingTypeOK
  <2>2. CASE Fail
    <3>1. /\ listing'.at = "failed" /\ listing'.honest = listing.honest /\ listing'.from = listing.from
          /\ listing'.max = listing.max /\ listing'.items = listing.items /\ listing'.cursor = listing.cursor
          /\ listing'.seen = listing.seen /\ listing'.pages = listing.pages
      BY <1>0, <2>2 DEF Fail, ListingRecord
    <3> QED  BY <1>0, <3>1 DEF ListingBounded, ListingTypeOK
  <2>3. CASE ~Fail
    <3>1. PICK n \in 0..PageLimit + 1, next \in (1..Size) \cup {NoCursor},
               first \in IF listing.honest THEN 1..Size ELSE {1} :
            LET items == [i \in 1..n |-> IF listing.honest THEN first + i - 1 ELSE 1]
                read == [listing EXCEPT !.items = @ \o items, !.cursor = next, !.pages = @ + 1]
                full == listing.max # NoCursor /\ Len(read.items) >= listing.max
            IN /\ Page(items, next)
               /\ CASE n > Limit -> Fail
                    [] n <= Limit /\ (next = NoCursor \/ full) ->
                         listing' = [read EXCEPT !.at = "done"]
                    [] OTHER ->
                         IF next \in listing.seen \/ read.pages = MaxPages THEN Fail
                         ELSE listing' = [read EXCEPT !.seen = @ \cup {next}]
      BY <1>2 DEF ReadPage
    <3> DEFINE items == [i \in 1..n |-> IF listing.honest THEN first + i - 1 ELSE 1]
               read == [listing EXCEPT !.items = @ \o items, !.cursor = next, !.pages = @ + 1]
               full == listing.max # NoCursor /\ Len(read.items) >= listing.max
               pos == IF listing.cursor = NoCursor THEN 0 ELSE listing.cursor
    <3>a. Limit \in Int
      BY <1>0 DEF Limit, ListingTypeOK
    <3>2. /\ Page(items, next)
          /\ \/ listing' = [read EXCEPT !.at = "done"]
             \/ /\ next # NoCursor /\ read.pages # MaxPages
                /\ listing' = [read EXCEPT !.seen = @ \cup {next}]
      BY <2>3, <3>1, <3>a
    <3>3. n \in Nat /\ pos \in Nat /\ 1 \in 1..Size
      <4>1. listing.cursor \in Nat \cup {NoCursor}
        BY <1>0, ListingTyped
      <4> QED  BY <4>1
    <3>4. DOMAIN items = 1..n /\ Len(items) = n
      BY <3>3
    <3>5. ASSUME NEW i \in 1..n PROVE items[i] \in 1..Size
      <4>1. CASE listing.honest
        <5>1. items[i] = pos + i /\ pos + n <= Size
          BY <3>2, <3>4, <4>1 DEF Page
        <5> QED  BY <3>3, <5>1
      <4>2. CASE ~listing.honest
        BY <3>3, <4>2
      <4> QED  BY <4>1, <4>2
    <3>6. items \in Seq(1..Size) /\ items \in Seq(Nat)
      BY <3>3, <3>5
    <3> HIDE DEF items, full
    <3>7. listing.items \o items \in Seq(1..Size)
      BY <1>0, <3>6 DEF ListingTypeOK
    <3>8. /\ read.items = listing.items \o items /\ read.cursor = next /\ read.pages = listing.pages + 1
          /\ read.at = "page" /\ read.honest = listing.honest /\ read.from = listing.from
          /\ read.max = listing.max /\ read.seen = listing.seen
          /\ read = [at |-> read.at, honest |-> read.honest, from |-> read.from, max |-> read.max,
                     items |-> read.items, cursor |-> read.cursor, seen |-> read.seen,
                     pages |-> read.pages]
      <4>1. next \in Nat \cup {NoCursor} /\ listing.pages + 1 \in Nat
        BY <2>1
      <4>2. listing.items \o items \in Seq(Nat)
        BY <1>0, <3>6, ListingTyped, ConcatProperties
      <4>3. [listing EXCEPT !.items = listing.items \o items] \in ListingRecord
        BY <1>0, <4>2 DEF ListingRecord
      <4>4. read \in ListingRecord
        BY <1>0, <4>1, <4>3 DEF ListingRecord
      <4>5. /\ read.items = listing.items \o items /\ read.cursor = next /\ read.pages = listing.pages + 1
            /\ read.at = "page" /\ read.honest = listing.honest /\ read.from = listing.from
            /\ read.max = listing.max /\ read.seen = listing.seen
        BY <1>0, <2>1 DEF ListingRecord
      <4> HIDE DEF read
      <4> QED  BY <4>4, <4>5 DEF ListingRecord
    <3> HIDE DEF read, pos
    <3>9. CASE listing' = [read EXCEPT !.at = "done"]
      <4>1. /\ listing'.at = "done" /\ listing'.honest = listing.honest /\ listing'.from = listing.from
            /\ listing'.max = listing.max /\ listing'.items = listing.items \o items
            /\ listing'.cursor = next /\ listing'.seen = listing.seen
            /\ listing'.pages = listing.pages + 1
        BY <3>8, <3>9
      <4>2. listing.pages + 1 \in 0..MaxPages
        BY <2>1
      <4> QED  BY <1>0, <3>7, <4>1, <4>2 DEF ListingBounded, ListingTypeOK
    <3>10. CASE /\ next # NoCursor /\ read.pages # MaxPages
                /\ listing' = [read EXCEPT !.seen = @ \cup {next}]
      <4>1. /\ listing'.at = "page" /\ listing'.honest = listing.honest /\ listing'.from = listing.from
            /\ listing'.max = listing.max /\ listing'.items = listing.items \o items
            /\ listing'.cursor = next /\ listing'.seen = listing.seen \cup {next}
            /\ listing'.pages = listing.pages + 1
        BY <3>8, <3>10
      <4>2. listing.pages + 1 \in 0..MaxPages /\ listing.pages + 1 < MaxPages
        BY <2>1, <3>8, <3>10
      <4>3. next \in 1..Size
        BY <3>10
      <4> QED  BY <1>0, <3>7, <4>1, <4>2, <4>3 DEF ListingBounded, ListingTypeOK
    <3> QED  BY <3>2, <3>9, <3>10
  <2> QED  BY <2>2, <2>3
<1>3. CASE UNCHANGED listing
  BY <1>3 DEF ListingBounded, ListingTypeOK
<1> QED  BY <1>1, <1>2, <1>3 DEF ListingNext, ListingStep

\* Every field of a listing has its type (api.py 188-236).
LEMMA ListingTypes == ListingSpec => []ListingTypeOK
<1>1. ListingInit => ListingBounded
  BY ListingAssumption DEF ListingInit, NoListing, ListingBounded, ListingTypeOK
<1>2. ListingBounded => ListingTypeOK
  BY DEF ListingBounded
<1> QED  BY <1>1, <1>2, ListingBoundedStep, ListingCorrect, PTL DEF ListingSpec

-----------------------------------------------------------------------------
(* The credential stores *)

WorkerSteps == {"idle", "probe", "check", "unprobe", "hold", "drop"}
Probing == {"probe", "check", "unprobe"}

\* The fields of a command, and whose it is.
Work(rec) ==
    /\ rec = [at |-> rec.at, profile |-> rec.profile, left |-> rec.left, value |-> rec.value,
              failed |-> rec.failed, base |-> rec.base]
    /\ rec.at \in WorkerSteps /\ rec.failed \in BOOLEAN
    /\ rec.at # "idle" => rec.profile \in Owner

Kept(s, p) ==
    known[<<s, p>>] # Unsure /\ (s = Plain => ~overlapped) =>
        known[<<s, p>>] = IF p \in DOMAIN stored[s] THEN stored[s][p] ELSE Absent
ProbeExplained(s, w) ==
    Probe(w) \in DOMAIN stored[s] =>
        \/ <<s, Probe(w)>> \in litter \/ (s = Plain /\ overlapped)
        \/ worker[w].at \in Probing /\ TheStore(w) = s

StoresInv ==
    /\ DOMAIN worker = Worker /\ \A w \in Worker : Work(worker[w])
    /\ worker = [w \in Worker |-> worker[w]]
    /\ stored = [s \in Backend |-> stored[s]]
    /\ known = [e \in Backend \X Owner |-> known[e]]
    /\ overlapped \in BOOLEAN
    /\ \A s \in Backend, p \in Owner : Kept(s, p)
    /\ \A s \in Backend, w \in Worker : ProbeExplained(s, w)

LEMMA StoresInvKeeps == StoresInv => EntriesKept
  BY DEF StoresInv, Kept, ProbeExplained, EntriesKept, Probing

LEMMA NoWorkIsWork == Work(NoWork) /\ NoWork.at = "idle"
  BY DEF Work, NoWork, WorkerSteps

LEMMA WorkOf ==
    ASSUME NEW a \in WorkerSteps, NEW p \in Owner, NEW l, NEW v, NEW f \in BOOLEAN, NEW b, NEW r,
           r = [at |-> a, profile |-> p, left |-> l, value |-> v, failed |-> f, base |-> b]
    PROVE  Work(r) /\ r.at = a /\ r.left = l
  BY DEF Work

\* What a command goes on with.
LEMMA NextStoreWork ==
    ASSUME NEW rec, Work(rec), rec.at # "idle"
    PROVE  Work(NextStore(rec))
<1> DEFINE left == rec.left \ {Foremost(rec.left)}
<1>1. CASE left = {}
  BY <1>1, NoWorkIsWork DEF NextStore
<1>2. CASE left # {}
  <2>1. NextStore(rec) = [at |-> IF rec.at = "drop" THEN "drop" ELSE "probe", profile |-> rec.profile,
                          left |-> left, value |-> rec.value, failed |-> FALSE, base |-> Absent]
    BY <1>2 DEF NextStore, Work
  <2> QED  BY <2>1 DEF Work, WorkerSteps
<1> QED  BY <1>1, <1>2

LEMMA AfterCallWork ==
    ASSUME NEW rec, Work(rec), rec.at # "idle", NEW ok \in BOOLEAN
    PROVE  /\ Work(AfterCall(rec, ok))
           /\ rec.at \in {"probe", "check"} =>
                /\ AfterCall(rec, ok).at \in {"check", "unprobe"}
                /\ AfterCall(rec, ok).left = rec.left
<1>1. CASE rec.at = "probe" /\ ok
  <2>1. AfterCall(rec, ok) = [at |-> "check", profile |-> rec.profile, left |-> rec.left,
                              value |-> rec.value, failed |-> rec.failed, base |-> Absent]
    BY <1>1 DEF AfterCall, Work
  <2>2. rec.failed \in BOOLEAN /\ rec.profile \in Owner
    BY <1>1 DEF Work
  <2>3. Work(AfterCall(rec, ok)) /\ AfterCall(rec, ok).at = "check" /\ AfterCall(rec, ok).left = rec.left
    BY <2>1, <2>2, WorkOf DEF WorkerSteps
  <2> QED  BY <2>3
<1>2. CASE rec.at = "check" \/ (rec.at = "probe" /\ ~ok)
  <2>1. AfterCall(rec, ok) = [at |-> "unprobe", profile |-> rec.profile, left |-> rec.left,
                              value |-> rec.value, failed |-> ~ok, base |-> Absent]
    BY <1>2 DEF AfterCall, Work
  <2> QED  BY <1>2, <2>1 DEF Work, WorkerSteps
<1>3. CASE rec.at = "unprobe" /\ ok /\ ~rec.failed
  <2>1. AfterCall(rec, ok) = [at |-> "hold", profile |-> rec.profile, left |-> rec.left,
                              value |-> rec.value, failed |-> rec.failed, base |-> Absent]
    BY <1>3 DEF AfterCall, Work
  <2>2. rec.failed \in BOOLEAN /\ rec.profile \in Owner
    BY <1>3 DEF Work
  <2>3. Work(AfterCall(rec, ok))
    BY <2>1, <2>2, WorkOf DEF WorkerSteps
  <2> QED  BY <1>3, <2>1, <2>3
<1>4. CASE rec.at = "hold"
  <2>1. AfterCall(rec, ok) = NoWork
    BY <1>4 DEF AfterCall
  <2> QED  BY <1>4, <2>1, NoWorkIsWork
<1>5. CASE rec.at = "drop" \/ (rec.at = "unprobe" /\ ~(ok /\ ~rec.failed))
  <2>1. AfterCall(rec, ok) = NextStore(rec)
    BY <1>5 DEF AfterCall
  <2> QED  BY <1>5, <2>1, NextStoreWork
<1> QED  BY <1>1, <1>2, <1>3, <1>4, <1>5 DEF Work, WorkerSteps

LEMMA BaseWork ==
    ASSUME NEW rec, Work(rec), rec.at # "idle", NEW b, NEW r, r = [rec EXCEPT !.base = b]
    PROVE  Work(r) /\ r.at = rec.at /\ r.left = rec.left
<1>1. PICK f \in BOOLEAN : f = rec.failed
  BY DEF Work
<1>2. rec = [at |-> rec.at, profile |-> rec.profile, left |-> rec.left, value |-> rec.value,
             failed |-> f, base |-> rec.base]
  BY <1>1 DEF Work
<1>3. r = [at |-> rec.at, profile |-> rec.profile, left |-> rec.left, value |-> rec.value,
           failed |-> f, base |-> b]
  BY <1>2
<1> QED  BY <1>3, WorkOf DEF Work

\* An edit changes one entry.
LEMMA EditedEntry ==
    ASSUME NEW w \in Worker, NEW entries
    PROVE  /\ \A a : a # Subject(w) => /\ a \in DOMAIN Edited(w, entries) <=> a \in DOMAIN entries
                                       /\ a \in DOMAIN entries => Edited(w, entries)[a] = entries[a]
           /\ worker[w].at \in {"probe", "hold"} =>
                Subject(w) \in DOMAIN Edited(w, entries) /\ Edited(w, entries)[Subject(w)] = worker[w].value
           /\ worker[w].at \notin {"probe", "hold"} => Subject(w) \notin DOMAIN Edited(w, entries)
  BY DEF Edited, Put1, WithoutEntry

\* A command calls a store: what becomes of the entries, of what is known of them, and of the
\* command's probe.
LEMMA OneCall ==
    ASSUME StoresInv, NEW w \in Worker, worker[w].at # "idle",
           NEW r, Work(r), worker' = [worker EXCEPT ![w] = r],
           NEW s, s = TheStore(w), NEW entries, stored' = [stored EXCEPT ![s] = entries],
           overlapped' \in BOOLEAN, overlapped => overlapped', litter \subseteq litter',
           (s = Plain /\ overlapped') \/ entries = stored[s] \/ entries = Edited(w, stored[s]),
           NEW value, Learns(w, s, value),
           \/ s = Plain /\ overlapped'
           \/ value = Unsure
           \/ value = Now(w, s) /\ entries = Edited(w, stored[s])
           \/ value = Absent /\ entries = stored[s] /\ Subject(w) \notin DOMAIN entries,
           \/ r.at \in {"check", "unprobe"} /\ r.left = worker[w].left
           \/ <<s, Probe(w)>> \in litter'
           \/ worker[w].at \in {"hold", "drop"}
           \/ Probe(w) \notin DOMAIN entries
    PROVE  StoresInv'
<1>0. Work(worker[w]) /\ DOMAIN worker = Worker
  BY DEF StoresInv
<1>1. /\ worker' = [u \in Worker |-> worker'[u]] /\ DOMAIN worker' = Worker
      /\ worker'[w] = r /\ \A u \in Worker \ {w} : worker'[u] = worker[u]
  BY DEF StoresInv
<1>2. /\ stored' = [t \in Backend |-> stored'[t]]
      /\ \A t \in Backend : stored'[t] = IF t = s THEN entries ELSE stored[t]
  BY DEF StoresInv
<1>3. Subject(w) \in Owner \cup {w}
  BY <1>0 DEF Subject, Work, WorkerSteps, Probe
<1>4. \/ Subject(w) \notin Owner /\ known' = known
      \/ Subject(w) \in Owner /\ known' = [known EXCEPT ![<<s, Subject(w)>>] = value]
  BY DEF Learns
<1>5. /\ known' = [e \in Backend \X Owner |-> known'[e]]
      /\ \A t \in Backend, p \in Owner :
            known'[<<t, p>>] = IF t = s /\ p = Subject(w) THEN value ELSE known[<<t, p>>]
  <2>1. known = [e \in Backend \X Owner |-> known[e]]
    BY DEF StoresInv
  <2>2. CASE Subject(w) \notin Owner /\ known' = known
    BY <2>1, <2>2
  <2>3. CASE Subject(w) \in Owner /\ known' = [known EXCEPT ![<<s, Subject(w)>>] = value]
    BY <2>1, <2>3
  <2> QED  BY <1>4, <2>2, <2>3
<1>6. ASSUME NEW t \in Backend, NEW p \in Owner PROVE Kept(t, p)'
  <2>1. CASE t # s
    <3>1. Kept(t, p) /\ known'[<<t, p>>] = known[<<t, p>>] /\ stored'[t] = stored[t]
      BY <1>2, <1>5, <2>1 DEF StoresInv
    <3> QED  BY <2>1, <3>1 DEF Kept
  <2>2. CASE t = s /\ p # Subject(w)
    <3>1. (s = Plain /\ overlapped') \/ (/\ p \in DOMAIN entries <=> p \in DOMAIN stored[s]
                                         /\ p \in DOMAIN entries => entries[p] = stored[s][p])
      BY <2>2, EditedEntry
    <3>2. Kept(s, p) /\ known'[<<s, p>>] = known[<<s, p>>] /\ stored'[s] = entries
      BY <1>2, <1>5, <2>2 DEF StoresInv
    <3> QED  BY <2>2, <3>1, <3>2 DEF Kept
  <2>3. CASE t = s /\ p = Subject(w)
    <3>1. worker[w].at \notin Probing /\ worker[w].at \in {"hold", "drop"}
      BY <1>0, <2>3, StoresAssumption DEF Subject, Probing, Probe, Work, WorkerSteps
    <3>2. known'[<<s, p>>] = value /\ stored'[s] = entries
      BY <1>2, <1>5, <2>3
    <3>3. CASE value = Now(w, s) /\ entries = Edited(w, stored[s])
      <4>1. CASE worker[w].at = "hold"
        <5>1. p \in DOMAIN entries /\ entries[p] = worker[w].value /\ value = worker[w].value
          BY <2>3, <3>3, <4>1, EditedEntry DEF Now
        <5> QED  BY <2>3, <3>2, <5>1 DEF Kept
      <4>2. CASE worker[w].at = "drop"
        <5>1. p \notin DOMAIN entries /\ value = Absent
          BY <2>3, <3>3, <4>2, EditedEntry DEF Now
        <5> QED  BY <2>3, <3>2, <5>1 DEF Kept
      <4> QED  BY <3>1, <4>1, <4>2
    <3> QED  BY <2>3, <3>2, <3>3 DEF Kept
  <2> QED  BY <2>1, <2>2, <2>3
<1>7. ASSUME NEW t \in Backend, NEW u \in Worker PROVE ProbeExplained(t, u)'
  <2>0. ProbeExplained(t, u)
    BY DEF StoresInv
  <2>1. CASE u # w
    <3>1. u # Subject(w)
      BY <1>3, <2>1, StoresAssumption
    <3>2. (t = Plain /\ overlapped') \/ (u \in DOMAIN stored'[t] => u \in DOMAIN stored[t])
      BY <1>2, <3>1, EditedEntry
    <3> QED  BY <1>1, <2>0, <2>1, <3>2 DEF ProbeExplained, Probe, TheStore
  <2>2. CASE u = w
    <3>1. CASE t # s
      <4>1. stored'[t] = stored[t] /\ ~(TheStore(w) = t)
        BY <1>2, <3>1
      <4> QED  BY <2>0, <2>2, <4>1 DEF ProbeExplained, Probe
    <3>2. CASE t = s /\ worker[w].at \in {"hold", "drop"}
      <4>1. Subject(w) # w
        BY <1>0, <3>2, StoresAssumption DEF Subject, Work
      <4>2. (t = Plain /\ overlapped') \/ (w \in DOMAIN stored'[t] => w \in DOMAIN stored[t])
        BY <1>2, <3>2, <4>1, EditedEntry
      <4> QED  BY <2>0, <2>2, <3>2, <4>2 DEF ProbeExplained, Probe, Probing
    <3>3. CASE t = s /\ r.at \in {"check", "unprobe"} /\ r.left = worker[w].left
      BY <1>1, <2>2, <3>3 DEF ProbeExplained, Probe, Probing, TheStore
    <3>4. CASE t = s /\ (<<s, Probe(w)>> \in litter' \/ Probe(w) \notin DOMAIN entries)
      BY <1>2, <2>2, <3>4 DEF ProbeExplained, Probe
    <3> QED  BY <3>1, <3>2, <3>3, <3>4
  <2> QED  BY <2>1, <2>2
<1>8. \A u \in Worker : Work(worker'[u])
  BY <1>1 DEF StoresInv
<1> QED  BY <1>1, <1>2, <1>5, <1>6, <1>7, <1>8 DEF StoresInv, Work

\* The stores stay, a command goes on or ends.
LEMMA StoresStay ==
    ASSUME StoresInv, NEW w \in Worker, NEW r, Work(r), worker' = [worker EXCEPT ![w] = r],
           UNCHANGED <<stored, known, overlapped>>, litter \subseteq litter',
           \/ worker[w].at \notin Probing
           \/ r.at \in Probing /\ r.left = worker[w].left
           \/ <<TheStore(w), Probe(w)>> \in litter'
    PROVE  StoresInv'
<1>1. /\ worker' = [u \in Worker |-> worker'[u]] /\ DOMAIN worker' = Worker
      /\ worker'[w] = r /\ \A u \in Worker \ {w} : worker'[u] = worker[u]
  BY DEF StoresInv
<1>2. \A t \in Backend, p \in Owner : Kept(t, p)'
  BY DEF StoresInv, Kept
<1>3. ASSUME NEW t \in Backend, NEW u \in Worker PROVE ProbeExplained(t, u)'
  <2>0. ProbeExplained(t, u)
    BY DEF StoresInv
  <2> QED  BY <1>1, <2>0 DEF ProbeExplained, Probe, TheStore
<1>4. \A u \in Worker : Work(worker'[u])
  BY <1>1 DEF StoresInv
<1> QED  BY <1>1, <1>2, <1>3, <1>4 DEF StoresInv, Work

LEMMA StoresStepInv == StoresInv /\ [StoresNext]_storesVars => StoresInv'
<1> SUFFICES ASSUME StoresInv, [StoresNext]_storesVars PROVE StoresInv'
  OBVIOUS
<1>0. /\ \A w \in Worker : Work(worker[w])
      /\ overlapped \in BOOLEAN /\ stored = [s \in Backend |-> stored[s]]
  BY DEF StoresInv
<1>1. ASSUME NEW w \in Worker, NEW p \in Owner, NEW at \in {"probe", "drop"}, NEW stores,
             StoresBegin(w, p, at, stores)
      PROVE  StoresInv'
  <2>1. PICK r : /\ r = [NoWork EXCEPT !.at = at, !.profile = p, !.left = stores, !.value = logins + 1]
                 /\ worker' = [worker EXCEPT ![w] = r]
    BY <1>1 DEF StoresBegin
  <2>2. r = [at |-> at, profile |-> p, left |-> stores, value |-> logins + 1, failed |-> FALSE,
             base |-> Absent]
    BY <2>1 DEF NoWork
  <2>3. Work(r)
    BY <2>2 DEF Work, WorkerSteps
  <2>4. worker[w].at \notin Probing /\ UNCHANGED <<stored, known, overlapped, litter>>
    BY <1>1, NoWorkIsWork DEF StoresBegin, Probing
  <2> QED  BY <2>1, <2>3, <2>4, StoresStay
<1>2. ASSUME NEW w \in Worker, LogIn(w) \/ LogOut(w) PROVE StoresInv'
  BY <1>1, <1>2 DEF LogIn, LogOut
<1>3. ASSUME NEW w \in Worker, NEW ok \in BOOLEAN, worker[w].at # "idle", Returned(w, ok)
      PROVE  /\ Work(AfterCall(worker[w], ok))
             /\ worker' = [worker EXCEPT ![w] = AfterCall(worker[w], ok)]
             /\ worker[w].at \in {"probe", "check"} =>
                    /\ AfterCall(worker[w], ok).at \in {"check", "unprobe"}
                    /\ AfterCall(worker[w], ok).left = worker[w].left
  BY <1>0, <1>3, AfterCallWork DEF Returned
<1>4. ASSUME NEW w \in Worker, worker[w].at = "unprobe", NEW entries
      PROVE  Probe(w) \notin DOMAIN Edited(w, entries)
  BY <1>4, EditedEntry DEF Subject, Probe
<1>6. ASSUME NEW w \in Worker, Entry(w) PROVE StoresInv'
  <2> DEFINE s == TheStore(w)
  <2>1. /\ worker[w].at \in {"probe", "unprobe", "hold", "drop"} /\ Returned(w, TRUE)
        /\ Learns(w, s, Now(w, s)) /\ UNCHANGED <<overlapped, litter>>
    BY <1>6 DEF Entry, Writing
  <2>3. stored' = [stored EXCEPT ![s] = Edited(w, stored[s])]
    BY <1>6 DEF Entry
  <2>4. \/ AfterCall(worker[w], TRUE).at \in {"check", "unprobe"} /\ AfterCall(worker[w], TRUE).left = worker[w].left
        \/ worker[w].at \in {"hold", "drop"}
        \/ Probe(w) \notin DOMAIN Edited(w, stored[s])
    BY <1>3, <1>4, <2>1
  <2> HIDE DEF s
  <2>5. Work(AfterCall(worker[w], TRUE)) /\ worker' = [worker EXCEPT ![w] = AfterCall(worker[w], TRUE)]
    BY <1>3, <2>1
  <2> QED  BY <1>0, <2>1, <2>3, <2>4, <2>5, OneCall DEF s
<1>7. ASSUME NEW w \in Worker, ReadFile(w) PROVE StoresInv'
  <2>1. /\ worker[w].at \in {"probe", "unprobe", "hold", "drop"} /\ TheStore(w) = Plain
        /\ UNCHANGED <<stored, overlapped, litter>>
    BY <1>7 DEF ReadFile, Writing
  <2>2. CASE /\ worker[w].at \in {"unprobe", "drop"} /\ Subject(w) \notin DOMAIN stored[Plain]
             /\ Learns(w, Plain, Now(w, Plain)) /\ Returned(w, TRUE)
    <3>1. Now(w, Plain) = Absent
      BY <2>2 DEF Now
    <3>2. Work(AfterCall(worker[w], TRUE)) /\ worker' = [worker EXCEPT ![w] = AfterCall(worker[w], TRUE)]
      BY <1>3, <2>2
    <3>3. stored' = [stored EXCEPT ![Plain] = stored[Plain]]
      BY <1>0, <2>1
    <3>4. worker[w].at \in {"hold", "drop"} \/ Probe(w) \notin DOMAIN stored[Plain]
      BY <2>2 DEF Subject
    <3> QED  BY <1>0, <2>1, <2>2, <3>1, <3>2, <3>3, <3>4, OneCall
  <2>3. CASE worker' = [worker EXCEPT ![w].base = stored[Plain]] /\ UNCHANGED known
    <3>1. PICK r : /\ r = [worker[w] EXCEPT !.base = stored[Plain]]
                   /\ worker' = [worker EXCEPT ![w] = r]
      BY <2>3
    <3>2. Work(r) /\ r.at = worker[w].at /\ r.left = worker[w].left
      BY <1>0, <2>1, <3>1, BaseWork
    <3> QED  BY <2>1, <2>3, <3>1, <3>2, StoresStay
  <2> QED  BY <1>7, <2>2, <2>3 DEF ReadFile
<1>8. ASSUME NEW w \in Worker, ReplaceFile(w) PROVE StoresInv'
  <2> DEFINE entries == Edited(w, worker[w].base)
  <2>1. /\ worker[w].at \in {"probe", "unprobe", "hold", "drop"} /\ TheStore(w) = Plain
        /\ Returned(w, TRUE) /\ Learns(w, Plain, Now(w, Plain)) /\ UNCHANGED litter
        /\ stored' = [stored EXCEPT ![Plain] = entries]
        /\ overlapped' = (overlapped \/ stored[Plain] # worker[w].base)
    BY <1>8 DEF ReplaceFile, Writing
  <2>2. /\ overlapped' \in BOOLEAN /\ (overlapped => overlapped')
        /\ ~overlapped' => entries = Edited(w, stored[Plain])
    BY <1>0, <2>1
  <2>3. \/ AfterCall(worker[w], TRUE).at \in {"check", "unprobe"} /\ AfterCall(worker[w], TRUE).left = worker[w].left
        \/ worker[w].at \in {"hold", "drop"}
        \/ Probe(w) \notin DOMAIN entries
    BY <1>3, <1>4, <2>1
  <2>4. Work(AfterCall(worker[w], TRUE)) /\ worker' = [worker EXCEPT ![w] = AfterCall(worker[w], TRUE)]
    BY <1>3, <2>1
  <2> HIDE DEF entries
  <2> QED  BY <2>1, <2>2, <2>3, <2>4, OneCall
<1>9. ASSUME NEW w \in Worker, CheckProbe(w) PROVE StoresInv'
  <2>1. PICK ok \in BOOLEAN : Returned(w, ok)
    BY <1>9 DEF CheckProbe
  <2>2. worker[w].at = "check" /\ UNCHANGED <<stored, known, overlapped, litter>>
    BY <1>9 DEF CheckProbe
  <2> QED  BY <1>3, <2>1, <2>2, StoresStay DEF Probing
<1>10. ASSUME NEW w \in Worker, CallFails(w) PROVE StoresInv'
  <2> DEFINE s == TheStore(w)
             entries == IF s = Plain /\ worker[w].base # Absent THEN worker[w].base ELSE stored[s]
  <2>1. /\ worker[w].at # "idle" /\ Returned(w, FALSE) /\ Learns(w, s, Unsure)
        /\ litter' = IF worker[w].at = "unprobe" THEN litter \cup {<<s, Probe(w)>>} ELSE litter
    BY <1>10 DEF CallFails
  <2>2. \/ UNCHANGED <<stored, overlapped>>
        \/ /\ stored' = [stored EXCEPT ![s] = Edited(w, entries)]
           /\ overlapped' = (overlapped \/ stored[s] # entries)
    BY <1>10 DEF CallFails
  <2>3. Work(AfterCall(worker[w], FALSE)) /\ worker' = [worker EXCEPT ![w] = AfterCall(worker[w], FALSE)]
    BY <1>3, <2>1
  <2>4. \/ /\ AfterCall(worker[w], FALSE).at \in {"check", "unprobe"}
           /\ AfterCall(worker[w], FALSE).left = worker[w].left
        \/ <<s, Probe(w)>> \in litter'
        \/ worker[w].at \in {"hold", "drop"}
    BY <1>0, <1>3, <2>1 DEF Work, WorkerSteps
  <2>5. litter \subseteq litter'
    BY <2>1
  <2>6. entries # stored[s] => s = Plain
    OBVIOUS
  <2> HIDE DEF s, entries
  <2>7. CASE UNCHANGED <<stored, overlapped>>
    <3>1. stored' = [stored EXCEPT ![s] = stored[s]]
      BY <1>0, <2>7
    <3> QED  BY <1>0, <2>1, <2>3, <2>4, <2>5, <2>7, <3>1, OneCall DEF s
  <2>8. CASE /\ stored' = [stored EXCEPT ![s] = Edited(w, entries)]
             /\ overlapped' = (overlapped \/ stored[s] # entries)
    <3>1. /\ overlapped' \in BOOLEAN /\ (overlapped => overlapped')
          /\ (s = Plain /\ overlapped') \/ entries = stored[s]
      BY <1>0, <2>6, <2>8
    <3>2. (s = Plain /\ overlapped') \/ Edited(w, entries) = Edited(w, stored[s])
      BY <3>1
    <3> QED  BY <2>1, <2>3, <2>4, <2>5, <2>8, <3>1, <3>2, OneCall DEF s
  <2> QED  BY <2>2, <2>7, <2>8
<1>11. ASSUME NEW w \in Worker, WorkerKilled(w) PROVE StoresInv'
  <2>1. /\ worker' = [worker EXCEPT ![w] = NoWork] /\ UNCHANGED <<stored, known, overlapped>>
        /\ <<TheStore(w), Probe(w)>> \in litter' /\ litter \subseteq litter'
    BY <1>11 DEF WorkerKilled
  <2> QED  BY <2>1, NoWorkIsWork, StoresStay
<1>12. CASE UNCHANGED storesVars
  BY <1>12 DEF storesVars, StoresInv, Kept, ProbeExplained, TheStore
<1> QED
  BY <1>2, <1>6, <1>7, <1>8, <1>9, <1>10, <1>11, <1>12 DEF StoresNext, StoresStep, StoresOthers

\* StoresInv is what the stores keep.
LEMMA StoresCorrect == StoresSpec => []StoresInv
<1>1. StoresInit => StoresInv
  <2> SUFFICES ASSUME StoresInit PROVE StoresInv
    OBVIOUS
  <2>1. \A s \in Backend : DOMAIN stored[s] = {}
    BY DEF StoresInit
  <2>2. \A s \in Backend, p \in Owner : Kept(s, p)
    BY <2>1 DEF StoresInit, Kept
  <2>3. \A s \in Backend, w \in Worker : ProbeExplained(s, w)
    BY <2>1 DEF ProbeExplained
  <2> QED  BY <2>2, <2>3, NoWorkIsWork DEF StoresInit, StoresInv
<1> QED  BY <1>1, StoresStepInv, PTL DEF StoresSpec

\* However stores fail and commands are killed, a stored credential is there and a deleted one
\* is not, and no probe stays unexplained, for any number of processes, profiles and stores
\* (credentials.py 219-322, plaintext_store.py 31-123).
THEOREM StoresKeepEntries == StoresSpec => []EntriesKept
<1> QED  BY StoresCorrect, StoresInvKeeps, PTL

\* What a command writes is its login, and what it has read of the file were entries.
WorkTyped(rec) ==
    /\ rec.at \in {"idle", "probe", "check", "unprobe", "hold", "drop"}
    /\ rec.profile \in Owner \cup {Absent} /\ rec.left \subseteq Backend
    /\ rec.failed \in BOOLEAN /\ rec.base \in Contents \cup {Absent}
    /\ rec.at # "idle" => rec.value \in 1..MaxLogins
StoresTyped == StoresTypeOK /\ \A w \in Worker : WorkTyped(worker[w])

LEMMA NoWorkTyped == WorkTyped(NoWork)
BY DEF WorkTyped, NoWork

\* Entries stay entries when one is set or deleted.
LEMMA EntriesTyped ==
    ASSUME NEW entries \in Contents, NEW a \in AccountName, NEW value \in 1..MaxLogins
    PROVE  Put1(entries, a, value) \in Contents /\ WithoutEntry(entries, a) \in Contents
<1>1. PICK A \in SUBSET AccountName : entries \in [A -> 1..MaxLogins]
  BY DEF Contents
<1>2. Put1(entries, a, value) \in [A \cup {a} -> 1..MaxLogins]
  BY <1>1 DEF Put1
<1>3. WithoutEntry(entries, a) \in [A \ {a} -> 1..MaxLogins]
  BY <1>1 DEF WithoutEntry
<1>4. A \cup {a} \in SUBSET AccountName /\ A \ {a} \in SUBSET AccountName
  OBVIOUS
<1> QED  BY <1>2, <1>3, <1>4 DEF Contents

\* A command goes on with what it has, and fewer stores.
LEMMA NextStoreTyped ==
    ASSUME NEW rec, Work(rec), WorkTyped(rec), rec.at # "idle"
    PROVE  WorkTyped(NextStore(rec))
<1> DEFINE left == rec.left \ {Foremost(rec.left)}
<1>1. CASE left = {}
  BY <1>1, NoWorkTyped DEF NextStore
<1>2. CASE left # {}
  <2>1. NextStore(rec) = [at |-> IF rec.at = "drop" THEN "drop" ELSE "probe", profile |-> rec.profile,
                          left |-> left, value |-> rec.value, failed |-> FALSE, base |-> Absent]
    BY <1>2 DEF NextStore, Work
  <2> QED  BY <2>1 DEF WorkTyped
<1> QED  BY <1>1, <1>2

LEMMA AfterCallTyped ==
    ASSUME NEW rec, Work(rec), WorkTyped(rec), rec.at # "idle", NEW ok \in BOOLEAN
    PROVE  WorkTyped(AfterCall(rec, ok))
<1>1. rec.failed \in BOOLEAN
  BY DEF Work
<1>2. ASSUME NEW at \in WorkerSteps, NEW g \in BOOLEAN, NEW b \in {rec.base, Absent}, NEW r,
             r = [at |-> at, profile |-> rec.profile, left |-> rec.left, value |-> rec.value,
                  failed |-> g, base |-> b]
      PROVE  WorkTyped(r)
  BY <1>2 DEF WorkTyped, WorkerSteps
<1>3. CASE rec.at = "probe" /\ ok
  <2>1. AfterCall(rec, ok) = [at |-> "check", profile |-> rec.profile, left |-> rec.left,
                              value |-> rec.value, failed |-> rec.failed, base |-> Absent]
    BY <1>3 DEF AfterCall, Work
  <2> QED  BY <1>1, <1>2, <2>1 DEF WorkerSteps
<1>4. CASE rec.at = "check" \/ (rec.at = "probe" /\ ~ok)
  <2>1. AfterCall(rec, ok) = [at |-> "unprobe", profile |-> rec.profile, left |-> rec.left,
                              value |-> rec.value, failed |-> ~ok, base |-> Absent]
    BY <1>4 DEF AfterCall, Work
  <2> QED  BY <1>2, <2>1 DEF WorkerSteps
<1>5. CASE rec.at = "unprobe" /\ ok /\ ~rec.failed
  <2>1. AfterCall(rec, ok) = [at |-> "hold", profile |-> rec.profile, left |-> rec.left,
                              value |-> rec.value, failed |-> rec.failed, base |-> Absent]
    BY <1>5 DEF AfterCall, Work
  <2> QED  BY <1>1, <1>2, <2>1 DEF WorkerSteps
<1>6. CASE rec.at = "hold"
  <2>1. AfterCall(rec, ok) = NoWork
    BY <1>6 DEF AfterCall
  <2> QED  BY <2>1, NoWorkTyped
<1>7. CASE rec.at = "drop" \/ (rec.at = "unprobe" /\ ~(ok /\ ~rec.failed))
  <2>1. AfterCall(rec, ok) = NextStore(rec)
    BY <1>7 DEF AfterCall
  <2> QED  BY <1>7, <2>1, NextStoreTyped
<1> QED  BY <1>3, <1>4, <1>5, <1>6, <1>7 DEF Work, WorkerSteps

\* One command goes on; what it edits are entries, and what it learns is a login or nothing.
LEMMA WorkerTyped ==
    ASSUME StoresInv, StoresTyped, NEW w \in Worker, NEW r, WorkTyped(r),
           worker' = [worker EXCEPT ![w] = r]
    PROVE  \A u \in Worker : WorkTyped(worker'[u])
BY DEF StoresInv, StoresTyped

LEMMA EditTyped ==
    ASSUME StoresTyped, StoresInv, NEW w \in Worker, worker[w].at # "idle", NEW entries \in Contents
    PROVE  Edited(w, entries) \in Contents
<1>1. Subject(w) \in AccountName
  BY DEF StoresInv, Work, Subject, AccountName, Probe
<1>2. worker[w].value \in 1..MaxLogins
  BY DEF StoresTyped, WorkTyped
<1> QED  BY <1>1, <1>2, EntriesTyped DEF Edited

LEMMA LearntTyped ==
    ASSUME StoresTyped, NEW w \in Worker, NEW s, NEW value \in (0..MaxLogins) \cup {Absent},
           Learns(w, s, value)
    PROVE  known' \in [Backend \X Owner -> 0..MaxLogins \cup {Absent}]
BY DEF StoresTyped, StoresTypeOK, Learns

LEMMA NowTyped ==
    ASSUME StoresTyped, NEW w \in Worker, worker[w].at # "idle", NEW s
    PROVE  Now(w, s) \in (0..MaxLogins) \cup {Absent} /\ Unsure \in (0..MaxLogins) \cup {Absent}
BY StoresAssumption DEF StoresTyped, WorkTyped, Now, Unsure

\* Nothing that a command does, and no failure or kill, takes anything out of its type.
LEMMA StoresTypedStep == StoresInv /\ StoresTyped /\ [StoresNext]_storesVars => StoresTyped'
<1> SUFFICES ASSUME StoresInv, StoresTyped, [StoresNext]_storesVars PROVE StoresTyped'
  OBVIOUS
<1>0. /\ \A w \in Worker : Work(worker[w]) /\ WorkTyped(worker[w])
      /\ overlapped \in BOOLEAN /\ usable \subseteq Backend /\ \A s \in Backend : stored[s] \in Contents
      /\ logins \in 0..MaxLogins /\ known \in [Backend \X Owner -> 0..MaxLogins \cup {Absent}]
      /\ stored = [s \in Backend |-> stored[s]] /\ MaxLogins \in Nat /\ Plain \in Backend
  BY StoresAssumption DEF StoresInv, StoresTyped, StoresTypeOK, Backend
<1>a. ASSUME NEW w \in Worker, NEW r, WorkTyped(r), worker' = [worker EXCEPT ![w] = r],
             usable' \subseteq Backend, logins' \in 0..MaxLogins, overlapped' \in BOOLEAN,
             known' \in [Backend \X Owner -> 0..MaxLogins \cup {Absent}],
             \A s \in Backend : stored'[s] \in Contents
      PROVE  StoresTyped'
  <2>1. \A u \in Worker : WorkTyped(worker'[u])
    BY <1>a, WorkerTyped
  <2> QED  BY <1>a, <2>1 DEF StoresTyped, StoresTypeOK, WorkTyped
<1>b. ASSUME NEW w \in Worker, NEW ok \in BOOLEAN, worker[w].at # "idle", Returned(w, ok)
      PROVE  /\ WorkTyped(AfterCall(worker[w], ok))
             /\ worker' = [worker EXCEPT ![w] = AfterCall(worker[w], ok)]
  BY <1>0, <1>b, AfterCallTyped DEF Returned
<1>1. ASSUME NEW w \in Worker, NEW p \in Owner, NEW at \in {"probe", "drop"}, NEW stores \in SUBSET Backend,
             StoresBegin(w, p, at, stores), usable' \subseteq Backend
      PROVE  StoresTyped'
  <2>1. PICK r : /\ r = [NoWork EXCEPT !.at = at, !.profile = p, !.left = stores, !.value = logins + 1]
                 /\ worker' = [worker EXCEPT ![w] = r]
    BY <1>1 DEF StoresBegin
  <2>2. r = [at |-> at, profile |-> p, left |-> stores, value |-> logins + 1, failed |-> FALSE,
             base |-> Absent]
    BY <2>1 DEF NoWork
  <2>3. logins + 1 \in 1..MaxLogins /\ logins' = logins + 1 /\ UNCHANGED <<stored, known, overlapped>>
    BY <1>0, <1>1 DEF StoresBegin
  <2>4. WorkTyped(r)
    BY <2>2, <2>3 DEF WorkTyped
  <2>5. logins' \in 0..MaxLogins
    BY <1>0, <2>3
  <2>6. overlapped' \in BOOLEAN /\ \A s \in Backend : stored'[s] \in Contents
    BY <1>0, <2>3
  <2>7. known' \in [Backend \X Owner -> 0..MaxLogins \cup {Absent}]
    BY <1>0, <2>3
  <2> QED  BY ONLY <1>1, <1>a, <2>1, <2>4, <2>5, <2>6, <2>7
<1>2. ASSUME NEW w \in Worker, LogIn(w) \/ LogOut(w) PROVE StoresTyped'
  <2>1. usable' \subseteq Backend
    BY <1>0, <1>2 DEF LogIn, LogOut, SetUpStores, Backend
  <2>2. \A preference \in Preferred : StoreCandidates(preference) \subseteq Backend
    BY StoresAssumption DEF StoreCandidates, Backend
  <2> QED  BY <1>1, <1>2, <2>1, <2>2 DEF LogIn, LogOut, Usable
<1>3. ASSUME NEW w \in Worker, Entry(w) PROVE StoresTyped'
  <2>1. /\ worker[w].at # "idle" /\ Returned(w, TRUE) /\ UNCHANGED <<usable, logins, overlapped>>
        /\ Learns(w, TheStore(w), Now(w, TheStore(w)))
        /\ stored' = [stored EXCEPT ![TheStore(w)] = Edited(w, stored[TheStore(w)])]
    BY <1>3 DEF Entry, Writing
  <2>2. \A s \in Backend : stored'[s] \in Contents
    BY <1>0, <2>1, EditTyped
  <2>3. known' \in [Backend \X Owner -> 0..MaxLogins \cup {Absent}]
    BY <2>1, NowTyped, LearntTyped
  <2> QED  BY <1>0, <1>a, <1>b, <2>1, <2>2, <2>3
<1>4. ASSUME NEW w \in Worker, ReadFile(w) PROVE StoresTyped'
  <2>1. worker[w].at # "idle" /\ UNCHANGED <<usable, stored, logins, overlapped>>
    BY <1>4 DEF ReadFile, Writing
  <2>2. CASE Learns(w, Plain, Now(w, Plain)) /\ Returned(w, TRUE)
    <3>1. known' \in [Backend \X Owner -> 0..MaxLogins \cup {Absent}]
      BY <2>1, <2>2, NowTyped, LearntTyped
    <3> QED  BY <1>0, <1>a, <1>b, <2>1, <2>2, <3>1
  <2>3. CASE worker' = [worker EXCEPT ![w].base = stored[Plain]] /\ UNCHANGED known
    <3>1. PICK r : /\ r = [worker[w] EXCEPT !.base = stored[Plain]]
                   /\ worker' = [worker EXCEPT ![w] = r]
      BY <2>3
    <3>2. PICK f \in BOOLEAN : f = worker[w].failed
      BY <1>0 DEF Work
    <3>3. worker[w] = [at |-> worker[w].at, profile |-> worker[w].profile, left |-> worker[w].left,
                       value |-> worker[w].value, failed |-> f, base |-> worker[w].base]
      BY <1>0, <3>2 DEF Work
    <3>4. r = [at |-> worker[w].at, profile |-> worker[w].profile, left |-> worker[w].left,
               value |-> worker[w].value, failed |-> f, base |-> stored[Plain]]
      BY <3>1, <3>3
    <3>5. WorkTyped(r)
      BY <1>0, <3>4 DEF WorkTyped
    <3> QED  BY <1>0, <1>a, <2>1, <2>3, <3>1, <3>5
  <2> QED  BY <1>4, <2>2, <2>3 DEF ReadFile
<1>5. ASSUME NEW w \in Worker, ReplaceFile(w) PROVE StoresTyped'
  <2>1. /\ worker[w].at # "idle" /\ worker[w].base # Absent /\ Returned(w, TRUE)
        /\ Learns(w, Plain, Now(w, Plain)) /\ UNCHANGED <<usable, logins>>
        /\ stored' = [stored EXCEPT ![Plain] = Edited(w, worker[w].base)]
        /\ overlapped' = (overlapped \/ stored[Plain] # worker[w].base)
    BY <1>5 DEF ReplaceFile, Writing
  <2>2. Edited(w, worker[w].base) \in Contents
    BY <1>0, <2>1, EditTyped DEF WorkTyped
  <2>3. \A s \in Backend : stored'[s] \in Contents
    BY <1>0, <2>1, <2>2
  <2>4. known' \in [Backend \X Owner -> 0..MaxLogins \cup {Absent}]
    BY <2>1, NowTyped, LearntTyped
  <2>5. overlapped' \in BOOLEAN
    BY <1>0, <2>1
  <2> QED  BY <1>0, <1>a, <1>b, <2>1, <2>3, <2>4, <2>5
<1>6. ASSUME NEW w \in Worker, CheckProbe(w) PROVE StoresTyped'
  <2>1. PICK ok \in BOOLEAN : Returned(w, ok)
    BY <1>6 DEF CheckProbe
  <2>2. worker[w].at # "idle" /\ UNCHANGED <<usable, stored, logins, known, overlapped>>
    BY <1>6 DEF CheckProbe
  <2> QED  BY <1>0, <1>a, <1>b, <2>1, <2>2
<1>7. ASSUME NEW w \in Worker, CallFails(w) PROVE StoresTyped'
  <2> DEFINE s == TheStore(w)
             entries == IF s = Plain /\ worker[w].base # Absent THEN worker[w].base ELSE stored[s]
  <2>1. /\ worker[w].at # "idle" /\ Returned(w, FALSE) /\ Learns(w, s, Unsure)
        /\ UNCHANGED <<usable, logins>>
    BY <1>7 DEF CallFails
  <2>2. \/ UNCHANGED <<stored, overlapped>>
        \/ /\ stored' = [stored EXCEPT ![s] = Edited(w, entries)]
           /\ overlapped' = (overlapped \/ stored[s] # entries)
    BY <1>7 DEF CallFails
  <2>3. s \in Backend => Edited(w, entries) \in Contents
    BY <1>0, <2>1, EditTyped DEF WorkTyped
  <2>4. known' \in [Backend \X Owner -> 0..MaxLogins \cup {Absent}]
    BY <2>1, NowTyped, LearntTyped
  <2> HIDE DEF s, entries
  <2>5. \A t \in Backend : stored'[t] \in Contents
    BY <1>0, <2>2, <2>3
  <2>6. overlapped' \in BOOLEAN
    BY <1>0, <2>2
  <2> QED  BY <1>0, <1>a, <1>b, <2>1, <2>4, <2>5, <2>6
<1>8. ASSUME NEW w \in Worker, WorkerKilled(w) PROVE StoresTyped'
  <2>1. /\ worker' = [worker EXCEPT ![w] = NoWork]
        /\ UNCHANGED <<usable, stored, logins, known, overlapped>>
    BY <1>8 DEF WorkerKilled
  <2> QED  BY <1>0, <1>a, <2>1, NoWorkTyped
<1>9. CASE UNCHANGED storesVars
  BY <1>9 DEF storesVars, StoresTyped, StoresTypeOK, WorkTyped
<1> QED
  BY <1>2, <1>3, <1>4, <1>5, <1>6, <1>7, <1>8, <1>9 DEF StoresNext, StoresStep, StoresOthers

\* Every variable of the stores has its type (credentials.py 219-322, plaintext_store.py
\* 31-123).
LEMMA StoresTypes == StoresSpec => []StoresTypeOK
<1>1. StoresInit => StoresTyped
  <2> SUFFICES ASSUME StoresInit PROVE StoresTyped
    OBVIOUS
  <2>1. <<>> \in [{} -> 1..MaxLogins]
    OBVIOUS
  <2>2. \A s \in Backend : stored[s] \in Contents
    BY <2>1 DEF StoresInit, Contents
  <2>3. \A w \in Worker : WorkTyped(worker[w])
    BY NoWorkTyped DEF StoresInit
  <2>4. known \in [Backend \X Owner -> 0..MaxLogins \cup {Absent}]
    BY DEF StoresInit
  <2>5. usable \subseteq Backend /\ overlapped \in BOOLEAN
    BY DEF StoresInit
  <2>6. logins \in 0..MaxLogins
    <3>1. MaxLogins \in Nat /\ logins = 0
      BY StoresAssumption DEF StoresInit
    <3> QED  BY <3>1
  <2> QED  BY <2>2, <2>3, <2>4, <2>5, <2>6 DEF StoresTyped, StoresTypeOK, WorkTyped
<1>2. StoresTyped => StoresTypeOK
  BY DEF StoresTyped
<1> QED  BY <1>1, <1>2, StoresTypedStep, StoresCorrect, PTL DEF StoresSpec
=============================================================================
