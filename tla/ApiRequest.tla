----------------------------- MODULE ApiRequest -----------------------------
(***************************************************************************)
(* One request of the API client (rvs/client.py): transport errors, the    *)
(* refresh after a 401, the rate-limit loop of reads, and the minting of a *)
(* package token, which is the one mutation that is repeated.  The service *)
(* may apply a request whose answer is lost or is not understood.          *)
(*                                                                         *)
(* The clock counts whole seconds, and only where a deadline is: a minting *)
(* attempt takes no time or its whole time limit.                          *)
(***************************************************************************)
EXTENDS Naturals

CONSTANT RetryAfter     \* seconds the service may ask to wait
ASSUME RequestAssumption == RetryAfter \subseteq Nat

VARIABLE request    \* what is sent, where it is, and history: sends and applied

ReadAttempts == 3       \* answers of a rate-limited read
TransportAttempts == 3  \* transport errors of a read
MintAttempts == 3
MintSeconds == 30
MaxRetryAfter == 30

RequestKind == {"read", "change", "mint"}
NoRequest == [kind |-> "read", at |-> "idle", allowed |-> FALSE, fresh |-> FALSE,
              tries |-> 0, rounds |-> 0, mints |-> 0, elapsed |-> 0, sends |-> 0, applied |-> 0]

RequestInit == request = NoRequest

\* from_profile: RVS_TOKEN is never refreshed; an expired session is, before the request.
RequestBegin ==
    /\ request = NoRequest
    /\ \E kind \in RequestKind, allowed, expired \in BOOLEAN :
        request' = [NoRequest EXCEPT !.kind = kind, !.allowed = allowed, !.fresh = TRUE,
                        !.at = IF allowed /\ expired THEN "refresh" ELSE "send"]

\* The attempt is over with this status; a mint may start another one.
Backoff(status) == IF status.after = 0 THEN 1 ELSE status.after
Temporary == {"busy", "gateway", "lost"}
AttemptSeconds(elapsed) ==
    IF (MintSeconds - elapsed) \div 4 < 5 THEN (MintSeconds - elapsed) \div 4 ELSE 5

\* Mutant: waits as long as the service asks.
GiveUpLate(r, status) ==
    \/ /\ r.kind = "mint" /\ status.is \in Temporary /\ r.mints + 1 < MintAttempts
       /\ \E took \in {0, AttemptSeconds(r.elapsed)} :
            request' = [r EXCEPT !.at = "send", !.mints = @ + 1, !.elapsed = @ + took + Backoff(status)]
    \/ /\ r.kind # "mint" \/ status.is \notin Temporary \/ r.mints + 1 = MintAttempts
       /\ request' = [r EXCEPT !.at = "failed"]

\* issue_native
GiveUp(r, status) ==
    \E took \in {0, AttemptSeconds(r.elapsed)} :
        LET then == r.elapsed + took + Backoff(status)
        IN request' =
            IF r.kind = "mint" /\ status.is \in Temporary /\ r.mints + 1 < MintAttempts
               /\ then < MintSeconds
            THEN [r EXCEPT !.at = "send", !.mints = @ + 1, !.elapsed = then]
            ELSE [r EXCEPT !.at = "failed"]

\* Mutant: repeats every request after a transport error.
LostAlways(r) ==
    IF r.tries + 1 < TransportAttempts
    THEN request' = [r EXCEPT !.tries = @ + 1]
    ELSE GiveUp(r, [is |-> "lost", after |-> 0])

\* A transport error: before the service has the request, or after.
Lost(r) ==
    IF r.kind = "read" /\ r.tries + 1 < TransportAttempts
    THEN request' = [r EXCEPT !.tries = @ + 1]
    ELSE GiveUp(r, [is |-> "lost", after |-> 0])

\* A 401 is refreshed once, in a mint never.
Unauthorized(r) ==
    IF r.allowed /\ r.kind # "mint" /\ r.fresh
    THEN request' = [r EXCEPT !.at = "refresh", !.fresh = FALSE]
    ELSE request' = [r EXCEPT !.at = "failed"]

\* retry_rate_limited: a read waits and is sent again; it may be refreshed once more.
Limited(r, after) ==
    IF r.kind = "read" /\ r.rounds + 1 < ReadAttempts /\ after <= MaxRetryAfter
    THEN request' = [r EXCEPT !.rounds = @ + 1, !.tries = 0, !.fresh = TRUE]
    ELSE GiveUp(r, [is |-> "busy", after |-> after])

\* One delivery to the service.  A success of another API version counts as a 502; a
\* gateway may answer for a service that has applied the request; the rest is an error.
Deliver ==
    /\ request.at = "send"
    /\ LET sent == [request EXCEPT !.sends = @ + 1]
           applied == [sent EXCEPT !.applied = @ + 1]
       IN \/ request' = [applied EXCEPT !.at = "done"]
          \/ GiveUp(applied, [is |-> "gateway", after |-> 0])
          \/ GiveUp(sent, [is |-> "gateway", after |-> 0])
          \/ Lost(applied)
          \/ Lost(sent)
          \/ Unauthorized(sent)
          \/ \E after \in RetryAfter \cup {0} : Limited(sent, after)
          \/ GiveUp(sent, [is |-> "refused", after |-> 0])

\* _refresh: a new access token, or the answer stays a 401.
RefreshToken ==
    /\ request.at = "refresh"
    /\ \/ request' = [request EXCEPT !.at = "send", !.tries = 0, !.fresh = request.sends = 0]
       \/ request' = [request EXCEPT !.at = "failed"]

RequestStep == Deliver \/ RefreshToken
RequestNext == RequestBegin \/ RequestStep
RequestSpec == RequestInit /\ [][RequestNext]_request

-----------------------------------------------------------------------------
\* Every field of the request has its type.
RequestTypeOK ==
    request \in [kind : RequestKind, at : {"idle", "send", "refresh", "done", "failed"},
                 allowed : BOOLEAN, fresh : BOOLEAN, tries : 0..TransportAttempts - 1,
                 rounds : 0..ReadAttempts - 1, mints : 0..MintAttempts - 1,
                 elapsed : 0..MintSeconds - 1, sends : Nat, applied : Nat]

\* A change is applied at most once, whatever answers are lost, and sent again only after
\* a 401; a read is sent at most eighteen times; no minting attempt starts after its
\* deadline (client.py 187-208 and 318-403).
SentSafely ==
    /\ request.kind = "change" => request.applied <= 1 /\ request.sends <= 2
    /\ request.kind = "read" => request.sends <= 18
    /\ request.kind = "mint" => request.sends <= MintAttempts /\ request.elapsed < MintSeconds
=============================================================================
