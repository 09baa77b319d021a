----------------------------- MODULE DevicePoll -----------------------------
(***************************************************************************)
(* Waiting for the approval of a device login (rvs/auth/device.py): the    *)
(* poll loop with its interval, slow_down, Retry-After and deadline.  The  *)
(* clock counts seconds.  The request of a poll may take longer than the   *)
(* interval: the client gives up only after 15 seconds without an answer,  *)
(* and the service decides the answer at some moment meanwhile.            *)
(***************************************************************************)
EXTENDS Naturals

CONSTANTS
    Expires,        \* bound: seconds a device code lives
    Interval,       \* intervals the service may ask for
    Wait,           \* Retry-After values
    Duration,       \* bound: seconds the request of a poll may take
    Never           \* no approval, no Retry-After, no poll yet

ASSUME PollAssumption ==
    /\ Expires \in Nat \ {0} /\ Interval \subseteq Nat \ {0}
    /\ Wait \subseteq Nat /\ Duration \subseteq Nat

VARIABLE poll   \* the loop, the moment of the approval, and history: last, took, due, limited

NoPoll == [at |-> "idle", now |-> 0, interval |-> 1, approved |-> Never, last |-> Never,
           took |-> 0, due |-> 0, limited |-> FALSE]

PollInit == poll = NoPoll

\* The device code is issued; the user approves at some moment, or never.
PollBegin ==
    /\ poll = NoPoll
    /\ \E interval \in Interval, approved \in (0..Expires) \cup {Never} :
        poll' = [NoPoll EXCEPT !.at = "poll", !.interval = interval, !.approved = approved]

\* The loop condition is evaluated after each sleep.
Sleep(p, seconds) ==
    LET now == p.now + seconds
    IN poll' = [p EXCEPT !.now = now, !.at = IF now < Expires THEN "poll" ELSE "expired"]

\* Mutant: keeps the old interval.
SlowDownKept(p) == Sleep([p EXCEPT !.due = p.last + p.interval + 5], p.interval)

SlowDown(p) ==
    Sleep([p EXCEPT !.interval = @ + 5, !.due = p.last + p.interval + 5], p.interval + 5)

\* 429 and 503: once as long as the service asks, but not past the deadline.
Longer(x, y) == IF x < y THEN y ELSE x
Shorter(x, y) == IF x < y THEN x ELSE y
BackOff(p, after) ==
    LET wait == IF after = Never THEN p.interval + 5 ELSE Longer(p.interval, after)
    IN Sleep([p EXCEPT !.limited = TRUE, !.due = Shorter(p.last + wait, Expires)],
             Longer(1, Shorter(wait, IF p.now < Expires THEN Expires - p.now ELSE 0)))

\* One poll and what the loop makes of its answer, which is decided while the request runs.
Poll ==
    /\ poll.at = "poll"
    /\ \E took \in Duration : \E decided \in 0..took :
        LET p == [poll EXCEPT !.last = poll.now, !.took = took, !.now = @ + took, !.limited = FALSE]
            approved == poll.approved # Never /\ poll.approved <= poll.now + decided
        IN \/ approved /\ poll' = [p EXCEPT !.at = "approved"]
           \/ ~approved /\ Sleep([p EXCEPT !.due = p.last + p.interval], p.interval)
           \/ ~approved /\ SlowDown(p)
           \/ \E after \in Wait \cup {Never} : BackOff(p, after)
           \/ poll' = [p EXCEPT !.at = "failed"]

PollStep == Poll
PollNext == PollBegin \/ PollStep
PollSpec == PollInit /\ [][PollNext]_poll

-----------------------------------------------------------------------------
\* Every field of the loop has its type.
PollTypeOK ==
    /\ poll.at \in {"idle", "poll", "approved", "expired", "failed"}
    /\ poll.now \in Nat /\ poll.due \in Nat /\ poll.took \in Nat
    /\ poll.interval \in Nat \ {0}
    /\ poll.approved \in (0..Expires) \cup {Never} /\ poll.last \in (0..Expires) \cup {Never}
    /\ poll.limited \in BOOLEAN

\* No poll comes before the service allows it, nor after the code has expired; and a login
\* that expires although the user approved was approved no longer before the deadline than
\* the last request and the interval took, unless the service answered it that it was busy
\* (device.py 254-345).
PollsOnTime ==
    /\ poll.at = "poll" => poll.due <= poll.now /\ poll.now < Expires
    /\ poll.at = "expired" /\ poll.approved # Never /\ ~poll.limited =>
            poll.approved + poll.took + poll.interval >= Expires
=============================================================================
