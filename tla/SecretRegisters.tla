--------------------------- MODULE SecretRegisters ---------------------------
(***************************************************************************)
(* What the credential vault of rvs promises, with no files, sockets, keys *)
(* or agents: one register per account.  An update is acknowledged only    *)
(* while its register holds it, and may be in effect without ever being    *)
(* acknowledged; one that its client gave up may still take effect, at     *)
(* most one of those does, and none does after the passphrase is changed;  *)
(* nothing else changes a register.                                        *)
(***************************************************************************)
EXTENDS Naturals

CONSTANTS
    Client,    \* those who update
    Account,   \* the registers
    Secret     \* what a register holds; 0 is nothing

VARIABLES
    pass,      \* the passphrase, 0 while there is no vault
    secret,    \* what each register holds
    possible,  \* what each register may hold, by what has been acknowledged
    asking,    \* the update each client waits for: none or one
    adrift,    \* updates given up by their clients that may still take effect
    over       \* nothing is promised any more

vars == <<pass, secret, possible, asking, adrift, over>>

Update == [account: Account, secret: Secret]

Init ==
    /\ pass \in {0, 1}
    /\ secret = [x \in Account |-> 0]
    /\ possible = [x \in Account |-> {0}]
    /\ asking = [c \in Client |-> {}]
    /\ adrift = {}
    /\ over = FALSE

Ask(c, u) ==
    /\ asking[c] = {}
    /\ asking' = [asking EXCEPT ![c] = {u}]
    /\ possible' = [possible EXCEPT ![u.account] = @ \cup {u.secret}]
    /\ UNCHANGED <<pass, secret, adrift, over>>

\* The other updates of u's register that have not been answered.
Rivals(c, u) ==
    {v \in adrift \cup UNION {asking[d] : d \in Client \ {c}} : v.account = u.account}

\* It is in its register before c learns of it, which c may never do.
Land(c, u) ==
    /\ pass # 0
    /\ u \in asking[c]
    /\ secret' = [secret EXCEPT ![u.account] = u.secret]
    /\ UNCHANGED <<pass, possible, asking, adrift, over>>

Acknowledge(c, u) ==
    /\ pass # 0
    /\ u \in asking[c] /\ secret[u.account] = u.secret
    /\ possible' = [possible EXCEPT ![u.account] =
                        {u.secret} \cup {v.secret : v \in Rivals(c, u)}]
    /\ asking' = [asking EXCEPT ![c] = {}]
    /\ UNCHANGED <<pass, secret, adrift, over>>

\* The client is told that its update failed, gives up, or is killed; whoever would have
\* answered it then serves nothing more, if its update is in effect.
GiveUp(c) ==
    /\ asking' = [asking EXCEPT ![c] = {}]
    /\ adrift' \in {adrift, adrift \cup asking[c], {}}
    /\ UNCHANGED <<pass, secret, possible, over>>

\* Whoever served an update for nobody serves nothing more.
TakeEffect(u) ==
    /\ pass # 0
    /\ u \in adrift
    /\ secret' = [secret EXCEPT ![u.account] = u.secret]
    /\ adrift' = {}
    /\ UNCHANGED <<pass, possible, asking, over>>

Forget ==
    /\ adrift' = {}
    /\ UNCHANGED <<pass, secret, possible, asking, over>>

\* A vault is set up, or its passphrase changed.
Rekey ==
    /\ pass' > pass
    /\ adrift' = {}
    /\ UNCHANGED <<secret, possible, asking, over>>

\* Two agents are started at a time, an agent stalls, or the passphrase is changed beside
\* a store: from then on anything may happen.
Disturbed == over' = TRUE

Next ==
    \/ Disturbed
    \/ \E c \in Client : GiveUp(c) \/ \E u \in Update : Ask(c, u) \/ Land(c, u) \/ Acknowledge(c, u)
    \/ \E u \in Update : TakeEffect(u)
    \/ Forget \/ Rekey

Spec == Init /\ [][Next]_vars

-----------------------------------------------------------------------------
\* The promise: a register holds the update acknowledged last, or one that was begun
\* and has not been acknowledged since.
Kept == ~over => \A x \in Account : secret[x] \in possible[x]
=============================================================================
