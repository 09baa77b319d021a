--------------------------- MODULE VaultAsRegisters ---------------------------
(***************************************************************************)
(* VaultAgent implements SecretRegisters: the refinement mapping.          *)
(***************************************************************************)
EXTENDS VaultAgentInv

Key == IF file = Nobody THEN 0 ELSE file.key

OnDisk == [x \in Account |-> IF file = Nobody THEN 0 ELSE file.data[x]]

\* The update that client c's command makes.
Wanted(c) ==
    IF client[c].cmd \in Updates
    THEN {[account |-> client[c].account, secret |-> client[c].secret]} ELSE {}

Asking == [c \in Client |-> Wanted(c)]

\* Agent a, whose key opens the file, has the update u in its queue and no client for it.
Stray(a, u) ==
    /\ agent[a].state \in Serving
    /\ Opens(agent[a].key)
    /\ \E i \in DOMAIN agent[a].queue :
          /\ agent[a].queue[i].from = Nobody /\ agent[a].queue[i].op \in Updates
          /\ u = [account |-> agent[a].queue[i].account, secret |-> agent[a].queue[i].secret]

\* Agent a has carried out an update for nobody, and ends when it comes to answer.
Doomed(a) == agent[a].state = "answering" /\ Head(agent[a].queue).from = Nobody

Adrift == {u \in [account: Account, secret: 0..MaxCommands] :
              \E a \in Agent : Stray(a, u) /\ ~Doomed(a)}

Registers ==
    INSTANCE SecretRegisters WITH
        Secret   <- 0..MaxCommands,
        pass     <- Key,
        secret   <- OnDisk,
        possible <- may,
        asking   <- Asking,
        adrift   <- Adrift,
        over     <- disturbed

\* Seen through the mapping, everything commands and agents do to the vault is what
\* SecretRegisters allows, through locks, prompts, expiries, kills and changes of the
\* passphrase: what _handle_request (vault.py) acknowledges has been put in the file and is
\* still there when _serve answers, although the agent may be killed in between, and of the
\* requests whose clients are gone one at most takes effect.
ImplementsRegisters == Registers!Spec
=============================================================================
