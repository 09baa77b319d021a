----------------------------- MODULE VaultAgent -----------------------------
(***************************************************************************)
(* The encrypted credential vault (rvs/auth/vault.py): a file that only a  *)
(* key opens, a forked agent that keeps the key and serves one request at  *)
(* a time on a Unix socket, and the commands that read and change secrets, *)
(* unlock, lock, set up and re-encrypt the vault.                          *)
(*                                                                         *)
(* A key stands for a passphrase with its salt: every new salt is a new    *)
(* key.  A secret is the number of the command that set it, 0 is none.     *)
(* The operating system's part: a bound socket path stays when its process *)
(* dies, binding to an existing path fails, and answering a peer that has  *)
(* closed its end raises BrokenPipeError.                                  *)
(***************************************************************************)
EXTENDS Naturals, Sequences, FiniteSets

CONSTANTS
    Client,         \* rvs processes
    Agent,          \* identities of agent processes
    Account,        \* entries of the vault
    MaxCommands,    \* bound: commands begun in all
    MaxKills,       \* bound: processes killed in all
    Nobody          \* no client, no agent, no file

ASSUME VaultAssumption ==
    /\ MaxCommands \in Nat /\ MaxKills \in Nat
    /\ Agent # {} /\ Account # {}
    /\ Nobody \notin Client \cup Agent
    /\ Nobody \notin [key: Nat, data: [Account -> 0..MaxCommands]]

VARIABLES
    file,       \* Nobody, or [key, data] of credentials.vault
    path,       \* the agent whose socket has the path, dead or alive
    agent,      \* per agent: state, key, queue of requests, copy of the data
    client,     \* per client: what runs, where it is, its request and key
    commands, kills,
    newest,     \* history: the newest key a set-up or a change wrote
    may,        \* history: the secrets each account may be left with
    disturbed   \* history: something below the promises has happened

vars == <<file, path, agent, client, commands, kills, newest, may, disturbed>>

Updates == {"set", "delete"}
Requests == Updates \cup {"get"}
CommandName == Requests \cup {"unlock", "lock", "change", "setup"}

\* Where a client is while it starts an agent or rewrites the file itself.
Starting == {"derive", "ping", "fork", "poll"}
Rewriting == {"changeRead", "changeWrite", "setupWrite"}
MidUpdate == {"writing", "answering"}
Serving == {"ready"} \cup MidUpdate
Alive == {"up", "closing"} \cup Serving

Request == [from: Client \cup {Nobody}, op: Requests \cup {"lock", "ping"},
            account: Account, secret: 0..MaxCommands]
Data == [Account -> 0..MaxCommands]
Idle == [cmd |-> "none", at |-> "idle", account |-> CHOOSE x \in Account : TRUE,
         secret |-> 0, retried |-> FALSE, key |-> 0, copy |-> [x \in Account |-> 0],
         to |-> Nobody]
Gone == [state |-> "gone", key |-> 0, queue |-> <<>>, copy |-> [x \in Account |-> 0]]

\* No vault, a locked one, or an unlocked one.
Init ==
    /\ file \in {Nobody, [key |-> 1, data |-> [x \in Account |-> 0]]}
    /\ path \in {Nobody} \cup (IF file = Nobody THEN {} ELSE {CHOOSE a \in Agent : TRUE})
    /\ agent = [a \in Agent |-> IF a = path THEN [Gone EXCEPT !.state = "ready", !.key = 1]
                                            ELSE Gone]
    /\ client = [c \in Client |-> Idle]
    /\ commands = 0 /\ kills = 0
    /\ newest = IF file = Nobody THEN 0 ELSE 1
    /\ may = [x \in Account |-> {0}]
    /\ disturbed = FALSE

SomeAlive == \E a \in Agent : agent[a].state \in Alive
Reachable(a) == path = a /\ a # Nobody /\ agent[a].state \in Serving
Refused == ~\E a \in Agent : Reachable(a)

\* What a key opens, and the key of a passphrase with a new salt.
Opens(key) == file # Nobody /\ file.key = key
FreshKey == newest + 1

\* A command that goes on, and one that ends (with success or with an error).
Goto(c, where) == client' = [client EXCEPT ![c].at = where, ![c].to = Nobody]
End(c) == client' = [client EXCEPT ![c] = Idle]

\* Another client changes the passphrase or is on its way to a new agent or file.
Contended(c) == \E d \in Client \ {c} :
    client[d].cmd = "change" \/ client[d].at \in Starting \cup Rewriting
Disturb(cond) == disturbed' = (disturbed \/ cond)

-----------------------------------------------------------------------------
(* Requests to the agent *)

\* get, set, delete and lock send their request; unlock, and a set-up that finds a vault,
\* first ask whether an agent answers.
FirstStep(cmd) ==
    CASE cmd \in Requests \cup {"lock"} -> "connect"
      [] cmd = "change" -> "changeRead"
      [] cmd = "unlock" \/ (cmd = "setup" /\ file # Nobody) -> "check"
      [] OTHER -> "setupWrite"

Begin(c) ==
    /\ client[c].at = "idle" /\ commands < MaxCommands
    /\ commands' = commands + 1
    /\ \E cmd \in CommandName, x \in Account :
        LET secret == IF cmd = "set" THEN commands + 1 ELSE 0
            at == FirstStep(cmd)
        IN /\ cmd \in {"unlock", "change"} => file # Nobody
           /\ client' = [client EXCEPT ![c] = [Idle EXCEPT !.cmd = cmd, !.at = at,
                           !.account = x, !.secret = secret]]
           /\ may' = IF cmd \in Updates THEN [may EXCEPT ![x] = @ \cup {secret}] ELSE may
           /\ Disturb(at \in Rewriting /\ Contended(c))
    /\ UNCHANGED <<file, path, agent, kills, newest>>

\* Mutant: prompts as often as the request stays unanswered.
NoAnswerForever(c) ==
    CASE client[c].cmd = "lock" -> End(c)
      [] client[c].cmd = "change" -> Goto(c, "ping")
      [] OTHER -> client' = [client EXCEPT ![c].at = "derive", ![c].to = Nobody]

\* What a request that finds no agent, or gets no answer, leads to: a lock has
\* nothing to do; get, set and delete prompt for the passphrase once.
NoAnswer(c) ==
    CASE client[c].cmd = "lock" -> End(c)
      [] client[c].cmd = "change" -> Goto(c, "ping")
      [] client[c].cmd \in Requests \cup {"unlock", "setup"} /\ client[c].retried -> End(c)
      [] OTHER -> client' = [client EXCEPT ![c].at = "derive", ![c].to = Nobody,
                                           ![c].retried = TRUE]

Connect(c) ==
    /\ client[c].at = "connect"
    /\ \/ /\ ~Refused
          /\ agent' = [agent EXCEPT ![path].queue = Append(@,
                [from |-> c, account |-> client[c].account, secret |-> client[c].secret,
                 op |-> IF client[c].cmd \in Requests THEN client[c].cmd ELSE "lock"])]
          /\ client' = [client EXCEPT ![c].at = "await", ![c].to = path]
          /\ UNCHANGED disturbed
       \/ /\ Refused
          /\ NoAnswer(c)
          /\ Disturb(SomeAlive \/ (Contended(c) /\ client'[c].at \in Starting))
          /\ UNCHANGED agent
    /\ UNCHANGED <<file, path, commands, kills, newest, may>>

\* The request stays with the agent when its sender no longer listens.
Abandon(c, a) ==
    [agent EXCEPT ![a].queue =
        [i \in DOMAIN @ |-> IF @[i].from = c THEN [@[i] EXCEPT !.from = Nobody] ELSE @[i]]]

\* Five seconds without an answer, or the agent's end of the connection closes.
Unanswered(c) ==
    /\ client[c].at = "await"
    /\ NoAnswer(c)
    /\ IF agent[client[c].to].state \in Serving
       THEN agent' = Abandon(c, client[c].to) ELSE UNCHANGED agent
    /\ Disturb(SomeAlive \/ (Contended(c) /\ client'[c].at \in Starting))
    /\ UNCHANGED <<file, path, commands, kills, newest, may>>

-----------------------------------------------------------------------------
(* Unlocking: derive the key, then start an agent unless one answers *)

\* agent_running(): a ping is answered after the requests before it, or is refused, or
\* times out and stays with the agent (one is enough: answering it ends the agent).
PingAnswered == \E a \in Agent : Reachable(a) /\ agent[a].state = "ready" /\ agent[a].queue = <<>>
PingLost ==
    IF Refused \/ \E i \in DOMAIN agent[path].queue : agent[path].queue[i].from = Nobody
    THEN UNCHANGED agent
    ELSE agent' = [agent EXCEPT ![path].queue = Append(@,
            [from |-> Nobody, op |-> "ping", account |-> Idle.account, secret |-> 0])]

\* credential_storage_unlock, also of a set-up that finds a vault: done if unlocked.
Check(c) ==
    /\ client[c].at = "check"
    /\ \/ PingAnswered /\ End(c) /\ UNCHANGED <<agent, disturbed>>
       \/ /\ PingLost /\ Goto(c, "derive")
          /\ Disturb(SomeAlive \/ Contended(c))
    /\ UNCHANGED <<file, path, commands, kills, newest, may>>

\* unlock(): the passphrase typed opens the envelope that is read, or the command fails
\* (also when the prompt is cancelled or there is no terminal).
Derive(c) ==
    /\ client[c].at = "derive"
    /\ \/ End(c)
       \/ file # Nobody /\ client' = [client EXCEPT ![c].at = "ping", ![c].key = file.key]
    /\ UNCHANGED <<file, path, agent, commands, kills, newest, may, disturbed>>

\* Success: get, set and delete repeat their request, the other commands are done.
Unlocked(c) ==
    IF client[c].cmd \in Requests
    THEN client' = [client EXCEPT ![c].at = "connect", ![c].key = 0] ELSE End(c)

\* Mutant: starts an agent without asking for one that runs.
PingUnasked(c) ==
    /\ client[c].at = "ping"
    /\ Goto(c, "fork")
    /\ UNCHANGED <<file, path, agent, commands, kills, newest, may, disturbed>>

Ping(c) ==
    /\ client[c].at = "ping"
    /\ \/ PingAnswered /\ Unlocked(c) /\ UNCHANGED <<agent, disturbed>>
       \/ PingLost /\ Goto(c, "fork") /\ Disturb(SomeAlive)
    /\ UNCHANGED <<file, path, commands, kills, newest, may>>

Fresh(a) == /\ agent[a].state = "gone" /\ path # a
            /\ \A d \in Client : client[d].to # a

\* The path is cleared, whoever owns it, and the second child becomes the agent; fork
\* may fail.
Fork(c) ==
    /\ client[c].at = "fork"
    /\ \/ End(c) /\ UNCHANGED agent
       \/ \E a \in Agent :
            /\ Fresh(a)
            /\ agent' = [agent EXCEPT ![a] = [Gone EXCEPT !.state = "up", !.key = client[c].key]]
            /\ Goto(c, "poll")
    /\ path' = Nobody
    /\ UNCHANGED <<file, commands, kills, newest, may, disturbed>>

\* Pings until one is answered or five seconds have passed.
Poll(c) ==
    /\ client[c].at = "poll"
    /\ \/ PingAnswered /\ Unlocked(c) /\ UNCHANGED <<agent, disturbed>>
       \/ PingLost /\ End(c) /\ Disturb(SomeAlive)
    /\ UNCHANGED <<file, path, commands, kills, newest, may>>

-----------------------------------------------------------------------------
(* Commands that write the file themselves *)

\* change_passphrase reads and opens the file with the old passphrase ...
ChangeRead(c) ==
    /\ client[c].at = "changeRead"
    /\ \/ End(c)
       \/ client' = [client EXCEPT ![c].at = "changeWrite", ![c].copy = file.data]
    /\ Disturb(client'[c].at = "changeWrite"
               /\ (Contended(c) \/ \E a \in Agent : agent[a].state \in MidUpdate))
    /\ UNCHANGED <<file, path, agent, commands, kills, newest, may>>

\* Mutant: keeps the agent it found, which still has the old key.
ChangeWriteOnly(c) ==
    /\ client[c].at = "changeWrite"
    /\ \/ /\ newest' = FreshKey
          /\ file' = [key |-> FreshKey, data |-> client[c].copy]
          /\ client' = [client EXCEPT ![c].at = "ping", ![c].key = FreshKey]
          /\ Disturb(Contended(c))
       \/ End(c) /\ UNCHANGED <<file, newest, disturbed>>
    /\ UNCHANGED <<path, agent, commands, kills, may>>

\* Mutant: loses count of the keys.
ChangeWriteUncounted(c) ==
    /\ client[c].at = "changeWrite"
    /\ \/ /\ UNCHANGED newest
          /\ file' = [key |-> FreshKey, data |-> client[c].copy]
          /\ client' = [client EXCEPT ![c].at = "connect", ![c].key = FreshKey]
          /\ Disturb(Contended(c))
       \/ End(c) /\ UNCHANGED <<file, newest, disturbed>>
    /\ UNCHANGED <<path, agent, commands, kills, may>>

\* ... and replaces it, under a new key, before it locks and starts an agent.
ChangeWrite(c) ==
    /\ client[c].at = "changeWrite"
    /\ \/ /\ newest' = FreshKey
          /\ file' = [key |-> FreshKey, data |-> client[c].copy]
          /\ client' = [client EXCEPT ![c].at = "connect", ![c].key = FreshKey]
          /\ Disturb(Contended(c))
       \/ End(c) /\ UNCHANGED <<file, newest, disturbed>>
    /\ UNCHANGED <<path, agent, commands, kills, may>>

\* initialize(): an empty vault; nothing prevents a second one from replacing it.
SetupWrite(c) ==
    /\ client[c].at = "setupWrite"
    /\ \/ /\ newest' = FreshKey
          /\ file' = [key |-> FreshKey, data |-> [x \in Account |-> 0]]
          /\ client' = [client EXCEPT ![c].at = "ping", ![c].key = FreshKey]
          /\ Disturb(Contended(c) \/ file # Nobody)
       \/ End(c) /\ UNCHANGED <<file, newest, disturbed>>
    /\ UNCHANGED <<path, agent, commands, kills, may>>

-----------------------------------------------------------------------------
(* The agent *)

\* _serve: an existing path makes bind fail, and the agent ends.
Bind(a) ==
    /\ agent[a].state = "up"
    /\ IF path = Nobody
       THEN path' = a /\ agent' = [agent EXCEPT ![a].state = "ready"]
       ELSE agent' = [agent EXCEPT ![a].state = "closing"] /\ UNCHANGED path
    /\ UNCHANGED <<file, client, commands, kills, newest, may, disturbed>>

\* The secrets an account may be left with when an update of it is acknowledged:
\* its own, and those of updates still on their way.
Settled(c, x, secret) ==
    {secret}
    \cup {client[d].secret : d \in {e \in Client \ {c} : client[e].cmd \in Updates
                                      /\ client[e].account = x}}
    \cup UNION {{agent[a].queue[i].secret :
            i \in {j \in DOMAIN agent[a].queue : agent[a].queue[j].from = Nobody
                      /\ agent[a].queue[j].op \in Updates /\ agent[a].queue[j].account = x}} :
         a \in {b \in Agent : agent[b].state \in Serving}}

\* The agent sends its answer to the first request: the command is done, or its client
\* has gone and the agent ends.
Answer(a, stop, accepted) ==
    LET r == Head(agent[a].queue)
        next == IF stop \/ r.from = Nobody THEN "closing" ELSE "ready"
    IN /\ agent' = [agent EXCEPT ![a].queue = Tail(@), ![a].state = next]
       /\ IF r.from = Nobody THEN UNCHANGED <<client, may>>
          ELSE /\ client' = [client EXCEPT ![r.from] =
                    IF @.cmd = "change" THEN [@ EXCEPT !.at = "ping", !.to = Nobody] ELSE Idle]
               /\ may' = IF accepted /\ r.op \in Updates
                         THEN [may EXCEPT ![r.account] = Settled(r.from, r.account, r.secret)]
                         ELSE may

\* Mutant: acknowledges a change before it is on disk.
HandleEarly(a) ==
    /\ agent[a].state = "ready" /\ agent[a].queue # <<>>
    /\ LET r == Head(agent[a].queue)
           opens == Opens(agent[a].key)
       IN Answer(a, r.op = "lock", opens) /\ UNCHANGED disturbed
    /\ UNCHANGED <<file, path, commands, kills, newest>>

\* Mutant: changes the entries without opening the file first.
HandleUnopened(a) ==
    /\ agent[a].state = "ready" /\ agent[a].queue # <<>>
    /\ LET r == Head(agent[a].queue)
       IN IF file # Nobody /\ r.op \in Updates
          THEN /\ agent' = [agent EXCEPT ![a].state = "writing",
                              ![a].copy = [file.data EXCEPT ![r.account] = r.secret]]
               /\ Disturb(\E c \in Client : client[c].at = "changeWrite")
               /\ UNCHANGED <<client, may>>
          ELSE Answer(a, r.op = "lock", TRUE) /\ UNCHANGED disturbed
    /\ UNCHANGED <<file, path, commands, kills, newest>>

\* _handle_request up to its answer, or up to the write of a changed entry.
Handle(a) ==
    /\ agent[a].state = "ready" /\ agent[a].queue # <<>>
    /\ LET r == Head(agent[a].queue)
           opens == Opens(agent[a].key)
           writes == /\ opens /\ r.op \in Updates
                     /\ r.op = "delete" => file.data[r.account] # 0
       IN IF writes
          THEN /\ agent' = [agent EXCEPT ![a].state = "writing",
                              ![a].copy = [file.data EXCEPT ![r.account] = r.secret]]
               /\ Disturb(\E c \in Client : client[c].at = "changeWrite")
               /\ UNCHANGED <<client, may>>
          ELSE Answer(a, r.op = "lock", opens) /\ UNCHANGED disturbed
    /\ UNCHANGED <<file, path, commands, kills, newest>>

\* Mutant: answers that all is well when the write has failed.
WriteUnchecked(a) ==
    /\ agent[a].state = "writing"
    /\ \/ file' = [key |-> agent[a].key, data |-> agent[a].copy]
       \/ UNCHANGED file
    /\ agent' = [agent EXCEPT ![a].state = "answering"]
    /\ UNCHANGED <<path, client, commands, kills, newest, may, disturbed>>

\* _write_encrypted: the file is replaced under the agent's own key, or that fails.
Write(a) ==
    /\ agent[a].state = "writing"
    /\ \/ /\ file' = [key |-> agent[a].key, data |-> agent[a].copy]
          /\ agent' = [agent EXCEPT ![a].state = "answering"]
          /\ UNCHANGED <<client, may>>
       \/ UNCHANGED file /\ Answer(a, FALSE, FALSE)
    /\ UNCHANGED <<path, commands, kills, newest, disturbed>>

\* The client is told after that, and if it lives; setting the new file's mode may have failed.
Reply(a) ==
    /\ agent[a].state = "answering"
    /\ \E accepted \in BOOLEAN : Answer(a, FALSE, accepted)
    /\ UNCHANGED <<file, path, commands, kills, newest, disturbed>>

\* Eight hours without a request.
Expire(a) ==
    /\ agent[a].state = "ready" /\ agent[a].queue = <<>>
    /\ agent' = [agent EXCEPT ![a].state = "closing"]
    /\ UNCHANGED <<file, path, client, commands, kills, newest, may, disturbed>>

\* The socket is closed; the path is unlinked, whoever owns it by now.
Finish(a) ==
    /\ agent[a].state = "closing"
    /\ path' = Nobody
    /\ agent' = [agent EXCEPT ![a] = Gone]
    /\ UNCHANGED <<file, client, commands, kills, newest, may, disturbed>>

-----------------------------------------------------------------------------
(* Processes killed *)

KillAgent(a) ==
    /\ kills < MaxKills /\ kills' = kills + 1
    /\ agent[a].state \in Alive
    /\ agent' = [agent EXCEPT ![a] = Gone]
    /\ UNCHANGED <<file, path, client, commands, newest, may, disturbed>>

\* At its other steps a client may fail, which leaves the same state.
KillClient(c) ==
    /\ kills < MaxKills /\ kills' = kills + 1
    /\ client[c].at \in {"connect", "await", "check", "ping", "poll"}
    /\ End(c)
    /\ agent' = IF client[c].at = "await" THEN Abandon(c, client[c].to) ELSE agent
    /\ Disturb(client[c].cmd = "change" /\ client[c].key # 0)
    /\ UNCHANGED <<file, path, commands, newest, may>>

ClientStep(c) ==
    \/ Connect(c) \/ Unanswered(c) \/ Check(c) \/ Derive(c) \/ Ping(c)
    \/ Fork(c) \/ Poll(c) \/ ChangeRead(c) \/ ChangeWrite(c) \/ SetupWrite(c)
AgentStep(a) == Bind(a) \/ Handle(a) \/ Write(a) \/ Reply(a) \/ Expire(a) \/ Finish(a)

Next ==
    \/ \E c \in Client : Begin(c) \/ ClientStep(c) \/ KillClient(c)
    \/ \E a \in Agent : AgentStep(a) \/ KillAgent(a)

\* Only the commands are fair: an agent may stall for ever.
Fairness == \A c \in Client : WF_vars(ClientStep(c))
Spec == Init /\ [][Next]_vars /\ Fairness

-----------------------------------------------------------------------------
(* Properties *)

\* Every variable keeps its type.
AgentState == [state: Alive \cup {"gone"}, key: 0..newest, queue: Seq(Request), copy: Data]
ClientState ==
    [cmd: CommandName \cup {"none"},
     at: {"idle", "connect", "await", "check"} \cup Starting \cup Rewriting,
     account: Account, secret: 0..MaxCommands, retried: BOOLEAN, key: 0..newest,
     copy: Data, to: Agent \cup {Nobody}]
TypeOK ==
    /\ file \in {Nobody} \cup [key: 1..newest, data: Data]
    /\ path \in Agent \cup {Nobody}
    /\ agent \in [Agent -> AgentState] /\ client \in [Client -> ClientState]
    /\ commands \in 0..MaxCommands /\ kills \in 0..MaxKills
    /\ newest \in Nat
    /\ may \in [Account -> SUBSET (0..MaxCommands)]
    /\ disturbed \in BOOLEAN

\* Without two commands starting an agent at once, a stalled agent or a killed change,
\* no second process holds the vault's key, whichever agents are killed or expire.
OneAgent ==
    ~disturbed => \A a, b \in Agent :
        agent[a].state \in Alive /\ agent[b].state \in Alive => a = b

\* In the same circumstances a secret whose storing or removal was acknowledged stays so
\* until a later update, through locks, kills, expiries and changes of the passphrase.
KeepsAcknowledged ==
    ~disturbed /\ file # Nobody => \A x \in Account : file.data[x] \in may[x]

\* ... the vault is encrypted under the last passphrase that was set ...
PassphraseSticks == ~disturbed /\ file # Nobody => file.key = newest

\* ... and once a change has ended, the agent that answers can open the file.
AgentOpens ==
    ~disturbed => \A a \in Agent :
        Reachable(a) /\ (\A c \in Client : client[c].cmd # "change") => agent[a].key = file.key

\* Every command ends, even if an agent stalls: requests and polls time out, and a
\* locked vault is retried once.
CommandsEnd == \A c \in Client : (client[c].at # "idle") ~> (client[c].at = "idle")
=============================================================================
