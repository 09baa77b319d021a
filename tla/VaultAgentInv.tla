--------------------------- MODULE VaultAgentInv ---------------------------
(***************************************************************************)
(* The inductive invariant of VaultAgent.  The structural part holds in    *)
(* every state; the calm part as long as nothing below the promises has    *)
(* happened, and the safety properties follow from it.                     *)
(***************************************************************************)
EXTENDS VaultAgent

\* A change of the passphrase, or a client on its way to a new agent or a new file.
Hot(k) == k.cmd = "change" \/ k.at \in Starting \cup Rewriting

\* A change that has written the file and not yet ended the agent it found.
Outdating(k) == k.cmd = "change" /\ k.at \in {"connect", "await"}

\* Where a client has the key that it will give to an agent.
HasKey(k) == k.at \in {"ping", "fork", "poll"} \/ Outdating(k)

-----------------------------------------------------------------------------
(* In every state *)

\* A client that needs the vault's file has one; a command's secret may be in the vault
\* until the command ends, and a removal leaves none; who waits, waits for an agent.
Sound(k, onDisk, left) ==
    /\ k.cmd = "change" \/ k.at \in {"changeRead", "changeWrite", "ping", "fork", "poll"} => onDisk # Nobody
    /\ k.cmd \in Updates => k.secret \in left[k.account]
    /\ k.cmd = "delete" => k.secret = 0
    /\ k.at \in {"changeRead", "changeWrite"} => k.cmd = "change"
    /\ k.at = "await" => k.to \in Agent
ClientsSound == \A c \in Client : Sound(client[c], file, may)

\* An agent has opened the vault's file, and gets requests once it listens.
AgentsOpened ==
    \A a \in Agent : /\ agent[a].state \in Alive => file # Nobody
                     /\ agent[a].state = "up" => agent[a].queue = << >>

\* What a request asks for while its sender k waits.
AskedBy(r, a, k) ==
    /\ k.at = "await" /\ k.to = a /\ k.account = r.account /\ k.secret = r.secret
    /\ r.op = IF k.cmd \in Requests THEN k.cmd ELSE "lock"

\* The requests an agent will serve: each is its sender's only one, or abandoned, and its
\* secret may be in the vault.
Queued(q, a, senders, left) ==
    /\ \A i \in DOMAIN q :
          /\ q[i].op \in Updates => q[i].secret \in left[q[i].account]
          /\ q[i].op = "delete" => q[i].secret = 0
          /\ q[i].from # Nobody => AskedBy(q[i], a, senders[q[i].from])
    /\ \A i, j \in DOMAIN q : q[i].from = q[j].from /\ q[i].from # Nobody => i = j
QueuesKept ==
    \A a \in Agent : agent[a].state \in Serving => Queued(agent[a].queue, a, client, may)

\* An agent that writes has opened the file for the request it serves; so has one that
\* has written and not answered yet.
WritesUpdate ==
    \A a \in Agent : agent[a].state \in MidUpdate =>
        /\ agent[a].queue # <<>> /\ Head(agent[a].queue).op \in Updates
        /\ agent[a].key # 0

NoneYet == file = Nobody => \A x \in Account : 0 \in may[x]

Structure == ClientsSound /\ AgentsOpened /\ QueuesKept /\ WritesUpdate /\ NoneYet

-----------------------------------------------------------------------------
(* While nothing has disturbed the vault *)

OneHot == \A c, d \in Client : Hot(client[c]) /\ Hot(client[d]) => c = d
AloneAtFork == \A c \in Client : client[c].at = "fork" => ~SomeAlive
OneAlive == \A a, b \in Agent : agent[a].state \in Alive /\ agent[b].state \in Alive => a = b
NewestKey == file # Nobody => file.key = newest
ClientKeys == \A c \in Client : HasKey(client[c]) => client[c].key = newest

\* An agent that serves or will serve has the current key, but while it is being replaced.
AgentKeys ==
    (\E c \in Client : Outdating(client[c]))
    \/ \A a \in Agent : agent[a].state \in Serving \cup {"up"} => agent[a].key = newest

\* Who rewrites the file has what is in it, and does so alone.
CopyCurrent == \A c \in Client : client[c].at = "changeWrite" => client[c].copy = file.data
WriteCurrent ==
    \A a \in Agent :
        /\ agent[a].state \in MidUpdate =>
              agent[a].key = newest /\ \A c \in Client : client[c].at # "changeWrite"
        /\ agent[a].state = "writing" => agent[a].copy =
              [file.data EXCEPT ![Head(agent[a].queue).account] = Head(agent[a].queue).secret]
WrittenStays ==
    \A a \in Agent : agent[a].state = "answering" =>
        file.data[Head(agent[a].queue).account] = Head(agent[a].queue).secret
KeepsMay == file # Nobody => \A x \in Account : file.data[x] \in may[x]

Calm == /\ OneHot /\ AloneAtFork /\ OneAlive /\ NewestKey /\ ClientKeys
        /\ AgentKeys /\ CopyCurrent /\ WriteCurrent /\ WrittenStays /\ KeepsMay

VaultInv == TypeOK /\ Structure /\ (~disturbed => Calm)
=============================================================================
