------------------------- MODULE VaultAgent_proofs -------------------------
(***************************************************************************)
(* Theorems about VaultAgent, for every set of clients, agents and         *)
(* accounts.  A step replaces the record of one client, of one agent or of *)
(* both, and the lemmas follow that division.                              *)
(***************************************************************************)
EXTENDS VaultAsRegisters, TLAPS

-----------------------------------------------------------------------------
(* Types *)

LEMMA IdleTyped == newest \in Nat => Idle \in ClientState /\ Gone \in AgentState
<1> SUFFICES ASSUME newest \in Nat PROVE Idle \in ClientState /\ Gone \in AgentState
  OBVIOUS
<1>1. (CHOOSE x \in Account : TRUE) \in Account
  BY VaultAssumption
<1>2. 0 \in 0..newest /\ 0 \in 0..MaxCommands /\ [x \in Account |-> 0] \in Data
  BY VaultAssumption DEF Data
<1>3. << >> \in Seq(Request)
  OBVIOUS
<1>4. Idle \in ClientState
  BY <1>1, <1>2 DEF Idle, ClientState
<1>5. Gone \in AgentState
  BY <1>2, <1>3 DEF Gone, AgentState, Alive
<1> QED  BY <1>4, <1>5

\* A request that is abandoned, appended or served leaves a queue of requests.
LEMMA QueueTyped ==
    ASSUME NEW q \in Seq(Request), NEW r \in Request, NEW c \in Client
    PROVE  /\ Append(q, r) \in Seq(Request)
           /\ [i \in DOMAIN q |-> IF q[i].from = c THEN [q[i] EXCEPT !.from = Nobody] ELSE q[i]]
                  \in Seq(Request)
           /\ q # << >> => Head(q) \in Request /\ Tail(q) \in Seq(Request)
<1>1. \A i \in 1..Len(q) : q[i] \in Request
  OBVIOUS
<1>2. \A s \in Request : [s EXCEPT !.from = Nobody] \in Request
  BY DEF Request
<1>3. DOMAIN q = 1..Len(q) /\ Len(q) \in Nat
  OBVIOUS
<1>4. [i \in 1..Len(q) |-> IF q[i].from = c THEN [q[i] EXCEPT !.from = Nobody] ELSE q[i]] \in Seq(Request)
  BY <1>1, <1>2, <1>3
<1> QED  BY <1>3, <1>4

\* What replacing an agent's record, or its queue alone, leaves of the agents.
LEMMA AgentReplaced ==
    ASSUME TypeOK, NEW a \in Agent, NEW new \in AgentState, agent' = [agent EXCEPT ![a] = new]
    PROVE  /\ agent' \in [Agent -> AgentState] /\ agent'[a] = new
           /\ \A b \in Agent \ {a} : agent'[b] = agent[b]
BY DEF TypeOK

LEMMA QueueReplaced ==
    ASSUME TypeOK, NEW a \in Agent, NEW q \in Seq(Request), agent' = [agent EXCEPT ![a].queue = q]
    PROVE  /\ agent' \in [Agent -> AgentState]
           /\ agent'[a].state = agent[a].state /\ agent'[a].key = agent[a].key
           /\ agent'[a].copy = agent[a].copy /\ agent'[a].queue = q
           /\ \A b \in Agent \ {a} : agent'[b] = agent[b]
<1>1. [agent[a] EXCEPT !.queue = q] \in AgentState
  BY DEF TypeOK, AgentState
<1>2. agent' = [agent EXCEPT ![a] = [agent[a] EXCEPT !.queue = q]]
  OBVIOUS
<1> QED  BY <1>1, <1>2, AgentReplaced DEF TypeOK, AgentState

\* And of the clients.
LEMMA ClientReplaced ==
    ASSUME TypeOK, NEW c \in Client, NEW new \in ClientState, client' = [client EXCEPT ![c] = new]
    PROVE  /\ client' \in [Client -> ClientState] /\ client'[c] = new
           /\ \A d \in Client \ {c} : client'[d] = client[d]
BY DEF TypeOK

\* A request nobody waits for is all that asking for an agent can leave behind.
PingRequest == [from |-> Nobody, op |-> "ping", account |-> Idle.account, secret |-> 0]

LEMMA PingTyped == PingRequest \in Request
BY VaultAssumption DEF Request, PingRequest, Idle

\* Every agent goes on as before, or ends; a serving one may have got such a request.
Quiet ==
    \A a \in Agent :
        \/ agent'[a] = agent[a]
        \/ /\ agent'[a].state = agent[a].state /\ agent'[a].key = agent[a].key
           /\ agent'[a].copy = agent[a].copy
           /\ agent'[a].queue = Append(agent[a].queue, PingRequest)
           /\ agent[a].state \in Serving

LEMMA PingLostQuiet ==
    ASSUME TypeOK, PingLost \/ UNCHANGED agent
    PROVE  agent' \in [Agent -> AgentState] /\ Quiet
<1>1. CASE UNCHANGED agent
  BY <1>1 DEF TypeOK, Quiet
<1>2. CASE ~UNCHANGED agent
  <2>1. path \in Agent /\ agent[path].state \in Serving
    BY <1>2 DEF PingLost, Refused, Reachable, TypeOK
  <2>2. agent[path].queue \in Seq(Request)
    BY <2>1 DEF TypeOK, AgentState
  <2>3. agent' = [agent EXCEPT ![path].queue = Append(agent[path].queue, PingRequest)]
    BY <1>2 DEF PingLost, PingRequest
  <2>4. Append(agent[path].queue, PingRequest) \in Seq(Request)
    BY <2>2, QueueTyped, PingTyped
  <2> HIDE DEF PingRequest
  <2> QED  BY ONLY TypeOK, <2>1, <2>3, <2>4, QueueReplaced DEF Quiet
<1> QED  BY <1>1, <1>2

-----------------------------------------------------------------------------
(* What holds in every state *)

\* A queue stays in order when a request is appended that nobody waits for, clients that do
\* not wait move, and more secrets may be left.
LEMMA QueuedMore ==
    ASSUME NEW q \in Seq(Request), NEW a, NEW senders, NEW senders2, NEW left, NEW left2,
           Queued(q, a, senders, left),
           \A d \in Client : senders[d].at = "await" => senders2[d] = senders[d],
           \A x \in Account : left[x] \subseteq left2[x]
    PROVE  Queued(q, a, senders2, left2) /\ Queued(Append(q, PingRequest), a, senders2, left2)
<1>1. \A i \in DOMAIN q : q[i] \in Request
  OBVIOUS
<1>2. Queued(q, a, senders2, left2)
  BY <1>1 DEF Queued, AskedBy, Request
<1>3. /\ DOMAIN Append(q, PingRequest) = DOMAIN q \cup {Len(q) + 1}
      /\ \A i \in DOMAIN q : Append(q, PingRequest)[i] = q[i]
      /\ Append(q, PingRequest)[Len(q) + 1] = PingRequest
  OBVIOUS
<1>4. PingRequest.op = "ping" /\ PingRequest.from = Nobody
  BY DEF PingRequest
<1> QED  BY <1>2, <1>3, <1>4 DEF Queued, Updates

\* So does the structure when a client that does not wait moves.
LEMMA QuietStructure ==
    ASSUME VaultInv, NEW c \in Client, NEW new \in ClientState, client' = [client EXCEPT ![c] = new],
           agent' \in [Agent -> AgentState], Quiet,
           client[c].at # "await", new.at # "await", file' = Nobody => file = Nobody,
           \A x \in Account : may[x] \subseteq may'[x], Sound(new, file', may')
    PROVE  Structure'
<1> USE DEF VaultInv, Structure
<1>1. /\ client'[c] = new /\ \A d \in Client \ {c} : client'[d] = client[d]
      /\ \A d \in Client : client[d] \in ClientState
  BY ClientReplaced DEF TypeOK
<1>2. \A d \in Client : client[d].at = "await" => client'[d] = client[d]
  BY <1>1
<1>3. ClientsSound'
  BY <1>1 DEF ClientsSound, Sound, ClientState
<1>4. AgentsOpened'
  BY DEF AgentsOpened, Quiet, Alive, MidUpdate, Serving
<1>5. ASSUME NEW a \in Agent, agent'[a].state \in Serving PROVE Queued(agent'[a].queue, a, client', may')
  <2>1. agent[a].queue \in Seq(Request) /\ agent[a].state \in Serving
    BY <1>5 DEF TypeOK, AgentState, Quiet
  <2>2. Queued(agent[a].queue, a, client, may)
    BY <2>1 DEF QueuesKept
  <2>3. /\ Queued(agent[a].queue, a, client', may')
        /\ Queued(Append(agent[a].queue, PingRequest), a, client', may')
    BY ONLY <1>2, <2>1, <2>2, QueuedMore, \A x \in Account : may[x] \subseteq may'[x]
  <2> QED  BY <2>3 DEF Quiet
<1>6. WritesUpdate'
  <2> SUFFICES ASSUME NEW a \in Agent, agent'[a].state \in MidUpdate
               PROVE  agent'[a].queue # << >> /\ Head(agent'[a].queue).op \in Updates /\ agent'[a].key # 0
    BY DEF WritesUpdate
  <2>1. /\ agent[a].state \in MidUpdate /\ agent'[a].key = agent[a].key /\ agent[a].queue \in Seq(Request)
        /\ agent'[a].queue \in {agent[a].queue, Append(agent[a].queue, PingRequest)}
    BY DEF Quiet, TypeOK, AgentState
  <2>2. agent[a].queue # << >> /\ Head(agent[a].queue).op \in Updates /\ agent[a].key # 0
    BY <2>1 DEF WritesUpdate
  <2>3. PingRequest \in Request
    BY PingTyped
  <2>4. Head(Append(agent[a].queue, PingRequest)) = Head(agent[a].queue) /\ Append(agent[a].queue, PingRequest) # << >>
    BY <2>1, <2>2, <2>3
  <2> QED  BY <2>1, <2>2, <2>4
<1>7. NoneYet'
  BY DEF NoneYet
<1> QED  BY <1>3, <1>4, <1>5, <1>6, <1>7 DEF QueuesKept

-----------------------------------------------------------------------------
(* What holds while nothing has disturbed the vault *)

\* Agents that do not begin to write, or to serve with another key, stay calm beside a
\* client that moves without being the second on its way to a new agent or file.
Steady ==
    \A a \in Agent :
        /\ agent'[a].state = agent[a].state /\ agent'[a].key = agent[a].key
        /\ agent'[a].copy = agent[a].copy
        /\ agent[a].state \in MidUpdate =>
              /\ Head(agent'[a].queue).account = Head(agent[a].queue).account
              /\ Head(agent'[a].queue).secret = Head(agent[a].queue).secret

LEMMA QuietSteady == ASSUME VaultInv, Quiet PROVE Steady
<1> SUFFICES ASSUME NEW a \in Agent, agent[a].state \in MidUpdate,
                    agent'[a].queue = Append(agent[a].queue, PingRequest)
             PROVE  Head(agent'[a].queue) = Head(agent[a].queue)
  BY DEF Quiet, Steady
<1>1. agent[a].queue \in Seq(Request) /\ agent[a].queue # << >>
  BY DEF VaultInv, Structure, WritesUpdate, TypeOK, AgentState
<1> QED  BY <1>1, PingTyped

LEMMA SteadyCalm ==
    ASSUME VaultInv, Calm, NEW c \in Client, NEW new \in ClientState,
           client' = [client EXCEPT ![c] = new], agent' \in [Agent -> AgentState], Steady,
           UNCHANGED <<file, newest>>, \A x \in Account : may[x] \subseteq may'[x],
           Hot(new) => Hot(client[c]) \/ ~Contended(c),
           new.at = "fork" => ~SomeAlive,
           HasKey(new) => new.key = newest,
           Outdating(client[c]) => Outdating(new) \/ ~SomeAlive,
           new.at = "changeWrite" =>
               new.copy = file.data /\ \A a \in Agent : agent[a].state \notin MidUpdate
    PROVE  Calm'
<1> USE DEF VaultInv, Calm
<1>1. client'[c] = new /\ \A d \in Client \ {c} : client'[d] = client[d]
  BY ClientReplaced
<1>2. OneHot'
  BY <1>1 DEF OneHot, Contended, Hot
<1>3. SomeAlive' <=> SomeAlive
  BY DEF Steady, SomeAlive
<1>4. AloneAtFork'
  BY <1>1, <1>3 DEF AloneAtFork
<1>5. OneAlive' /\ NewestKey'
  BY DEF OneAlive, NewestKey, Steady
<1>6. ClientKeys'
  BY <1>1 DEF ClientKeys
<1>7. AgentKeys'
  <2>1. CASE \E d \in Client : Outdating(client'[d])
    BY <2>1 DEF AgentKeys
  <2>2. CASE Outdating(client[c]) /\ ~Outdating(new)
    BY <2>2 DEF AgentKeys, Steady, SomeAlive, Alive
  <2>3. CASE ~Outdating(client[c]) /\ \A d \in Client : ~Outdating(client'[d])
    BY <1>1, <2>3 DEF AgentKeys, Steady
  <2> QED  BY <1>1, <2>1, <2>2, <2>3
<1>8. CopyCurrent'
  BY <1>1 DEF CopyCurrent
<1>9. WriteCurrent'
  <2> SUFFICES ASSUME NEW a \in Agent, agent'[a].state \in MidUpdate
               PROVE  /\ agent'[a].key = newest' /\ \A d \in Client : client'[d].at # "changeWrite"
                      /\ agent'[a].state = "writing" => agent'[a].copy =
                            [file'.data EXCEPT ![Head(agent'[a].queue).account] =
                                                  Head(agent'[a].queue).secret]
    BY DEF WriteCurrent, MidUpdate
  <2>1. /\ agent'[a].state = agent[a].state /\ agent'[a].key = agent[a].key /\ agent'[a].copy = agent[a].copy
        /\ Head(agent'[a].queue).account = Head(agent[a].queue).account
        /\ Head(agent'[a].queue).secret = Head(agent[a].queue).secret
    BY DEF Steady
  <2>2. /\ agent[a].key = newest /\ \A d \in Client : client[d].at # "changeWrite"
        /\ agent[a].state = "writing" => agent[a].copy =
              [file.data EXCEPT ![Head(agent[a].queue).account] = Head(agent[a].queue).secret]
    BY <2>1 DEF WriteCurrent
  <2>3. \A d \in Client : client'[d].at # "changeWrite"
    BY <1>1, <2>1, <2>2
  <2> QED  BY <2>1, <2>2, <2>3
<1>10. WrittenStays' /\ KeepsMay'
  BY DEF WrittenStays, KeepsMay, Steady, MidUpdate
<1> QED  BY <1>2, <1>4, <1>5, <1>6, <1>7, <1>8, <1>9, <1>10

-----------------------------------------------------------------------------
(* Clients *)

\* What a client's step has to show to keep the invariant, when it neither rewrites the file
\* nor starts, asks or leaves an agent.
LEMMA QuietStep ==
    ASSUME VaultInv, NEW c \in Client, NEW new \in ClientState, client' = [client EXCEPT ![c] = new],
           agent' \in [Agent -> AgentState], Quiet, UNCHANGED <<file, newest>>, path' \in {path, Nobody},
           commands' \in 0..MaxCommands, kills' \in 0..MaxKills,
           may' \in [Account -> SUBSET (0..MaxCommands)], disturbed' \in BOOLEAN,
           client[c].at # "await", new.at # "await",
           \A x \in Account : may[x] \subseteq may'[x], Sound(new, file, may'),
           ~disturbed' =>
              /\ ~disturbed
              /\ Hot(new) => Hot(client[c]) \/ ~Contended(c)
              /\ new.at = "fork" => ~SomeAlive
              /\ HasKey(new) => new.key = newest
              /\ Outdating(client[c]) => Outdating(new) \/ ~SomeAlive
              /\ new.at = "changeWrite" =>
                    new.copy = file.data /\ \A a \in Agent : agent[a].state \notin MidUpdate
    PROVE  VaultInv'
<1>1. TypeOK'
  <2>1. client' \in [Client -> ClientState]
    BY ClientReplaced DEF VaultInv
  <2> QED  BY <2>1 DEF VaultInv, TypeOK, AgentState, ClientState
<1>2. Structure'
  BY QuietStructure
<1>3. ASSUME ~disturbed' PROVE Calm'
  BY <1>3, QuietSteady, SteadyCalm DEF VaultInv
<1> QED  BY <1>1, <1>2, <1>3 DEF VaultInv

LEMMA BeginInv == ASSUME VaultInv, NEW c \in Client, Begin(c) PROVE VaultInv'
<1> USE DEF VaultInv, Structure
<1>1. PICK cmd \in CommandName, x \in Account :
        LET secret == IF cmd = "set" THEN commands + 1 ELSE 0
            at == FirstStep(cmd)
        IN /\ cmd \in {"unlock", "change"} => file # Nobody
           /\ client' = [client EXCEPT ![c] = [Idle EXCEPT !.cmd = cmd, !.at = at,
                           !.account = x, !.secret = secret]]
           /\ may' = IF cmd \in Updates THEN [may EXCEPT ![x] = @ \cup {secret}] ELSE may
           /\ Disturb(at \in Rewriting /\ Contended(c))
  BY DEF Begin
<1> DEFINE secret == IF cmd = "set" THEN commands + 1 ELSE 0
           new == [Idle EXCEPT !.cmd = cmd, !.at = FirstStep(cmd), !.account = x, !.secret = secret]
<1>2. /\ client[c].at = "idle" /\ commands' = commands + 1 /\ commands + 1 \in 0..MaxCommands
      /\ UNCHANGED <<file, path, agent, kills, newest>>
  BY VaultAssumption DEF Begin, TypeOK
<1>3. secret \in 0..MaxCommands
  BY <1>2, VaultAssumption
<1>4. /\ FirstStep(cmd) \in {"connect", "check", "changeRead", "setupWrite"}
      /\ FirstStep(cmd) = "changeRead" <=> cmd = "change"
  BY DEF FirstStep, CommandName, Requests, Updates
<1>5. /\ new \in ClientState /\ new.cmd = cmd /\ new.at = FirstStep(cmd) /\ new.account = x
      /\ new.secret = secret /\ new.to = Nobody
  BY <1>3, <1>4, IdleTyped DEF TypeOK, ClientState, Rewriting, Idle
<1>6. /\ may' \in [Account -> SUBSET (0..MaxCommands)]
      /\ \A y \in Account : may[y] \subseteq may'[y]
      /\ cmd \in Updates => secret \in may'[x]
  BY <1>1, <1>3 DEF TypeOK
<1>7. Sound(new, file, may')
  BY <1>1, <1>4, <1>5, <1>6 DEF Sound, Updates
<1>8. disturbed' \in BOOLEAN /\ (~disturbed' => ~disturbed /\ (Hot(new) => ~Contended(c)))
  <2>1. Hot(new) => FirstStep(cmd) \in Rewriting
    BY <1>4, <1>5 DEF Hot, Starting, Rewriting
  <2> QED  BY <1>1, <2>1 DEF Disturb, TypeOK
<1>9. /\ client' = [client EXCEPT ![c] = new] /\ new.at \notin {"await", "fork", "changeWrite"}
      /\ ~HasKey(new) /\ ~Outdating(client[c])
  BY <1>1, <1>2, <1>4, <1>5, IdleTyped DEF HasKey, Outdating, Idle, CommandName, Requests, Updates, FirstStep
<1>10. agent' \in [Agent -> AgentState] /\ Quiet
  BY <1>2 DEF TypeOK, Quiet
<1> HIDE DEF new, secret
<1>11. kills' \in 0..MaxKills
  BY <1>2 DEF TypeOK
<1> QED  BY ONLY VaultInv, <1>2, <1>5, <1>6, <1>7, <1>8, <1>9, <1>10, <1>11, QuietStep

\* What a request that gets no answer leads to.
LEMMA NoAnswerMoves ==
    ASSUME VaultInv, NEW c \in Client, NoAnswer(c), client[c].at \in {"connect", "await"}
    PROVE  \E new \in ClientState :
             /\ client' = [client EXCEPT ![c] = new] /\ client'[c] = new
             /\ new.at \in {"idle", "ping", "derive"} /\ Sound(new, file, may)
             /\ new.at = "idle" => new = Idle
             /\ new.at = "ping" => client[c].cmd = "change" /\ new.cmd = "change" /\ new.key = client[c].key
<1> USE DEF VaultInv, Structure
<1>1. client[c] \in ClientState /\ Sound(client[c], file, may) /\ client \in [Client -> ClientState]
  BY DEF TypeOK, ClientsSound
<1>2. CASE client' = [client EXCEPT ![c] = Idle]
  BY <1>1, <1>2, IdleTyped DEF Idle, Sound, TypeOK, Updates
<1>3. CASE client[c].cmd = "change" /\ Goto(c, "ping")
  <2> DEFINE new == [client[c] EXCEPT !.at = "ping", !.to = Nobody]
  <2>1. new \in ClientState /\ client' = [client EXCEPT ![c] = new]
    BY <1>1, <1>3 DEF Goto, ClientState, Starting
  <2>2. Sound(new, file, may)
    BY <1>1, <1>3 DEF Sound, ClientState, Updates
  <2> QED  BY <1>1, <1>3, <2>1, <2>2 DEF ClientState
<1>4. CASE /\ client[c].cmd # "change"
           /\ client' = [client EXCEPT ![c].at = "derive", ![c].to = Nobody, ![c].retried = TRUE]
  <2> DEFINE new == [client[c] EXCEPT !.at = "derive", !.to = Nobody, !.retried = TRUE]
  <2>1. new \in ClientState /\ client' = [client EXCEPT ![c] = new]
    BY <1>1, <1>4 DEF ClientState, Starting
  <2>2. Sound(new, file, may)
    BY <1>1, <1>4 DEF Sound, ClientState, Updates
  <2> QED  BY <1>1, <1>4, <2>1, <2>2 DEF ClientState
<1> QED  BY <1>2, <1>3, <1>4 DEF NoAnswer, End

\* Going on, or ending, keeps a client's type.
LEMMA MovesTyped ==
    ASSUME VaultInv, NEW c \in Client
    PROVE  /\ client[c] \in ClientState /\ Sound(client[c], file, may)
           /\ client \in [Client -> ClientState]
           /\ Idle \in ClientState /\ Sound(Idle, file, may) /\ ~Hot(Idle) /\ ~HasKey(Idle)
           /\ Idle.at = "idle" /\ Idle.cmd = "none" /\ Idle.to = Nobody
BY IdleTyped DEF VaultInv, Structure, TypeOK, ClientsSound, Idle, Sound, Hot, HasKey, Outdating,
   Updates, Starting, Rewriting

\* Ending is always possible, but for a change that has not ended the agent it found.
LEMMA EndInv ==
    ASSUME VaultInv, NEW c \in Client, End(c), client[c].at # "await",
           agent' \in [Agent -> AgentState], Quiet,
           UNCHANGED <<file, commands, newest, may>>, path' \in {path, Nobody}, kills' \in 0..MaxKills,
           disturbed' \in BOOLEAN, ~disturbed' => ~disturbed /\ (~Outdating(client[c]) \/ ~SomeAlive)
    PROVE  VaultInv'
<1>1. client' = [client EXCEPT ![c] = Idle]
  BY DEF End
<1>2. commands' \in 0..MaxCommands /\ may' \in [Account -> SUBSET (0..MaxCommands)]
      /\ \A x \in Account : may[x] \subseteq may'[x]
  BY DEF VaultInv, TypeOK
<1>3. Sound(Idle, file, may') /\ Idle.at \notin {"await", "fork", "changeWrite"}
  BY MovesTyped
<1> QED  BY <1>1, <1>2, <1>3, MovesTyped, QuietStep

\* A request that is not sent.
LEMMA RefusedInv ==
    ASSUME VaultInv, NEW c \in Client, client[c].at = "connect", NoAnswer(c),
           Disturb(SomeAlive \/ (Contended(c) /\ client'[c].at \in Starting)),
           UNCHANGED <<file, path, agent, commands, kills, newest, may>>
    PROVE  VaultInv'
<1>1. PICK new \in ClientState :
         /\ client' = [client EXCEPT ![c] = new] /\ client'[c] = new
         /\ new.at \in {"idle", "ping", "derive"} /\ Sound(new, file, may)
         /\ new.at = "idle" => new = Idle
         /\ new.at = "ping" => client[c].cmd = "change" /\ new.cmd = "change" /\ new.key = client[c].key
  BY NoAnswerMoves
<1>2. /\ disturbed' \in BOOLEAN /\ agent' \in [Agent -> AgentState] /\ Quiet
      /\ commands' \in 0..MaxCommands /\ may' \in [Account -> SUBSET (0..MaxCommands)] /\ kills' \in 0..MaxKills
      /\ \A x \in Account : may[x] \subseteq may'[x]
  BY DEF VaultInv, TypeOK, Disturb, Quiet
<1>3. ASSUME ~disturbed'
      PROVE  /\ ~disturbed /\ ~SomeAlive
             /\ Hot(new) => ~Contended(c)
             /\ HasKey(new) => new.key = newest
  <2>1. ~disturbed /\ ~SomeAlive /\ (new.at \in Starting => ~Contended(c))
    BY <1>1, <1>3 DEF Disturb
  <2>2. Hot(new) => new.at \in Starting
    BY <1>1, MovesTyped DEF Hot, Starting
  <2>3. HasKey(new) => new.at = "ping"
    BY <1>1, MovesTyped DEF HasKey, Outdating
  <2>4. new.at = "ping" => HasKey(client[c])
    BY <1>1 DEF HasKey, Outdating
  <2> QED  BY <1>1, <2>1, <2>2, <2>3, <2>4 DEF VaultInv, Calm, ClientKeys
<1> QED  BY <1>1, <1>2, <1>3, QuietStep

\* Going on to be started again, or to write, is a step of one client.
LEMMA CheckInv == ASSUME VaultInv, NEW c \in Client, Check(c) PROVE VaultInv'
<1> USE DEF Check
<1>1. /\ agent' \in [Agent -> AgentState] /\ Quiet /\ disturbed \in BOOLEAN
      /\ client[c].at = "check" /\ kills' \in 0..MaxKills /\ commands' \in 0..MaxCommands
      /\ may' \in [Account -> SUBSET (0..MaxCommands)]
  BY PingLostQuiet DEF VaultInv, TypeOK
<1>2. CASE End(c) /\ UNCHANGED disturbed
  BY <1>1, <1>2, EndInv DEF Outdating
<1>3. CASE Goto(c, "derive") /\ Disturb(SomeAlive \/ Contended(c))
  <2> DEFINE new == [client[c] EXCEPT !.at = "derive", !.to = Nobody]
  <2>1. new \in ClientState /\ new.at = "derive" /\ new.cmd = client[c].cmd
    BY MovesTyped DEF ClientState, Starting
  <2>2. Sound(new, file, may') /\ client' = [client EXCEPT ![c] = new]
    BY <1>1, <1>3, MovesTyped DEF Goto, Sound, ClientState, Updates
  <2>3. disturbed' \in BOOLEAN /\ (~disturbed' => ~disturbed /\ ~Contended(c))
    BY <1>1, <1>3 DEF Disturb
  <2>4. ~HasKey(new) /\ ~Outdating(client[c])
    BY <1>1, <2>1 DEF HasKey, Outdating
  <2> HIDE DEF new
  <2> QED  BY <1>1, <2>1, <2>2, <2>3, <2>4, QuietStep
<1> QED  BY <1>2, <1>3

LEMMA DeriveInv == ASSUME VaultInv, NEW c \in Client, Derive(c) PROVE VaultInv'
<1> USE DEF Derive
<1>1. /\ agent' \in [Agent -> AgentState] /\ Quiet /\ disturbed' \in BOOLEAN /\ disturbed' = disturbed
      /\ client[c].at = "derive" /\ kills' \in 0..MaxKills /\ commands' \in 0..MaxCommands
      /\ may' \in [Account -> SUBSET (0..MaxCommands)]
  BY DEF VaultInv, TypeOK, Quiet
<1>2. CASE End(c)
  BY <1>1, <1>2, EndInv DEF Outdating
<1>3. CASE file # Nobody /\ client' = [client EXCEPT ![c].at = "ping", ![c].key = file.key]
  <2> DEFINE new == [client[c] EXCEPT !.at = "ping", !.key = file.key]
  <2>1. file.key \in 0..newest
    BY <1>3 DEF VaultInv, TypeOK
  <2>2. new \in ClientState /\ new.at = "ping" /\ new.cmd = client[c].cmd /\ new.key = file.key
    BY <2>1, MovesTyped DEF ClientState, Starting
  <2>3. Sound(new, file, may') /\ client' = [client EXCEPT ![c] = new]
    BY <1>1, <1>3, MovesTyped DEF Sound, ClientState, Updates
  <2>4. Hot(client[c]) /\ ~Outdating(client[c])
    BY <1>1 DEF Hot, Starting, Outdating
  <2>5. ~disturbed => new.key = newest
    BY <1>3, <2>2 DEF VaultInv, Calm, NewestKey
  <2>6. UNCHANGED <<file, path, newest>> /\ \A x \in Account : may[x] \subseteq may'[x]
    OBVIOUS
  <2> HIDE DEF new
  <2> QED  BY ONLY VaultInv, <1>1, <2>2, <2>3, <2>4, <2>5, <2>6, QuietStep
<1> QED  BY <1>2, <1>3

LEMMA UnlockedInv ==
    ASSUME VaultInv, NEW c \in Client, client[c].at \in {"ping", "poll"}, Unlocked(c),
           UNCHANGED <<file, path, agent, commands, kills, newest, may, disturbed>>
    PROVE  VaultInv'
<1>1. /\ agent' \in [Agent -> AgentState] /\ Quiet /\ disturbed' \in BOOLEAN /\ disturbed' = disturbed
      /\ kills' \in 0..MaxKills /\ commands' \in 0..MaxCommands
      /\ may' \in [Account -> SUBSET (0..MaxCommands)]
      /\ client[c].at # "await" /\ ~Outdating(client[c])
  BY DEF VaultInv, TypeOK, Quiet, Outdating
<1>2. CASE End(c)
  BY <1>1, <1>2, EndInv
<1>3. CASE client[c].cmd \in Requests /\ client' = [client EXCEPT ![c].at = "connect", ![c].key = 0]
  <2> DEFINE new == [client[c] EXCEPT !.at = "connect", !.key = 0]
  <2>1. 0 \in 0..newest
    BY DEF VaultInv, TypeOK
  <2>2. new \in ClientState /\ new.at = "connect" /\ new.cmd = client[c].cmd
    BY <2>1, MovesTyped DEF ClientState
  <2>3. Sound(new, file, may') /\ client' = [client EXCEPT ![c] = new]
    BY <1>3, MovesTyped DEF Sound, ClientState, Updates
  <2>4. ~Hot(new) /\ ~HasKey(new) /\ new.at \notin {"await", "fork", "changeWrite"}
    BY <1>3, <2>2 DEF Hot, HasKey, Outdating, Starting, Rewriting, Requests, Updates
  <2>5. UNCHANGED <<file, path, newest>> /\ \A x \in Account : may[x] \subseteq may'[x]
    OBVIOUS
  <2> HIDE DEF new
  <2> QED  BY ONLY VaultInv, <1>1, <2>2, <2>3, <2>4, <2>5, QuietStep
<1> QED  BY <1>2, <1>3 DEF Unlocked

LEMMA PingInv == ASSUME VaultInv, NEW c \in Client, Ping(c) PROVE VaultInv'
<1> USE DEF Ping
<1>1. /\ agent' \in [Agent -> AgentState] /\ Quiet
      /\ client[c].at = "ping" /\ kills' \in 0..MaxKills /\ commands' \in 0..MaxCommands
      /\ may' \in [Account -> SUBSET (0..MaxCommands)]
  BY PingLostQuiet DEF VaultInv, TypeOK
<1>2. CASE Unlocked(c) /\ UNCHANGED <<agent, disturbed>>
  BY <1>1, <1>2, UnlockedInv
<1>3. CASE Goto(c, "fork") /\ Disturb(SomeAlive)
  <2> DEFINE new == [client[c] EXCEPT !.at = "fork", !.to = Nobody]
  <2>1. /\ new \in ClientState /\ new.at = "fork" /\ new.cmd = client[c].cmd /\ new.key = client[c].key
    BY MovesTyped DEF ClientState, Starting
  <2>2. Sound(new, file, may') /\ client' = [client EXCEPT ![c] = new]
    BY <1>1, <1>3, MovesTyped DEF Goto, Sound, ClientState, Updates
  <2>3. disturbed' \in BOOLEAN /\ (~disturbed' => ~disturbed /\ ~SomeAlive)
    BY <1>3 DEF Disturb, VaultInv, TypeOK
  <2>4. Hot(client[c]) /\ ~Outdating(client[c]) /\ HasKey(client[c]) /\ client[c].at # "await"
    BY <1>1 DEF Hot, Starting, Outdating, HasKey
  <2>5. ~disturbed => new.key = newest
    BY <2>1, <2>4 DEF VaultInv, Calm, ClientKeys
  <2>6. UNCHANGED <<file, path, newest>> /\ \A x \in Account : may[x] \subseteq may'[x]
    OBVIOUS
  <2> HIDE DEF new
  <2> QED  BY ONLY VaultInv, <1>1, <2>1, <2>2, <2>3, <2>4, <2>5, <2>6, QuietStep
<1> QED  BY <1>2, <1>3

LEMMA PollInv == ASSUME VaultInv, NEW c \in Client, Poll(c) PROVE VaultInv'
<1>1. /\ agent' \in [Agent -> AgentState] /\ Quiet
      /\ client[c].at = "poll" /\ kills' \in 0..MaxKills /\ commands' \in 0..MaxCommands
      /\ disturbed' \in BOOLEAN /\ (~disturbed' => ~disturbed) /\ ~Outdating(client[c])
      /\ UNCHANGED <<file, path, commands, kills, newest, may>>
  BY PingLostQuiet DEF Poll, Disturb, VaultInv, TypeOK, Outdating
<1>2. CASE Unlocked(c) /\ UNCHANGED <<agent, disturbed>>
  BY <1>1, <1>2, UnlockedInv
<1>3. CASE End(c)
  BY <1>1, <1>3, EndInv
<1> QED  BY <1>2, <1>3 DEF Poll

LEMMA ChangeReadInv == ASSUME VaultInv, NEW c \in Client, ChangeRead(c) PROVE VaultInv'
<1>1. /\ agent' \in [Agent -> AgentState] /\ Quiet /\ disturbed' \in BOOLEAN /\ (~disturbed' => ~disturbed)
      /\ client[c].at = "changeRead" /\ kills' \in 0..MaxKills /\ commands' \in 0..MaxCommands
      /\ may' \in [Account -> SUBSET (0..MaxCommands)] /\ ~Outdating(client[c]) /\ client[c].at # "await"
      /\ UNCHANGED <<file, path, commands, kills, newest, may>>
  BY DEF ChangeRead, Disturb, VaultInv, TypeOK, Quiet, Outdating
<1>2. CASE End(c)
  BY <1>1, <1>2, EndInv
<1>3. CASE client' = [client EXCEPT ![c].at = "changeWrite", ![c].copy = file.data]
  <2> DEFINE new == [client[c] EXCEPT !.at = "changeWrite", !.copy = file.data]
  <2>1. file # Nobody /\ client[c].cmd = "change"
    BY <1>1, MovesTyped DEF Sound
  <2>2. file.data \in Data
    BY <2>1 DEF VaultInv, TypeOK
  <2>3. /\ new \in ClientState /\ new.at = "changeWrite" /\ new.cmd = client[c].cmd /\ new.copy = file.data
    BY <2>2, MovesTyped DEF ClientState, Rewriting
  <2>4. Sound(new, file, may') /\ client' = [client EXCEPT ![c] = new] /\ client'[c] = new
    BY <1>1, <1>3, <2>1, MovesTyped DEF Sound, ClientState, Updates
  <2>5. Hot(client[c]) /\ ~HasKey(new)
    BY <1>1, <2>3 DEF Hot, Rewriting, Outdating, HasKey
  <2>6. ~disturbed' => \A a \in Agent : agent[a].state \notin MidUpdate
    BY <2>3, <2>4 DEF ChangeRead, Disturb
  <2>7. \A x \in Account : may[x] \subseteq may'[x]
    BY <1>1
  <2> HIDE DEF new
  <2> QED  BY ONLY VaultInv, <1>1, <2>3, <2>4, <2>5, <2>6, <2>7, QuietStep
<1> QED  BY <1>2, <1>3 DEF ChangeRead

LEMMA ForkInv == ASSUME VaultInv, NEW c \in Client, Fork(c) PROVE VaultInv'
<1> USE DEF VaultInv
<1>1. /\ client[c].at = "fork" /\ path' = Nobody /\ UNCHANGED <<file, commands, kills, newest, may, disturbed>>
      /\ client[c] \in ClientState /\ file # Nobody
  BY MovesTyped DEF Fork, Sound
<1>2. CASE End(c) /\ UNCHANGED agent
  <2>1. /\ agent' \in [Agent -> AgentState] /\ Quiet /\ disturbed' \in BOOLEAN /\ kills' \in 0..MaxKills
        /\ client[c].at # "await" /\ ~Outdating(client[c]) /\ disturbed' = disturbed
    BY <1>1, <1>2 DEF TypeOK, Quiet, Outdating
  <2> QED  BY <1>1, <1>2, <2>1, EndInv
<1>3. ASSUME NEW a \in Agent, Fresh(a), Goto(c, "poll"),
             agent' = [agent EXCEPT ![a] = [Gone EXCEPT !.state = "up", !.key = client[c].key]]
      PROVE  VaultInv'
  <2> DEFINE new == [client[c] EXCEPT !.at = "poll", !.to = Nobody]
             born == [Gone EXCEPT !.state = "up", !.key = client[c].key]
  <2>1. /\ new \in ClientState /\ new.at = "poll" /\ new.cmd = client[c].cmd /\ new.key = client[c].key
        /\ new.secret = client[c].secret /\ new.account = client[c].account
    BY MovesTyped DEF ClientState, Starting
  <2>2. client' = [client EXCEPT ![c] = new]
    BY <1>3 DEF Goto
  <2>3. born \in AgentState /\ born.state = "up" /\ born.key = client[c].key /\ born.queue = << >>
    BY <1>1, IdleTyped DEF TypeOK, AgentState, ClientState, Gone, Alive
  <2>4. agent' = [agent EXCEPT ![a] = born]
    BY <1>3
  <2> HIDE DEF new, born
  <2>5. /\ agent' \in [Agent -> AgentState] /\ agent'[a] = born /\ agent[a].state = "gone"
        /\ \A b \in Agent \ {a} : agent'[b] = agent[b]
    BY <1>3, <2>3, <2>4, AgentReplaced DEF Fresh
  <2>6. /\ client' \in [Client -> ClientState] /\ client'[c] = new
        /\ \A d \in Client \ {c} : client'[d] = client[d]
    BY <2>1, <2>2, ClientReplaced
  <2>7. TypeOK'
    BY <1>1, <2>5, <2>6 DEF TypeOK, AgentState, ClientState
  <2>8. ClientsSound' /\ AgentsOpened' /\ WritesUpdate' /\ NoneYet'
    BY <1>1, <2>1, <2>3, <2>5, <2>6
    DEF Structure, ClientsSound, Sound, AgentsOpened, WritesUpdate, MidUpdate, NoneYet
  <2>9. ASSUME NEW b \in Agent, agent'[b].state \in Serving
        PROVE  Queued(agent'[b].queue, b, client', may')
    <3>1. agent'[b] = agent[b] /\ Queued(agent[b].queue, b, client, may) /\ agent[b].queue \in Seq(Request)
      BY <2>3, <2>5, <2>9 DEF Structure, QueuesKept, MidUpdate, Serving, TypeOK, AgentState
    <3>2. \A d \in Client : client[d].at = "await" => client'[d] = client[d]
      BY <1>1, <2>6
    <3>3. \A x \in Account : may[x] \subseteq may'[x]
      BY <1>1
    <3> QED  BY ONLY <3>1, <3>2, <3>3, QueuedMore
  <2>10. ASSUME ~disturbed' PROVE Calm'
    <3> USE DEF Calm
    <3>1. Calm /\ ~SomeAlive /\ Hot(client[c]) /\ client[c].key = newest
      BY <1>1, <2>10 DEF AloneAtFork, Hot, Starting, ClientKeys, HasKey
    <3>2. \A d \in Client \ {c} : ~Hot(client'[d])
      BY <2>6, <3>1 DEF OneHot
    <3>3. OneHot' /\ AloneAtFork' /\ ClientKeys' /\ CopyCurrent'
      BY <1>1, <2>1, <2>6, <3>1, <3>2 DEF OneHot, AloneAtFork, ClientKeys, CopyCurrent, HasKey, Outdating, Hot, Starting, Rewriting
    <3>4. \A b \in Agent \ {a} : agent'[b].state \notin Alive
      BY <2>5, <3>1 DEF SomeAlive
    <3>5. OneAlive' /\ AgentKeys' /\ WriteCurrent' /\ WrittenStays'
      BY <1>1, <2>3, <2>5, <3>1, <3>4 DEF OneAlive, AgentKeys, WriteCurrent, WrittenStays, MidUpdate, Alive, Serving
    <3>6. NewestKey' /\ KeepsMay'
      BY <1>1, <3>1 DEF NewestKey, KeepsMay
    <3> QED  BY <3>3, <3>5, <3>6
  <2> QED  BY <2>7, <2>8, <2>9, <2>10 DEF Structure, QueuesKept
<1> QED  BY <1>2, <1>3 DEF Fork

\* Replacing the file under a new key.
LEMMA RewriteInv ==
    ASSUME VaultInv, NEW c \in Client, client[c].at \in {"changeWrite", "setupWrite"},
           NEW data \in Data, NEW where \in {"connect", "ping"},
           file' = [key |-> FreshKey, data |-> data], newest' = FreshKey,
           client' = [client EXCEPT ![c].at = where, ![c].key = FreshKey],
           UNCHANGED <<path, agent, commands, kills, may>>, disturbed' \in BOOLEAN,
           ~disturbed' => /\ ~disturbed
                          /\ \A x \in Account : data[x] \in may[x]
                          /\ (client[c].cmd = "change" /\ where = "connect") \/ ~SomeAlive
                          /\ \A a \in Agent : agent[a].state \notin MidUpdate
    PROVE  VaultInv'
<1> USE DEF VaultInv
<1> DEFINE new == [client[c] EXCEPT !.at = where, !.key = FreshKey]
<1>1. newest \in Nat /\ newest' = newest + 1 /\ newest' \in Nat
  BY DEF TypeOK, FreshKey
<1>2. file' \in [key: 1..newest', data: Data] /\ file'.key = newest' /\ file'.data = data /\ file' # Nobody
  BY <1>1, VaultAssumption DEF FreshKey, Data
<1>3. /\ \A k \in ClientState : k \in ClientState'
      /\ \A s \in AgentState : s \in AgentState'
  BY <1>1 DEF ClientState, AgentState
<1>4. /\ new \in ClientState' /\ new.at = where /\ new.key = newest' /\ new.cmd = client[c].cmd
      /\ new.secret = client[c].secret /\ new.account = client[c].account
      /\ client[c] \in ClientState
  BY <1>1, MovesTyped DEF ClientState, Starting, FreshKey
<1>5. client' = [client EXCEPT ![c] = new]
  OBVIOUS
<1> HIDE DEF new
<1>6. /\ client' \in [Client -> ClientState'] /\ client'[c] = new
      /\ \A d \in Client \ {c} : client'[d] = client[d]
  BY <1>3, <1>4, <1>5 DEF TypeOK
<1>7. TypeOK'
  BY <1>1, <1>2, <1>3, <1>6 DEF TypeOK
<1>8. ClientsSound' /\ AgentsOpened' /\ WritesUpdate' /\ NoneYet'
  BY <1>2, <1>4, <1>6 DEF Structure, ClientsSound, Sound, AgentsOpened, WritesUpdate, NoneYet
<1>9. ASSUME NEW a \in Agent, agent'[a].state \in Serving PROVE Queued(agent'[a].queue, a, client', may')
  <2>1. Queued(agent[a].queue, a, client, may) /\ agent[a].queue \in Seq(Request)
    BY <1>9 DEF Structure, QueuesKept, TypeOK, AgentState
  <2>2. \A d \in Client : client[d].at = "await" => client'[d] = client[d]
    BY <1>6
  <2>3. agent' = agent /\ \A x \in Account : may[x] \subseteq may'[x]
    OBVIOUS
  <2> QED  BY ONLY <2>1, <2>2, <2>3, QueuedMore
<1>10. ASSUME ~disturbed' PROVE Calm'
  <2>1. Calm /\ Hot(client[c]) /\ \A a \in Agent : agent[a].state \notin MidUpdate
    BY <1>10 DEF Hot, Rewriting
  <2>2. \A d \in Client \ {c} : client'[d] = client[d] /\ ~Hot(client[d])
    BY <1>6, <2>1 DEF Calm, OneHot
  <2>3. OneHot' /\ AloneAtFork' /\ ClientKeys' /\ CopyCurrent'
    BY <1>4, <1>6, <2>1, <2>2 DEF OneHot, AloneAtFork, ClientKeys, CopyCurrent, HasKey, Outdating, Hot, Starting, Rewriting
  <2>4. AgentKeys'
    BY <1>4, <1>6, <1>10 DEF AgentKeys, Outdating, SomeAlive, Alive, MidUpdate, Serving
  <2>5. OneAlive' /\ WriteCurrent' /\ WrittenStays' /\ NewestKey' /\ KeepsMay'
    BY <1>2, <1>10, <2>1 DEF Calm, OneAlive, WriteCurrent, WrittenStays, MidUpdate, NewestKey, KeepsMay
  <2> QED  BY <2>3, <2>4, <2>5 DEF Calm
<1> QED  BY <1>7, <1>8, <1>9, <1>10 DEF Structure, QueuesKept

LEMMA ChangeWriteInv == ASSUME VaultInv, NEW c \in Client, ChangeWrite(c) PROVE VaultInv'
<1>1. /\ client[c].at = "changeWrite" /\ UNCHANGED <<path, agent, commands, kills, may>>
      /\ disturbed' \in BOOLEAN /\ (~disturbed' => ~disturbed)
  BY DEF ChangeWrite, Disturb, VaultInv, TypeOK
<1>2. CASE End(c) /\ UNCHANGED <<file, newest, disturbed>>
  <2>1. agent' \in [Agent -> AgentState] /\ Quiet /\ kills' \in 0..MaxKills /\ ~Outdating(client[c])
    BY <1>1 DEF VaultInv, TypeOK, Quiet, Outdating
  <2> QED  BY <1>1, <1>2, <2>1, EndInv
<1>3. CASE /\ newest' = FreshKey /\ file' = [key |-> FreshKey, data |-> client[c].copy]
           /\ client' = [client EXCEPT ![c].at = "connect", ![c].key = FreshKey]
  <2>1. client[c].copy \in Data /\ client[c].cmd = "change" /\ file # Nobody
    BY <1>1, MovesTyped DEF ClientState, Sound
  <2>2. ASSUME ~disturbed
        PROVE  /\ \A x \in Account : client[c].copy[x] \in may[x]
               /\ \A a \in Agent : agent[a].state \notin MidUpdate
    BY <1>1, <2>1, <2>2 DEF VaultInv, Calm, CopyCurrent, KeepsMay, WriteCurrent
  <2> QED  BY <1>1, <1>3, <2>1, <2>2, RewriteInv
<1> QED  BY <1>2, <1>3 DEF ChangeWrite

LEMMA SetupWriteInv == ASSUME VaultInv, NEW c \in Client, SetupWrite(c) PROVE VaultInv'
<1>1. /\ client[c].at = "setupWrite" /\ UNCHANGED <<path, agent, commands, kills, may>>
      /\ disturbed' \in BOOLEAN /\ (~disturbed' => ~disturbed)
  BY DEF SetupWrite, Disturb, VaultInv, TypeOK
<1>2. CASE End(c) /\ UNCHANGED <<file, newest, disturbed>>
  <2>1. agent' \in [Agent -> AgentState] /\ Quiet /\ kills' \in 0..MaxKills /\ ~Outdating(client[c])
    BY <1>1 DEF VaultInv, TypeOK, Quiet, Outdating
  <2> QED  BY <1>1, <1>2, <2>1, EndInv
<1>3. CASE /\ newest' = FreshKey /\ file' = [key |-> FreshKey, data |-> [x \in Account |-> 0]]
           /\ client' = [client EXCEPT ![c].at = "ping", ![c].key = FreshKey]
           /\ Disturb(Contended(c) \/ file # Nobody)
  <2>1. [x \in Account |-> 0] \in Data
    BY VaultAssumption DEF Data
  <2>2. ASSUME ~disturbed'
        PROVE  /\ \A x \in Account : [y \in Account |-> 0][x] \in may[x]
               /\ ~SomeAlive /\ \A a \in Agent : agent[a].state \notin MidUpdate
    <3>1. file = Nobody
      BY <1>3, <2>2 DEF Disturb
    <3>2. ~SomeAlive /\ \A x \in Account : 0 \in may[x]
      BY <3>1 DEF VaultInv, Structure, AgentsOpened, NoneYet, SomeAlive
    <3> QED  BY <3>2 DEF SomeAlive, Alive, MidUpdate, Serving
  <2> QED  BY <1>1, <1>3, <2>1, <2>2, RewriteInv
<1> QED  BY <1>2, <1>3 DEF SetupWrite

\* A queue without a client's request stays in order whatever that client does.
LEMMA QueuedWithout ==
    ASSUME NEW q \in Seq(Request), NEW a, NEW c \in Client, NEW senders, NEW senders2, NEW left,
           Queued(q, a, senders, left),
           \A d \in Client \ {c} : senders2[d] = senders[d],
           \A i \in DOMAIN q : q[i].from # c
    PROVE  Queued(q, a, senders2, left)
<1>1. \A i \in DOMAIN q : q[i] \in Request
  OBVIOUS
<1> QED  BY <1>1 DEF Queued, AskedBy, Request

\* Nobody has a request with an agent but the one its record names.
LEMMA OnlyAwaited ==
    ASSUME NEW q, NEW a, NEW c \in Client, NEW left, Queued(q, a, client, left),
           client[c].at # "await" \/ client[c].to # a
    PROVE  \A i \in DOMAIN q : q[i].from # c
BY VaultAssumption DEF Queued, AskedBy

\* A client sends its request.
LEMMA SentInv ==
    ASSUME VaultInv, NEW c \in Client, client[c].at = "connect", ~Refused,
           agent' = [agent EXCEPT ![path].queue = Append(@,
              [from |-> c, account |-> client[c].account, secret |-> client[c].secret,
               op |-> IF client[c].cmd \in Requests THEN client[c].cmd ELSE "lock"])],
           client' = [client EXCEPT ![c].at = "await", ![c].to = path],
           UNCHANGED <<file, path, commands, kills, newest, may, disturbed>>
    PROVE  VaultInv'
<1> USE DEF VaultInv
<1> DEFINE new == [client[c] EXCEPT !.at = "await", !.to = path]
           r == [from |-> c, account |-> client[c].account, secret |-> client[c].secret,
                 op |-> IF client[c].cmd \in Requests THEN client[c].cmd ELSE "lock"]
           q == agent[path].queue
<1>1. path \in Agent /\ agent[path].state \in Serving /\ q \in Seq(Request)
  BY DEF Refused, Reachable, TypeOK, AgentState
<1>2. r \in Request
  BY MovesTyped DEF Request, ClientState, CommandName, Requests, Updates
<1>3. /\ new \in ClientState /\ new.at = "await" /\ new.to = path /\ new.cmd = client[c].cmd
      /\ new.account = client[c].account /\ new.secret = client[c].secret /\ new.key = client[c].key
  BY <1>1, MovesTyped DEF ClientState
<1>4. AskedBy(r, path, new)
  BY <1>3 DEF AskedBy
<1>5. r.op \in Updates => r.secret \in may[r.account]
  BY MovesTyped DEF Sound, Updates, Requests
<1>6. r.op = "delete" => r.secret = 0
  BY MovesTyped DEF Sound, Updates, Requests
<1>7. r.from = c /\ c # Nobody
  BY VaultAssumption
<1>8. /\ client' = [client EXCEPT ![c] = new] /\ agent' = [agent EXCEPT ![path].queue = Append(q, r)]
      /\ Append(q, r) \in Seq(Request)
  BY <1>1, <1>2, QueueTyped
<1> HIDE DEF new, r
<1>9. /\ agent' \in [Agent -> AgentState]
      /\ agent'[path].state = agent[path].state /\ agent'[path].key = agent[path].key
      /\ agent'[path].copy = agent[path].copy /\ agent'[path].queue = Append(q, r)
      /\ \A b \in Agent \ {path} : agent'[b] = agent[b]
  BY <1>1, <1>8, QueueReplaced
<1>10. /\ client' \in [Client -> ClientState] /\ client'[c] = new
       /\ \A d \in Client \ {c} : client'[d] = client[d]
  BY <1>3, <1>8, ClientReplaced
<1>11. TypeOK'
  BY <1>9, <1>10 DEF TypeOK, AgentState, ClientState
<1>12. ClientsSound' /\ NoneYet'
  BY <1>1, <1>3, <1>10, MovesTyped DEF Structure, ClientsSound, Sound, NoneYet, Updates
<1>13. AgentsOpened'
  BY <1>1, <1>9 DEF Structure, AgentsOpened, MidUpdate, Serving
<1>14. \A b \in Agent : agent[b].state \in Serving =>
          Queued(agent[b].queue, b, client', may) /\ \A i \in DOMAIN agent[b].queue : agent[b].queue[i].from # c
  <2> SUFFICES ASSUME NEW b \in Agent, agent[b].state \in Serving
               PROVE  /\ Queued(agent[b].queue, b, client', may)
                      /\ \A i \in DOMAIN agent[b].queue : agent[b].queue[i].from # c
    OBVIOUS
  <2>1. agent[b].queue \in Seq(Request) /\ Queued(agent[b].queue, b, client, may)
    BY DEF TypeOK, AgentState, Structure, QueuesKept
  <2>2. \A i \in DOMAIN agent[b].queue : agent[b].queue[i].from # c
    BY ONLY <2>1, client[c].at = "connect", OnlyAwaited
  <2> QED  BY ONLY <1>10, <2>1, <2>2, QueuedWithout
<1>15. Queued(Append(q, r), path, client', may)
  <2>1. Queued(q, path, client', may) /\ \A i \in DOMAIN q : q[i].from # c
    BY <1>1, <1>14
  <2>2. /\ DOMAIN Append(q, r) = DOMAIN q \cup {Len(q) + 1}
        /\ \A i \in DOMAIN q : Append(q, r)[i] = q[i]
        /\ Append(q, r)[Len(q) + 1] = r
    BY <1>1, <1>2
  <2> DEFINE all == Append(q, r)
             last == Len(q) + 1
  <2> HIDE DEF q, all, last
  <2>3. \A i \in DOMAIN all : (i \in DOMAIN q /\ all[i] = q[i]) \/ (i = last /\ all[i] = r)
    BY <2>2 DEF all, last
  <2>4. \A i \in DOMAIN all :
           /\ all[i].op \in Updates => all[i].secret \in may[all[i].account]
           /\ all[i].op = "delete" => all[i].secret = 0
           /\ all[i].from # Nobody => AskedBy(all[i], path, client'[all[i].from])
    BY <1>4, <1>5, <1>6, <1>7, <1>10, <2>1, <2>3 DEF Queued
  <2>5. \A i, j \in DOMAIN all : all[i].from = all[j].from /\ all[i].from # Nobody => i = j
    BY <1>7, <2>1, <2>3 DEF Queued
  <2> QED  BY <2>4, <2>5 DEF Queued, all
<1>16. QueuesKept'
  BY <1>9, <1>14, <1>15 DEF QueuesKept
<1>17. q # << >> => Head(Append(q, r)) = Head(q) /\ Append(q, r) # << >>
  BY <1>1, <1>2
<1>18. WritesUpdate' /\ Steady
  BY <1>9, <1>17 DEF Structure, WritesUpdate, Steady
<1>19. ASSUME ~disturbed' PROVE Calm'
  <2>1. Hot(new) => Hot(client[c])
    BY <1>3 DEF Hot, Starting, Rewriting
  <2>2. HasKey(new) => HasKey(client[c])
    BY <1>3 DEF HasKey, Outdating
  <2>3. Outdating(client[c]) => Outdating(new)
    BY <1>3 DEF Outdating
  <2>4. Calm /\ (HasKey(new) => new.key = newest)
    BY <1>3, <1>19, <2>2 DEF Calm, ClientKeys
  <2>5. UNCHANGED <<file, newest>> /\ \A x \in Account : may[x] \subseteq may'[x]
    OBVIOUS
  <2> QED  BY ONLY VaultInv, <1>3, <1>8, <1>9, <1>18, <2>1, <2>3, <2>4, <2>5, SteadyCalm
<1> QED  BY <1>11, <1>12, <1>13, <1>16, <1>18, <1>19 DEF Structure

LEMMA ConnectInv == ASSUME VaultInv, NEW c \in Client, Connect(c) PROVE VaultInv'
BY SentInv, RefusedInv DEF Connect

\* A client stops waiting: its request is abandoned, or its agent serves no more.
LEMMA LeaveStructure ==
    ASSUME VaultInv, NEW c \in Client, client[c].at = "await",
           NEW new \in ClientState, client' = [client EXCEPT ![c] = new], new.at # "await",
           \/ agent' = Abandon(c, client[c].to)
           \/ UNCHANGED agent /\ agent[client[c].to].state \notin Serving,
           UNCHANGED <<file, may>>, Sound(new, file, may)
    PROVE  agent' \in [Agent -> AgentState] /\ Structure' /\ Steady
<1> USE DEF VaultInv
<1> DEFINE to == client[c].to
           q == agent[to].queue
           left == [i \in DOMAIN q |-> IF q[i].from = c THEN [q[i] EXCEPT !.from = Nobody] ELSE q[i]]
<1>1. to \in Agent /\ q \in Seq(Request) /\ left \in Seq(Request) /\ DOMAIN left = DOMAIN q
  <2>1. to \in Agent
    BY MovesTyped DEF Sound
  <2>2. q \in Seq(Request)
    BY <2>1 DEF TypeOK, AgentState
  <2>3. DOMAIN left = DOMAIN q
    OBVIOUS
  <2> HIDE DEF q
  <2>4. left \in Seq(Request)
    BY ONLY <2>2, c \in Client, PingTyped, QueueTyped
  <2> QED  BY <2>1, <2>2, <2>3, <2>4
<1>2. /\ client' \in [Client -> ClientState] /\ client'[c] = new
      /\ \A d \in Client \ {c} : client'[d] = client[d]
  BY ClientReplaced
<1>3. \A i \in DOMAIN q :
         /\ q[i] \in Request
         /\ left[i].op = q[i].op /\ left[i].secret = q[i].secret /\ left[i].account = q[i].account
         /\ left[i].from = IF q[i].from = c THEN Nobody ELSE q[i].from
  <2> SUFFICES ASSUME NEW i \in DOMAIN q
               PROVE  /\ q[i] \in Request
                      /\ left[i].op = q[i].op /\ left[i].secret = q[i].secret /\ left[i].account = q[i].account
                      /\ left[i].from = IF q[i].from = c THEN Nobody ELSE q[i].from
    OBVIOUS
  <2>1. q[i] \in Request
    <3> HIDE DEF q, left
    <3> QED  BY <1>1
  <2>2. left[i] = IF q[i].from = c THEN [q[i] EXCEPT !.from = Nobody] ELSE q[i]
    OBVIOUS
  <2> HIDE DEF q, left
  <2> QED  BY <2>1, <2>2 DEF Request
<1>4. /\ agent' \in [Agent -> AgentState]
      /\ agent'[to].state = agent[to].state /\ agent'[to].key = agent[to].key
      /\ agent'[to].copy = agent[to].copy
      /\ agent[to].state \in Serving => agent'[to].queue = left
      /\ agent'[to].queue \in {q, left}
      /\ \A b \in Agent \ {to} : agent'[b] = agent[b]
  <2>1. CASE agent' = [agent EXCEPT ![to].queue = left]
    BY ONLY <1>1, <2>1, VaultInv, QueueReplaced
  <2>2. CASE UNCHANGED agent /\ agent[to].state \notin Serving
    BY <2>2 DEF TypeOK
  <2> QED  BY <2>1, <2>2 DEF Abandon
<1> HIDE DEF left
<1>5. ClientsSound' /\ NoneYet'
  BY <1>2, MovesTyped DEF Structure, ClientsSound, Sound, NoneYet
<1>6. AgentsOpened'
  <2>1. agent[to].state = "up" => agent'[to].queue = << >>
    BY <1>1, <1>4 DEF Structure, AgentsOpened
  <2> QED  BY <1>4, <2>1 DEF Structure, AgentsOpened
<1>7. ASSUME agent[to].state \in Serving PROVE Queued(left, to, client', may)
  <2>1. Queued(q, to, client, may)
    BY <1>1, <1>7 DEF Structure, QueuesKept
  <2>2. \A i \in DOMAIN left : left[i].from # Nobody => q[i].from = left[i].from /\ q[i].from \in Client \ {c}
    BY <1>1, <1>3 DEF Request
  <2> HIDE DEF q
  <2>3. \A i \in DOMAIN left :
           /\ left[i].op \in Updates => left[i].secret \in may[left[i].account]
           /\ left[i].op = "delete" => left[i].secret = 0
           /\ left[i].from # Nobody => AskedBy(left[i], to, client'[left[i].from])
    BY <1>1, <1>2, <1>3, <2>1, <2>2 DEF Queued, AskedBy
  <2>4. \A i, j \in DOMAIN left : left[i].from = left[j].from /\ left[i].from # Nobody => i = j
    BY <1>1, <2>1, <2>2 DEF Queued
  <2> QED  BY <2>3, <2>4 DEF Queued
<1>8. ASSUME NEW b \in Agent, b # to, agent[b].state \in Serving
      PROVE  Queued(agent[b].queue, b, client', may)
  <2>1. agent[b].queue \in Seq(Request) /\ Queued(agent[b].queue, b, client, may)
    BY <1>8 DEF TypeOK, AgentState, Structure, QueuesKept
  <2>2. \A i \in DOMAIN agent[b].queue : agent[b].queue[i].from # c
    BY ONLY <1>8, <2>1, OnlyAwaited DEF to
  <2> QED  BY ONLY <1>2, <2>1, <2>2, QueuedWithout
<1>9. QueuesKept'
  BY <1>4, <1>7, <1>8 DEF QueuesKept
<1>10. q # << >> => /\ left # << >> /\ Head(left).op = Head(q).op
                    /\ Head(left).account = Head(q).account /\ Head(left).secret = Head(q).secret
  <2>1. ASSUME q # << >> PROVE 1 \in DOMAIN q /\ Head(q) = q[1] /\ Head(left) = left[1] /\ left # << >>
    BY <1>1, <2>1
  <2> QED  BY <1>3, <2>1
<1>11. WritesUpdate'
  <2> SUFFICES ASSUME NEW b \in Agent, agent'[b].state \in MidUpdate
               PROVE  /\ agent'[b].queue # << >> /\ Head(agent'[b].queue).op \in Updates
                      /\ agent'[b].key # 0
    BY DEF WritesUpdate
  <2>1. agent[b].state \in MidUpdate
    BY <1>4
  <2>2. agent[b].queue # << >> /\ Head(agent[b].queue).op \in Updates /\ agent[b].key # 0
    BY <2>1 DEF Structure, WritesUpdate
  <2>3. CASE b = to
    BY <1>4, <1>10, <2>2, <2>3
  <2>4. CASE b # to
    BY <1>4, <2>2, <2>4
  <2> QED  BY <2>3, <2>4
<1>12. Steady
  <2>1. \A b \in Agent : /\ agent'[b].state = agent[b].state /\ agent'[b].key = agent[b].key
                         /\ agent'[b].copy = agent[b].copy
    BY <1>4
  <2> SUFFICES ASSUME NEW b \in Agent, agent[b].state \in MidUpdate
               PROVE  /\ Head(agent'[b].queue).account = Head(agent[b].queue).account
                      /\ Head(agent'[b].queue).secret = Head(agent[b].queue).secret
    BY <2>1 DEF Steady
  <2>2. agent[b].queue # << >>
    BY DEF Structure, WritesUpdate
  <2>3. CASE b = to
    BY <1>4, <1>10, <2>2, <2>3
  <2>4. CASE b # to
    BY <1>4, <2>4
  <2> QED  BY <2>3, <2>4
<1> QED  BY <1>4, <1>5, <1>6, <1>9, <1>11, <1>12 DEF Structure

LEMMA UnansweredInv == ASSUME VaultInv, NEW c \in Client, Unanswered(c) PROVE VaultInv'
<1>1. /\ client[c].at = "await" /\ NoAnswer(c) /\ UNCHANGED <<file, path, commands, kills, newest, may>>
      /\ \/ agent' = Abandon(c, client[c].to)
         \/ UNCHANGED agent /\ agent[client[c].to].state \notin Serving
      /\ Disturb(SomeAlive \/ (Contended(c) /\ client'[c].at \in Starting))
  BY DEF Unanswered
<1>2. PICK new \in ClientState :
         /\ client' = [client EXCEPT ![c] = new] /\ client'[c] = new
         /\ new.at \in {"idle", "ping", "derive"} /\ Sound(new, file, may)
         /\ new.at = "idle" => new = Idle
         /\ new.at = "ping" => client[c].cmd = "change" /\ new.cmd = "change" /\ new.key = client[c].key
  BY <1>1, NoAnswerMoves
<1>3. agent' \in [Agent -> AgentState] /\ Structure' /\ Steady
  BY ONLY VaultInv, <1>1, <1>2, LeaveStructure
<1>4. TypeOK'
  <2>1. client' \in [Client -> ClientState] /\ disturbed' \in BOOLEAN
    BY <1>1, <1>2, ClientReplaced DEF VaultInv, TypeOK, Disturb
  <2> QED  BY <1>1, <1>3, <2>1 DEF VaultInv, TypeOK, AgentState, ClientState
<1>5. ASSUME ~disturbed' PROVE Calm'
  <2>1. Calm /\ ~SomeAlive /\ (new.at \in Starting => ~Contended(c))
    BY <1>1, <1>2, <1>5 DEF Disturb, VaultInv
  <2>2. Hot(new) => ~Contended(c)
    BY <1>2, <2>1, MovesTyped DEF Hot, Starting, Rewriting
  <2>3. HasKey(new) => new.key = newest
    BY <1>1, <1>2, <2>1, MovesTyped DEF HasKey, Outdating, Calm, ClientKeys
  <2>4. UNCHANGED <<file, newest>> /\ \A x \in Account : may[x] \subseteq may'[x]
    BY <1>1
  <2>5. new.at # "fork" /\ new.at # "changeWrite"
    BY <1>2
  <2> QED  BY ONLY VaultInv, <1>2, <1>3, <2>1, <2>2, <2>3, <2>4, <2>5, SteadyCalm
<1> QED  BY <1>3, <1>4, <1>5 DEF VaultInv

LEMMA KillClientInv == ASSUME VaultInv, NEW c \in Client, KillClient(c) PROVE VaultInv'
<1>1. /\ End(c) /\ UNCHANGED <<file, path, commands, newest, may>> /\ disturbed' \in BOOLEAN
      /\ kills' \in 0..MaxKills
      /\ agent' = IF client[c].at = "await" THEN Abandon(c, client[c].to) ELSE agent
      /\ ~disturbed' => ~disturbed /\ ~(client[c].cmd = "change" /\ client[c].key # 0)
  <2>1. kills \in 0..MaxKills /\ kills < MaxKills /\ kills' = kills + 1 /\ disturbed \in BOOLEAN
    BY DEF KillClient, VaultInv, TypeOK
  <2>2. kills' \in 0..MaxKills
    BY <2>1, VaultAssumption
  <2> QED  BY <2>1, <2>2 DEF KillClient, Disturb
<1>2. ~disturbed' => ~disturbed /\ ~Outdating(client[c])
  <2>1. ASSUME ~disturbed, Outdating(client[c]) PROVE client[c].cmd = "change" /\ client[c].key # 0
    <3>1. client[c].cmd = "change" /\ client[c].key = newest
      BY <2>1 DEF Outdating, HasKey, VaultInv, Calm, ClientKeys
    <3>2. file # Nobody
      BY <3>1, MovesTyped DEF Sound
    <3> QED  BY <3>1, <3>2 DEF VaultInv, TypeOK
  <2> QED  BY <1>1, <2>1
<1>3. CASE client[c].at # "await"
  <2>1. agent' \in [Agent -> AgentState] /\ Quiet
    BY <1>1, <1>3 DEF VaultInv, TypeOK, Quiet
  <2> QED  BY <1>1, <1>2, <1>3, <2>1, EndInv
<1>4. CASE client[c].at = "await"
  <2>1. client' = [client EXCEPT ![c] = Idle] /\ Idle.at # "await" /\ agent' = Abandon(c, client[c].to)
    BY <1>1, <1>4, MovesTyped DEF End
  <2>2. Idle \in ClientState /\ Sound(Idle, file, may) /\ ~Hot(Idle) /\ ~HasKey(Idle)
        /\ Idle.at # "fork" /\ Idle.at # "changeWrite"
    BY MovesTyped
  <2>3. UNCHANGED <<file, may>> /\ UNCHANGED <<file, newest>> /\ \A x \in Account : may[x] \subseteq may'[x]
    BY <1>1
  <2>4. agent' \in [Agent -> AgentState] /\ Structure' /\ Steady
    BY ONLY VaultInv, <1>4, <2>1, <2>2, <2>3, LeaveStructure
  <2>5. TypeOK'
    <3>1. client' \in [Client -> ClientState]
      BY <2>1, <2>2, ClientReplaced DEF VaultInv
    <3> QED  BY <1>1, <2>4, <3>1 DEF VaultInv, TypeOK, AgentState, ClientState
  <2>6. ASSUME ~disturbed' PROVE Calm'
    <3>1. Calm /\ ~Outdating(client[c])
      BY <1>2, <2>6 DEF VaultInv
    <3> QED  BY ONLY VaultInv, <2>1, <2>2, <2>3, <2>4, <3>1, SteadyCalm
  <2> QED  BY <2>4, <2>5, <2>6 DEF VaultInv
<1> QED  BY <1>3, <1>4

-----------------------------------------------------------------------------
(* Agents *)

\* What an agent's step has to show to keep the invariant, when no client and no file changes.
LEMMA AgentMoves ==
    ASSUME VaultInv, NEW a \in Agent, agent[a].state \in Alive,
           NEW new \in AgentState, agent' = [agent EXCEPT ![a] = new],
           UNCHANGED <<file, client, commands, newest, may>>, kills' \in 0..MaxKills,
           path' \in Agent \cup {Nobody}, disturbed' \in BOOLEAN, new.state \notin {"up", "answering"},
           new.state \in Serving =>
              /\ agent[a].state \in Serving \cup {"up"} /\ new.key = agent[a].key
              /\ Queued(new.queue, a, client, may),
           new.state = "writing" =>
              new.queue # << >> /\ Head(new.queue).op \in Updates /\ new.key # 0,
           ~disturbed' =>
              /\ ~disturbed
              /\ new.state = "writing" =>
                    /\ new.key = newest
                    /\ new.copy = [file.data EXCEPT ![Head(new.queue).account] = Head(new.queue).secret]
                    /\ \A c \in Client : client[c].at # "changeWrite"
    PROVE  VaultInv'
<1> USE DEF VaultInv
<1>1. /\ agent' \in [Agent -> AgentState] /\ agent'[a] = new
      /\ \A b \in Agent \ {a} : agent'[b] = agent[b]
  BY AgentReplaced
<1>2. TypeOK'
  BY <1>1 DEF TypeOK, AgentState, ClientState
<1>3. ClientsSound' /\ NoneYet'
  BY DEF Structure, ClientsSound, NoneYet
<1>4. AgentsOpened' /\ WritesUpdate'
  BY <1>1 DEF Structure, AgentsOpened, WritesUpdate, MidUpdate
<1>5. QueuesKept'
  BY <1>1 DEF Structure, QueuesKept
<1>6. ASSUME ~disturbed' PROVE Calm'
  <2> USE DEF Calm
  <2>1. OneHot' /\ ClientKeys' /\ CopyCurrent' /\ NewestKey' /\ KeepsMay'
    BY <1>6 DEF OneHot, ClientKeys, CopyCurrent, NewestKey, KeepsMay
  <2>2. \A b \in Agent : agent'[b].state \in Alive => agent[b].state \in Alive
    BY <1>1
  <2>3. AloneAtFork' /\ OneAlive'
    BY <1>6, <2>2 DEF AloneAtFork, OneAlive, SomeAlive
  <2>4. AgentKeys'
    BY <1>1, <1>6 DEF AgentKeys
  <2>5. WriteCurrent' /\ WrittenStays'
    BY <1>1, <1>6 DEF WriteCurrent, WrittenStays, MidUpdate
  <2> QED  BY <2>1, <2>3, <2>4, <2>5
<1> QED  BY <1>2, <1>3, <1>4, <1>5, <1>6 DEF Structure

\* An agent whose record is replaced by one that does not serve any more.
LEMMA LeavesInv ==
    ASSUME VaultInv, NEW a \in Agent, agent[a].state \in Alive,
           NEW new \in AgentState, agent' = [agent EXCEPT ![a] = new], new.state \in {"closing", "gone"},
           UNCHANGED <<file, client, commands, newest, may, disturbed>>, kills' \in 0..MaxKills,
           path' \in Agent \cup {Nobody}
    PROVE  VaultInv'
<1>1. disturbed' \in BOOLEAN /\ disturbed' = disturbed
  BY DEF VaultInv, TypeOK
<1>2. new.state \notin {"up", "answering"} /\ new.state \notin Serving /\ new.state # "writing"
  BY DEF MidUpdate, Serving
<1>3. UNCHANGED <<file, client, commands, newest, may>>
  OBVIOUS
<1>4. /\ new.state \in Serving =>
            /\ agent[a].state \in Serving \cup {"up"} /\ new.key = agent[a].key
            /\ Queued(new.queue, a, client, may)
      /\ new.state = "writing" =>
            new.queue # << >> /\ Head(new.queue).op \in Updates /\ new.key # 0
      /\ ~disturbed' =>
            /\ ~disturbed
            /\ new.state = "writing" =>
                  /\ new.key = newest
                  /\ new.copy = [file.data EXCEPT ![Head(new.queue).account] = Head(new.queue).secret]
                  /\ \A c \in Client : client[c].at # "changeWrite"
  BY <1>1, <1>2
<1> QED  BY <1>1, <1>2, <1>3, <1>4, AgentMoves

LEMMA BindInv == ASSUME VaultInv, NEW a \in Agent, Bind(a) PROVE VaultInv'
<1>1. /\ agent[a].state = "up" /\ agent[a].state \in Alive /\ agent[a] \in AgentState
      /\ agent[a].queue = << >> /\ path \in Agent \cup {Nobody}
      /\ UNCHANGED <<file, client, commands, kills, newest, may, disturbed>>
      /\ kills' \in 0..MaxKills /\ disturbed' \in BOOLEAN
  BY DEF Bind, VaultInv, Structure, AgentsOpened, TypeOK, Alive
<1>2. CASE path' = a /\ agent' = [agent EXCEPT ![a].state = "ready"]
  <2> DEFINE new == [agent[a] EXCEPT !.state = "ready"]
  <2>1. /\ new \in AgentState /\ new.state = "ready" /\ new.key = agent[a].key /\ new.queue = << >>
        /\ agent' = [agent EXCEPT ![a] = new]
    BY <1>1, <1>2 DEF AgentState, Alive, MidUpdate, Serving
  <2>2. Queued(new.queue, a, client, may)
    BY <2>1 DEF Queued
  <2> HIDE DEF new
  <2> QED  BY <1>1, <1>2, <2>1, <2>2, AgentMoves
<1>3. CASE agent' = [agent EXCEPT ![a].state = "closing"] /\ UNCHANGED path
  <2> DEFINE new == [agent[a] EXCEPT !.state = "closing"]
  <2>1. new \in AgentState /\ new.state = "closing" /\ agent' = [agent EXCEPT ![a] = new]
    BY <1>1, <1>3 DEF AgentState, Alive
  <2> HIDE DEF new
  <2> QED  BY <1>1, <1>3, <2>1, LeavesInv
<1> QED  BY <1>2, <1>3 DEF Bind

LEMMA ExpireInv == ASSUME VaultInv, NEW a \in Agent, Expire(a) PROVE VaultInv'
<1> DEFINE new == [agent[a] EXCEPT !.state = "closing"]
<1>1. /\ agent[a].state \in Alive /\ path' \in Agent \cup {Nobody} /\ kills' \in 0..MaxKills
      /\ agent[a] \in AgentState /\ agent' = [agent EXCEPT ![a] = new]
      /\ UNCHANGED <<file, client, commands, newest, may, disturbed>>
  BY DEF Expire, VaultInv, TypeOK, Alive, MidUpdate, Serving
<1>2. new \in AgentState /\ new.state = "closing"
  BY <1>1 DEF AgentState, Alive
<1> HIDE DEF new
<1> QED  BY <1>1, <1>2, LeavesInv

LEMMA GoneInv ==
    ASSUME VaultInv, NEW a \in Agent, Finish(a) \/ KillAgent(a)
    PROVE  VaultInv'
<1>1. /\ agent[a].state \in Alive /\ agent' = [agent EXCEPT ![a] = Gone]
      /\ path' \in {path, Nobody} /\ UNCHANGED <<file, client, commands, newest, may, disturbed>>
      /\ kills' = kills \/ (kills < MaxKills /\ kills' = kills + 1)
  BY DEF Finish, KillAgent, Alive
<1>2. path' \in Agent \cup {Nobody} /\ kills' \in 0..MaxKills
  BY <1>1, VaultAssumption DEF VaultInv, TypeOK
<1>3. Gone \in AgentState /\ Gone.state = "gone"
  BY IdleTyped DEF Gone, VaultInv, TypeOK
<1> QED  BY <1>1, <1>2, <1>3, LeavesInv

\* The secrets an account may be left with: the acknowledged one, those of other clients, and
\* those of abandoned requests.
LEMMA SettledKeeps ==
    ASSUME TypeOK, NEW c \in Client, NEW x \in Account, NEW secret \in 0..MaxCommands
    PROVE  /\ Settled(c, x, secret) \in SUBSET (0..MaxCommands) /\ secret \in Settled(c, x, secret)
           /\ \A d \in Client \ {c} : client[d].cmd \in Updates /\ client[d].account = x
                 => client[d].secret \in Settled(c, x, secret)
           /\ \A b \in Agent : \A i \in DOMAIN agent[b].queue :
                 /\ agent[b].state \in Serving /\ agent[b].queue[i].from = Nobody
                 /\ agent[b].queue[i].op \in Updates /\ agent[b].queue[i].account = x
                 => agent[b].queue[i].secret \in Settled(c, x, secret)
<1> DEFINE left(b) == {agent[b].queue[i].secret :
                i \in {j \in DOMAIN agent[b].queue : agent[b].queue[j].from = Nobody
                          /\ agent[b].queue[j].op \in Updates /\ agent[b].queue[j].account = x}}
           others == {client[d].secret : d \in {e \in Client \ {c} : client[e].cmd \in Updates
                                                   /\ client[e].account = x}}
           all == {left(b) : b \in {b \in Agent : agent[b].state \in Serving}}
<1>1. Settled(c, x, secret) = {secret} \cup others \cup UNION all
  BY DEF Settled
<1>2. \A b \in Agent : left(b) \in SUBSET (0..MaxCommands)
  <2> SUFFICES ASSUME NEW b \in Agent, NEW i \in DOMAIN agent[b].queue
               PROVE  agent[b].queue[i].secret \in 0..MaxCommands
    OBVIOUS
  <2>1. agent[b].queue \in Seq(Request)
    BY DEF TypeOK, AgentState
  <2>2. agent[b].queue[i] \in Request
    BY <2>1
  <2> QED  BY <2>2 DEF Request
<1>3. others \in SUBSET (0..MaxCommands)
  BY DEF TypeOK, ClientState
<1>4. \A b \in Agent : agent[b].state \in Serving => left(b) \subseteq UNION all
  OBVIOUS
<1>5. UNION all \subseteq 0..MaxCommands
  BY <1>2
<1>6. \A d \in Client \ {c} : client[d].cmd \in Updates /\ client[d].account = x => client[d].secret \in others
  OBVIOUS
<1>7. \A b \in Agent : \A i \in DOMAIN agent[b].queue :
          /\ agent[b].queue[i].from = Nobody
          /\ agent[b].queue[i].op \in Updates /\ agent[b].queue[i].account = x
          => agent[b].queue[i].secret \in left(b)
  OBVIOUS
<1> HIDE DEF left, others, all
<1> QED  BY <1>1, <1>3, <1>4, <1>5, <1>6, <1>7

\* An answer to a client: its update settles what the account may be left with, and no other
\* secret that is still on its way is lost from that.
LEMMA AnswerSettles ==
    ASSUME VaultInv, NEW a \in Agent, agent[a].state \in Serving, agent[a].queue # << >>,
           NEW accepted \in BOOLEAN, Head(agent[a].queue).from # Nobody,
           may' = IF accepted /\ Head(agent[a].queue).op \in Updates
                  THEN [may EXCEPT ![Head(agent[a].queue).account] =
                           Settled(Head(agent[a].queue).from, Head(agent[a].queue).account,
                                   Head(agent[a].queue).secret)]
                  ELSE may
    PROVE  /\ may' \in [Account -> SUBSET (0..MaxCommands)]
           /\ \A d \in Client : d # Head(agent[a].queue).from /\ client[d].cmd \in Updates
                 => client[d].secret \in may'[client[d].account]
           /\ \A b \in Agent : agent[b].state \in Serving => \A i \in DOMAIN agent[b].queue :
                 agent[b].queue[i].op \in Updates /\ agent[b].queue[i].from = Nobody
                 => agent[b].queue[i].secret \in may'[agent[b].queue[i].account]
           /\ \A x \in Account : x # Head(agent[a].queue).account => may'[x] = may[x]
           /\ may' = may \/ Head(agent[a].queue).secret \in may'[Head(agent[a].queue).account]
<1> DEFINE r == Head(agent[a].queue)
<1>1. r \in Request /\ TypeOK
  BY DEF VaultInv, TypeOK, AgentState
<1>2. r.from \in Client /\ r.account \in Account /\ r.secret \in 0..MaxCommands
  BY <1>1 DEF Request
<1>3. /\ \A d \in Client : client[d] \in ClientState /\ (client[d].cmd \in Updates => client[d].secret \in may[client[d].account])
      /\ may \in [Account -> SUBSET (0..MaxCommands)]
  BY DEF VaultInv, TypeOK, Structure, ClientsSound, Sound
<1>4. \A b \in Agent : agent[b].state \in Serving => \A i \in DOMAIN agent[b].queue :
          /\ agent[b].queue[i] \in Request
          /\ agent[b].queue[i].op \in Updates => agent[b].queue[i].secret \in may[agent[b].queue[i].account]
  <2> SUFFICES ASSUME NEW b \in Agent, agent[b].state \in Serving, NEW i \in DOMAIN agent[b].queue
               PROVE  /\ agent[b].queue[i] \in Request
                      /\ agent[b].queue[i].op \in Updates => agent[b].queue[i].secret \in may[agent[b].queue[i].account]
    OBVIOUS
  <2>1. agent[b].queue \in Seq(Request) /\ Queued(agent[b].queue, b, client, may)
    BY DEF VaultInv, TypeOK, AgentState, Structure, QueuesKept
  <2> QED  BY <2>1 DEF Queued
<1> DEFINE settled == Settled(r.from, r.account, r.secret)
<1>5. /\ settled \in SUBSET (0..MaxCommands) /\ r.secret \in settled
      /\ \A d \in Client \ {r.from} : client[d].cmd \in Updates /\ client[d].account = r.account
            => client[d].secret \in settled
      /\ \A b \in Agent : \A i \in DOMAIN agent[b].queue :
            /\ agent[b].state \in Serving /\ agent[b].queue[i].from = Nobody
            /\ agent[b].queue[i].op \in Updates /\ agent[b].queue[i].account = r.account
            => agent[b].queue[i].secret \in settled
  BY <1>1, <1>2, SettledKeeps
<1>6. may' = may \/ may' = [may EXCEPT ![r.account] = settled]
  OBVIOUS
<1> HIDE DEF settled, r
<1>7. \A x \in Account : may'[x] = may[x] \/ (x = r.account /\ may'[x] = settled)
  BY <1>3, <1>6
<1>8. may' \in [Account -> SUBSET (0..MaxCommands)]
  BY <1>3, <1>5, <1>6
<1>9. \A d \in Client : d # r.from /\ client[d].cmd \in Updates => client[d].secret \in may'[client[d].account]
  BY <1>3, <1>5, <1>7 DEF ClientState
<1>10. \A b \in Agent : agent[b].state \in Serving => \A i \in DOMAIN agent[b].queue :
          agent[b].queue[i].op \in Updates /\ agent[b].queue[i].from = Nobody
          => agent[b].queue[i].secret \in may'[agent[b].queue[i].account]
  BY <1>4, <1>5, <1>7 DEF Request
<1>11. may' = may \/ r.secret \in may'[r.account]
  BY <1>2, <1>3, <1>5, <1>6
<1> QED  BY <1>7, <1>8, <1>9, <1>10, <1>11 DEF r

\* Each queue stays in order when the first request of one is answered.
LEMMA AnswerQueues ==
    ASSUME VaultInv, NEW a \in Agent, agent[a].state \in Serving, agent[a].queue # << >>,
           NEW b \in Agent, agent[b].state \in Serving,
           NEW q, q = IF b = a THEN Tail(agent[a].queue) ELSE agent[b].queue,
           NEW senders, NEW left,
           \A d \in Client \ {Head(agent[a].queue).from} : senders[d] = client[d],
           \A d \in Client : d # Head(agent[a].queue).from /\ client[d].cmd \in Updates
              => client[d].secret \in left[client[d].account],
           \A i \in DOMAIN agent[b].queue :
              agent[b].queue[i].op \in Updates /\ agent[b].queue[i].from = Nobody
              => agent[b].queue[i].secret \in left[agent[b].queue[i].account]
    PROVE  Queued(q, b, senders, left)
<1> DEFINE c == Head(agent[a].queue).from
           all == agent[b].queue
<1>1. all \in Seq(Request) /\ Queued(all, b, client, may) /\ agent[a].queue \in Seq(Request)
  BY DEF VaultInv, TypeOK, AgentState, Structure, QueuesKept
<1>2. \A i \in DOMAIN q : \E j \in DOMAIN all : q[i] = all[j] /\ (b = a => j = i + 1) /\ (b # a => j = i)
  <2>1. CASE b = a
    <3>1. DOMAIN q = 1..(Len(all) - 1) /\ Len(all) \in Nat /\ DOMAIN all = 1..Len(all)
      BY <1>1, <2>1
    <3>2. \A i \in DOMAIN q : i + 1 \in DOMAIN all /\ q[i] = all[i + 1]
      BY <1>1, <2>1, <3>1
    <3> QED  BY <2>1, <3>2
  <2>2. CASE b # a
    BY <2>2
  <2> QED  BY <2>1, <2>2
<1>3. \A j \in DOMAIN all : all[j] \in Request
  BY <1>1
<1>4. c # Nobody => AskedBy(Head(agent[a].queue), a, client[c])
  <2>1. Queued(agent[a].queue, a, client, may) /\ 1 \in DOMAIN agent[a].queue /\ Head(agent[a].queue) = agent[a].queue[1]
    BY <1>1 DEF VaultInv, Structure, QueuesKept
  <2> QED  BY <2>1 DEF Queued
<1>5. b = a => all[1].from = c /\ 1 \in DOMAIN all
  BY <1>1
<1>6. ASSUME NEW i \in DOMAIN q, q[i].from # Nobody PROVE q[i].from \in Client /\ q[i].from # c
  <2>1. PICK j \in DOMAIN all : q[i] = all[j] /\ (b = a => j = i + 1)
    BY <1>2
  <2>2. q[i].from \in Client /\ AskedBy(q[i], b, client[q[i].from])
    BY <1>1, <1>3, <1>6, <2>1 DEF Queued, Request
  <2>3. CASE b = a
    <3>1. i \in Nat /\ i > 0
      <4>1. q = Tail(all) /\ all # << >>
        BY <2>3
      <4> QED  BY <1>1, <4>1
    <3>2. j # 1
      BY <2>1, <2>3, <3>1
    <3> HIDE DEF all, c
    <3> QED  BY <1>1, <1>5, <1>6, <2>1, <2>2, <2>3, <3>2 DEF Queued
  <2>4. CASE b # a
    <3> HIDE DEF all, c
    <3> QED  BY <1>4, <1>6, <2>2, <2>4 DEF AskedBy
  <2> QED  BY <2>2, <2>3, <2>4
<1> HIDE DEF all, c
<1>7. \A i \in DOMAIN q : q[i].from # Nobody => AskedBy(q[i], b, senders[q[i].from]) /\ client[q[i].from] = senders[q[i].from]
  <2> SUFFICES ASSUME NEW i \in DOMAIN q, q[i].from # Nobody
               PROVE  AskedBy(q[i], b, senders[q[i].from]) /\ client[q[i].from] = senders[q[i].from]
    OBVIOUS
  <2>1. q[i].from \in Client \ {c}
    BY <1>6
  <2>2. AskedBy(q[i], b, client[q[i].from])
    BY <1>1, <1>2 DEF Queued
  <2> QED  BY <2>1, <2>2 DEF c
<1>8. ASSUME NEW i \in DOMAIN q, q[i].op \in Updates PROVE q[i].secret \in left[q[i].account]
  <2>1. CASE q[i].from = Nobody
    BY <1>2, <1>8, <2>1 DEF all
  <2>2. CASE q[i].from # Nobody
    <3>1. q[i].from \in Client /\ q[i].from # c
      BY <1>6, <2>2
    <3>2. AskedBy(q[i], b, client[q[i].from])
      BY <1>7, <2>2
    <3>3. client[q[i].from].cmd \in Updates
      BY <1>8, <3>2 DEF AskedBy, Updates
    <3> QED  BY <3>1, <3>2, <3>3 DEF AskedBy, c
  <2> QED  BY <2>1, <2>2
<1>9. \A i \in DOMAIN q : q[i].op = "delete" => q[i].secret = 0
  BY <1>1, <1>2 DEF Queued
<1>10. \A i, j \in DOMAIN q : q[i].from = q[j].from /\ q[i].from # Nobody => i = j
  <2> SUFFICES ASSUME NEW i \in DOMAIN q, NEW j \in DOMAIN q, q[i].from = q[j].from, q[i].from # Nobody
               PROVE  i = j
    OBVIOUS
  <2>1. PICK m \in DOMAIN all : q[i] = all[m] /\ (b = a => m = i + 1) /\ (b # a => m = i)
    BY <1>2
  <2>2. PICK n \in DOMAIN all : q[j] = all[n] /\ (b = a => n = j + 1) /\ (b # a => n = j)
    BY <1>2
  <2>3. m = n
    BY <1>1, <2>1, <2>2 DEF Queued
  <2>4. b = a => i \in Nat /\ j \in Nat
    <3>1. ASSUME b = a PROVE q = Tail(all) /\ all # << >>
      BY <3>1 DEF all
    <3> QED  BY <1>1, <3>1
  <2> QED  BY <2>1, <2>2, <2>3, <2>4
<1> QED  BY <1>7, <1>8, <1>9, <1>10 DEF Queued

\* Answering the first request keeps the invariant, when the file holds the secret of an
\* acknowledged update.
LEMMA AnswerInv ==
    ASSUME VaultInv, NEW a \in Agent, agent[a].state \in Serving, agent[a].queue # << >>,
           NEW stop \in BOOLEAN, NEW accepted \in BOOLEAN, Answer(a, stop, accepted),
           Head(agent[a].queue).op = "lock" => stop,
           UNCHANGED <<file, path, commands, kills, newest, disturbed>>,
           ~disturbed /\ accepted /\ Head(agent[a].queue).op \in Updates /\ file # Nobody =>
              file.data[Head(agent[a].queue).account] = Head(agent[a].queue).secret
    PROVE  VaultInv'
<1> USE DEF VaultInv
<1> DEFINE r == Head(agent[a].queue)
           next == IF stop \/ r.from = Nobody THEN "closing" ELSE "ready"
           rest == Tail(agent[a].queue)
           new == [agent[a] EXCEPT !.queue = rest, !.state = next]
           next_r == IF client[r.from].cmd = "change" THEN [client[r.from] EXCEPT !.at = "ping", !.to = Nobody]
                     ELSE Idle
<1>1. agent[a] \in AgentState /\ agent[a].queue \in Seq(Request) /\ Queued(agent[a].queue, a, client, may)
  BY DEF TypeOK, AgentState, Structure, QueuesKept
<1>2. r \in Request /\ rest \in Seq(Request) /\ r = agent[a].queue[1] /\ 1 \in DOMAIN agent[a].queue
  BY <1>1
<1>3. /\ r.op \in Updates => r.secret \in may[r.account]
      /\ r.from # Nobody => r.from \in Client /\ AskedBy(r, a, client[r.from])
      /\ r.account \in Account
  BY <1>1, <1>2 DEF Queued, Request
<1>4. /\ new \in AgentState /\ new.state = next /\ new.key = agent[a].key /\ new.queue = rest
      /\ next \in {"closing", "ready"}
  BY <1>1, <1>2 DEF AgentState, Alive, MidUpdate, Serving
<1>5. agent' = [agent EXCEPT ![a] = new]
  BY DEF Answer
<1>6. /\ r.from = Nobody => UNCHANGED <<client, may>>
      /\ r.from # Nobody =>
            /\ client' = [client EXCEPT ![r.from] = next_r]
            /\ may' = IF accepted /\ r.op \in Updates
                      THEN [may EXCEPT ![r.account] = Settled(r.from, r.account, r.secret)] ELSE may
  BY <1>3 DEF Answer, TypeOK
<1>7. next = "ready" => r.from # Nobody /\ r.op # "lock"
  OBVIOUS
<1> HIDE DEF new, next, rest
<1>8. /\ agent' \in [Agent -> AgentState] /\ agent'[a] = new
      /\ \A b \in Agent \ {a} : agent'[b] = agent[b]
  BY <1>4, <1>5, AgentReplaced
<1>9. ASSUME r.from # Nobody
      PROVE  /\ next_r \in ClientState /\ next_r.cmd \in {"change", "none"} /\ next_r.at \in {"ping", "idle"}
             /\ next_r.at = "ping" => /\ client[r.from].cmd = "change" /\ next_r.cmd = "change"
                                      /\ next_r.key = client[r.from].key
             /\ next_r.cmd = "change" => client[r.from].cmd = "change"
             /\ Hot(next_r) => client[r.from].cmd = "change"
             /\ client[r.from].cmd = "change" => r.op = "lock"
             /\ client[r.from].at = "await"
             /\ client[r.from] \in ClientState /\ Sound(client[r.from], file, may)
  <2>1. r.from \in Client /\ AskedBy(r, a, client[r.from])
    BY <1>3, <1>9
  <2>2. client[r.from] \in ClientState /\ Sound(client[r.from], file, may) /\ Idle \in ClientState
        /\ Idle.at = "idle" /\ Idle.cmd = "none" /\ ~Hot(Idle)
    BY <2>1, MovesTyped
  <2>3. client[r.from].cmd = "change" => r.op = "lock"
    BY <2>1 DEF AskedBy, Requests, Updates
  <2> QED  BY <2>1, <2>2, <2>3 DEF ClientState, Starting, AskedBy
<1> HIDE DEF next_r
<1>10. /\ client' \in [Client -> ClientState]
       /\ \A d \in Client : d # r.from => client'[d] = client[d]
       /\ r.from # Nobody => client'[r.from] = next_r
  BY <1>3, <1>6, <1>9, VaultAssumption DEF TypeOK
<1>11. ASSUME r.from # Nobody
       PROVE  /\ may' \in [Account -> SUBSET (0..MaxCommands)]
              /\ \A d \in Client : d # r.from /\ client[d].cmd \in Updates
                    => client[d].secret \in may'[client[d].account]
              /\ \A b \in Agent : agent[b].state \in Serving => \A i \in DOMAIN agent[b].queue :
                    agent[b].queue[i].op \in Updates /\ agent[b].queue[i].from = Nobody
                    => agent[b].queue[i].secret \in may'[agent[b].queue[i].account]
              /\ \A x \in Account : x # r.account => may'[x] = may[x]
              /\ may' = may \/ r.secret \in may'[r.account]
  BY <1>6, <1>11, AnswerSettles
<1>12. TypeOK'
  <2>1. may' \in [Account -> SUBSET (0..MaxCommands)]
    BY <1>6, <1>11 DEF TypeOK
  <2> QED  BY <1>8, <1>10, <2>1 DEF TypeOK, AgentState, ClientState
<1>13. ClientsSound'
  <2> SUFFICES ASSUME NEW d \in Client PROVE Sound(client'[d], file', may')
    BY DEF ClientsSound
  <2>1. Sound(client[d], file, may)
    BY MovesTyped
  <2>2. CASE r.from = Nobody
    BY <1>6, <2>1, <2>2 DEF Sound
  <2>3. CASE r.from # Nobody /\ d # r.from
    BY <1>10, <1>11, <2>1, <2>3 DEF Sound
  <2>4. CASE r.from # Nobody /\ d = r.from
    BY <1>9, <1>10, <2>4 DEF Sound, Updates
  <2> QED  BY <2>2, <2>3, <2>4
<1>14. AgentsOpened' /\ WritesUpdate'
  BY <1>4, <1>8 DEF Structure, AgentsOpened, WritesUpdate, MidUpdate, Alive, Serving
<1>15. NoneYet'
  <2> SUFFICES ASSUME file' = Nobody, NEW x \in Account PROVE 0 \in may'[x]
    BY DEF NoneYet
  <2>1. FALSE
    BY DEF Structure, AgentsOpened, Alive
  <2> QED  BY <2>1
<1>16. QueuesKept'
  <2> SUFFICES ASSUME NEW b \in Agent, agent'[b].state \in Serving
               PROVE  Queued(agent'[b].queue, b, client', may')
    BY DEF QueuesKept
  <2>1. agent[b].state \in Serving
    BY <1>8
  <2>2. agent'[b].queue = IF b = a THEN Tail(agent[a].queue) ELSE agent[b].queue
    BY <1>4, <1>8 DEF rest
  <2>3. \A d \in Client \ {r.from} : client'[d] = client[d]
    BY <1>10
  <2>4. Queued(agent[b].queue, b, client, may)
    BY <2>1 DEF Structure, QueuesKept
  <2>5. \A d \in Client : d # r.from /\ client[d].cmd \in Updates => client[d].secret \in may'[client[d].account]
    BY <1>6, <1>11, MovesTyped DEF Sound
  <2>6. \A i \in DOMAIN agent[b].queue :
           agent[b].queue[i].op \in Updates /\ agent[b].queue[i].from = Nobody
           => agent[b].queue[i].secret \in may'[agent[b].queue[i].account]
    BY <1>6, <1>11, <2>1, <2>4 DEF Queued
  <2> QED  BY <2>1, <2>2, <2>3, <2>5, <2>6, AnswerQueues
<1>17. ASSUME ~disturbed' PROVE Calm'
  <2> USE DEF Calm
  <2>1. Calm /\ ~disturbed
    BY <1>17
  <2>2. \A b \in Agent \ {a} : agent[b].state \notin Alive /\ agent'[b] = agent[b]
    BY <1>8, <2>1 DEF OneAlive, Alive
  <2>3. SomeAlive
    BY DEF SomeAlive, Alive
  <2>4. \A d \in Client : Hot(client'[d]) => Hot(client[d])
    <3>1. r.from # Nobody /\ Hot(next_r) => Hot(client[r.from])
      BY <1>9 DEF Hot
    <3> QED  BY <1>10, <3>1, VaultAssumption
  <2>5. OneHot' /\ AloneAtFork'
    BY <1>9, <1>10, <2>1, <2>3, <2>4, VaultAssumption DEF OneHot, AloneAtFork
  <2>6. OneAlive' /\ WriteCurrent' /\ WrittenStays'
    BY <1>4, <1>8, <2>2 DEF OneAlive, WriteCurrent, WrittenStays, MidUpdate, Alive, Serving
  <2>7. NewestKey'
    BY <2>1 DEF NewestKey
  <2>8. ClientKeys'
    <3> SUFFICES ASSUME NEW d \in Client, HasKey(client'[d]) PROVE client'[d].key = newest
      BY DEF ClientKeys
    <3>1. CASE d # r.from
      BY <1>10, <2>1, <3>1 DEF ClientKeys
    <3>2. CASE d = r.from
      <4>1. client'[d] = next_r /\ r.from # Nobody
        BY <1>10, <3>2, VaultAssumption
      <4>2. next_r.at = "ping"
        BY <1>9, <4>1 DEF HasKey, Outdating
      <4>3. HasKey(client[d])
        BY <1>9, <3>2, <4>1, <4>2 DEF HasKey, Outdating
      <4> QED  BY <1>9, <2>1, <3>2, <4>1, <4>2, <4>3 DEF ClientKeys
    <3> QED  BY <3>1, <3>2
  <2>9. AgentKeys'
    <3>1. CASE next = "closing"
      BY <1>4, <1>8, <2>2, <3>1 DEF AgentKeys, Alive, MidUpdate, Serving
    <3>2. CASE next # "closing"
      <4>1. r.from # Nobody /\ r.op # "lock"
        BY <1>4, <1>7, <3>2
      <4>2. \A d \in Client : Outdating(client[d]) => Outdating(client'[d])
        BY <1>9, <1>10, <4>1 DEF Outdating
      <4> QED  BY <1>4, <1>8, <2>1, <2>2, <4>2 DEF AgentKeys, Alive, MidUpdate, Serving
    <3> QED  BY <3>1, <3>2
  <2>10. CopyCurrent'
    BY <1>9, <1>10, <2>1, VaultAssumption DEF CopyCurrent
  <2>11. KeepsMay'
    <3> SUFFICES ASSUME file' # Nobody, NEW x \in Account PROVE file'.data[x] \in may'[x]
      BY DEF KeepsMay
    <3>1. file.data[x] \in may[x]
      BY <2>1 DEF KeepsMay
    <3>2. CASE r.from = Nobody \/ may' = may
      BY <1>3, <1>6, <2>1, <3>1, <3>2
    <3>3. CASE r.from # Nobody /\ may' # may
      <4>1. accepted /\ r.op \in Updates
        BY <1>6, <3>3
      <4> QED  BY <1>11, <2>1, <3>1, <3>3, <4>1
    <3> QED  BY <3>2, <3>3
  <2> QED  BY <2>5, <2>6, <2>7, <2>8, <2>9, <2>10, <2>11
<1> QED  BY <1>12, <1>13, <1>14, <1>15, <1>16, <1>17 DEF Structure

LEMMA HandleInv == ASSUME VaultInv, NEW a \in Agent, Handle(a) PROVE VaultInv'
<1> USE DEF VaultInv
<1> DEFINE r == Head(agent[a].queue)
           opens == Opens(agent[a].key)
           writes == /\ opens /\ r.op \in Updates
                     /\ r.op = "delete" => file.data[r.account] # 0
<1>1. /\ agent[a].state = "ready" /\ agent[a].queue # << >> /\ agent[a].state \in Serving
      /\ UNCHANGED <<file, path, commands, kills, newest>>
      /\ IF writes
         THEN /\ agent' = [agent EXCEPT ![a].state = "writing",
                             ![a].copy = [file.data EXCEPT ![r.account] = r.secret]]
              /\ Disturb(\E c \in Client : client[c].at = "changeWrite")
              /\ UNCHANGED <<client, may>>
         ELSE Answer(a, r.op = "lock", opens) /\ UNCHANGED disturbed
  BY DEF Handle, MidUpdate, Serving
<1>2. agent[a] \in AgentState /\ agent[a].queue \in Seq(Request) /\ Queued(agent[a].queue, a, client, may)
  BY <1>1 DEF TypeOK, AgentState, Structure, QueuesKept
<1>3. r \in Request /\ (r.op = "delete" => r.secret = 0)
  <2>1. 1 \in DOMAIN agent[a].queue /\ r = agent[a].queue[1]
    BY <1>1, <1>2
  <2> QED  BY <1>2, <2>1 DEF Queued
<1>4. CASE writes
  <2> DEFINE copy == [file.data EXCEPT ![r.account] = r.secret]
             new == [agent[a] EXCEPT !.state = "writing", !.copy = copy]
  <2>1. file # Nobody /\ file.key = agent[a].key /\ file.key # 0 /\ file.data \in Data
    BY <1>4 DEF Opens, TypeOK
  <2>2. copy \in Data
    BY <1>3, <2>1 DEF Data, Request
  <2>3. agent' = [agent EXCEPT ![a] = new]
    BY <1>1, <1>4
  <2> HIDE DEF copy
  <2>4. /\ new \in AgentState /\ new.state = "writing" /\ new.key = agent[a].key
        /\ new.queue = agent[a].queue /\ new.copy = copy
    BY <1>2, <2>2 DEF AgentState, Alive, MidUpdate, Serving
  <2> HIDE DEF new
  <2>5. ~disturbed' => ~disturbed /\ new.key = newest /\ \A c \in Client : client[c].at # "changeWrite"
    BY <1>1, <1>4, <2>1, <2>4 DEF Disturb, Calm, NewestKey
  <2>6. /\ agent[a].state \in Alive /\ kills' \in 0..MaxKills /\ path' \in Agent \cup {Nobody}
        /\ disturbed' \in BOOLEAN /\ UNCHANGED <<file, client, commands, newest, may>>
    BY <1>1, <1>4 DEF Disturb, TypeOK, Alive
  <2>7. new.queue # << >> /\ Head(new.queue).op \in Updates /\ new.key # 0
    BY <1>1, <1>4, <2>1, <2>4
  <2>8. new.copy = [file.data EXCEPT ![Head(new.queue).account] = Head(new.queue).secret]
    BY <2>4 DEF copy
  <2>9. Queued(new.queue, a, client, may) /\ new.state \notin {"up", "answering"} /\ agent[a].state \in Serving \cup {"up"}
    BY <1>1, <1>2, <2>4
  <2> QED  BY ONLY VaultInv, a \in Agent, <2>3, <2>4, <2>5, <2>6, <2>7, <2>8, <2>9, AgentMoves
<1>5. CASE ~writes
  <2>1. Answer(a, r.op = "lock", opens) /\ UNCHANGED disturbed /\ opens \in BOOLEAN /\ (r.op = "lock") \in BOOLEAN
    BY <1>1, <1>5 DEF Opens
  <2>2. UNCHANGED file
    BY <1>1
  <2>3. opens /\ r.op \in Updates => file.data[r.account] = r.secret
    BY <1>3, <1>5 DEF Updates
  <2> HIDE DEF opens, writes
  <2> QED  BY <1>1, <2>1, <2>2, <2>3, AnswerInv
<1> QED  BY <1>4, <1>5

\* The file is replaced by what the agent has put together, and not yet answered for.
LEMMA LandedInv ==
    ASSUME VaultInv, NEW a \in Agent, agent[a].state = "writing",
           file' = [key |-> agent[a].key, data |-> agent[a].copy],
           agent' = [agent EXCEPT ![a].state = "answering"],
           UNCHANGED <<path, client, commands, kills, newest, may, disturbed>>
    PROVE  VaultInv'
<1> USE DEF VaultInv
<1> DEFINE r == Head(agent[a].queue)
           new == [agent[a] EXCEPT !.state = "answering"]
<1>1. /\ agent[a] \in AgentState /\ agent[a].queue # << >> /\ agent[a].queue \in Seq(Request)
      /\ r.op \in Updates /\ agent[a].key # 0 /\ file # Nobody /\ newest \in Nat
      /\ file \in [key: 1..newest, data: Data] /\ Queued(agent[a].queue, a, client, may)
  BY DEF TypeOK, AgentState, Structure, WritesUpdate, AgentsOpened, QueuesKept, MidUpdate, Alive, Serving
<1>2. r \in Request /\ r.account \in Account /\ r.secret \in may[r.account]
  <2>1. r \in Request /\ r = agent[a].queue[1] /\ 1 \in DOMAIN agent[a].queue
    BY <1>1
  <2> QED  BY <1>1, <2>1 DEF Request, Queued
<1>3. file' \in [key: 1..newest, data: Data] /\ file' # Nobody
  BY <1>1, VaultAssumption DEF AgentState, Data
<1>4. /\ new \in AgentState /\ new.state = "answering" /\ new.key = agent[a].key
      /\ new.queue = agent[a].queue /\ agent' = [agent EXCEPT ![a] = new]
  BY <1>1 DEF AgentState, Alive, MidUpdate, Serving
<1> HIDE DEF new
<1>5. /\ agent' \in [Agent -> AgentState] /\ agent'[a] = new
      /\ \A b \in Agent \ {a} : agent'[b] = agent[b]
  BY <1>4, AgentReplaced
<1>6. TypeOK'
  BY <1>3, <1>5 DEF TypeOK, AgentState, ClientState
<1>7. ClientsSound' /\ NoneYet' /\ AgentsOpened'
  BY <1>3, <1>4, <1>5 DEF Structure, ClientsSound, Sound, NoneYet, AgentsOpened
<1>8. QueuesKept' /\ WritesUpdate'
  BY <1>1, <1>4, <1>5 DEF Structure, QueuesKept, WritesUpdate, MidUpdate
<1>9. ASSUME ~disturbed' PROVE Calm'
  <2> USE DEF Calm
  <2>1. Calm /\ ~disturbed
    BY <1>9
  <2>2. /\ agent[a].key = newest /\ file.key = newest
        /\ agent[a].copy = [file.data EXCEPT ![r.account] = r.secret]
        /\ \A c \in Client : client[c].at # "changeWrite"
    BY <1>1, <2>1 DEF WriteCurrent, MidUpdate, NewestKey
  <2>3. \A x \in Account : file'.data[x] = IF x = r.account THEN r.secret ELSE file.data[x]
    BY <1>1, <1>2, <2>2 DEF Data
  <2>4. \A b \in Agent \ {a} : agent[b].state \notin Alive /\ agent'[b] = agent[b]
    BY <1>5, <2>1 DEF OneAlive, Alive, MidUpdate, Serving
  <2>5. OneHot' /\ ClientKeys' /\ CopyCurrent' /\ NewestKey'
    BY <1>3, <2>1, <2>2 DEF OneHot, ClientKeys, CopyCurrent, NewestKey
  <2>6. AloneAtFork' /\ OneAlive'
    BY <1>4, <1>5, <2>1, <2>4 DEF AloneAtFork, OneAlive, SomeAlive, Alive, MidUpdate, Serving
  <2>7. AgentKeys'
    BY <1>4, <1>5, <2>1, <2>4 DEF AgentKeys, MidUpdate, Serving
  <2>8. WriteCurrent'
    BY <1>4, <1>5, <2>2, <2>4 DEF WriteCurrent, MidUpdate, Alive, Serving
  <2>9. WrittenStays'
    BY <1>2, <1>3, <1>4, <1>5, <2>3, <2>4 DEF WrittenStays, Alive, MidUpdate, Serving
  <2>10. KeepsMay'
    BY <1>1, <1>2, <2>1, <2>3 DEF KeepsMay
  <2> QED  BY <2>5, <2>6, <2>7, <2>8, <2>9, <2>10
<1> QED  BY <1>6, <1>7, <1>8, <1>9 DEF Structure

LEMMA WriteInv == ASSUME VaultInv, NEW a \in Agent, Write(a) PROVE VaultInv'
<1>1. /\ agent[a].state = "writing" /\ agent[a].state \in Serving
      /\ UNCHANGED <<path, commands, kills, newest, disturbed>>
  BY DEF Write, MidUpdate, Serving
<1>2. agent[a].queue # << >> /\ Head(agent[a].queue).op # "lock" /\ FALSE \in BOOLEAN
  BY <1>1 DEF VaultInv, Structure, WritesUpdate, MidUpdate, Updates
<1>3. CASE /\ file' = [key |-> agent[a].key, data |-> agent[a].copy]
           /\ agent' = [agent EXCEPT ![a].state = "answering"] /\ UNCHANGED <<client, may>>
  BY <1>1, <1>3, LandedInv
<1>4. CASE UNCHANGED file /\ Answer(a, FALSE, FALSE)
  BY <1>1, <1>2, <1>4, AnswerInv
<1> QED  BY <1>3, <1>4 DEF Write

LEMMA ReplyInv == ASSUME VaultInv, NEW a \in Agent, Reply(a) PROVE VaultInv'
<1>1. /\ agent[a].state = "answering" /\ agent[a].state \in Serving
      /\ UNCHANGED <<file, path, commands, kills, newest, disturbed>>
  BY DEF Reply, MidUpdate, Serving
<1>2. agent[a].queue # << >> /\ Head(agent[a].queue).op # "lock" /\ FALSE \in BOOLEAN
  BY <1>1 DEF VaultInv, Structure, WritesUpdate, MidUpdate, Updates
<1>3. PICK accepted \in BOOLEAN : Answer(a, FALSE, accepted)
  BY DEF Reply
<1>4. ~disturbed => file.data[Head(agent[a].queue).account] = Head(agent[a].queue).secret
  BY <1>1 DEF VaultInv, Calm, WrittenStays
<1> QED  BY <1>1, <1>2, <1>3, <1>4, AnswerInv

-----------------------------------------------------------------------------
(* The invariant and what follows from it *)

LEMMA InitInv == Init => VaultInv
<1> SUFFICES ASSUME Init PROVE VaultInv
  OBVIOUS
<1> USE DEF Init
<1>1. /\ newest \in {0, 1} /\ newest \in Nat /\ (file # Nobody => newest = 1)
      /\ file # Nobody => file = [key |-> 1, data |-> [x \in Account |-> 0]]
  OBVIOUS
<1>2. Idle \in ClientState /\ Gone \in AgentState /\ Gone.state = "gone" /\ Gone.queue = << >>
  BY <1>1, IdleTyped DEF Gone
<1>3. Idle.cmd = "none" /\ Idle.at = "idle"
  BY DEF Idle
<1>4. path \in Agent \cup {Nobody} /\ (file = Nobody => path = Nobody)
  BY VaultAssumption
<1> DEFINE open == [Gone EXCEPT !.state = "ready", !.key = 1]
<1>5. /\ file # Nobody => open \in AgentState
      /\ open.state = "ready" /\ open.key = 1 /\ open.queue = << >>
  <2>1. open.state = "ready" /\ open.key = 1 /\ open.queue = << >>
    BY <1>2 DEF AgentState
  <2>2. "ready" \in Alive \cup {"gone"} /\ (file # Nobody => 1 \in 0..newest)
    BY <1>1 DEF Alive, MidUpdate, Serving
  <2>3. ASSUME 1 \in 0..newest PROVE open \in AgentState
    BY ONLY <1>2, <2>2, <2>3 DEF AgentState
  <2> QED  BY <2>1, <2>2, <2>3
<1>6. \A a \in Agent : agent[a] = IF a = path THEN open ELSE Gone
  OBVIOUS
<1> HIDE DEF open
<1>7. \A a \in Agent : agent[a].state # "gone" => a = path /\ file # Nobody /\ agent[a] = open
  BY <1>2, <1>4, <1>6, VaultAssumption
<1>8. TypeOK
  <2>1. file \in {Nobody} \cup [key: 1..newest, data: Data]
    BY <1>1, VaultAssumption DEF Data
  <2>2. agent \in [Agent -> AgentState]
    <3>1. \A a \in Agent : agent[a] \in AgentState
      BY <1>2, <1>5, <1>6, <1>7
    <3> QED  BY <3>1
  <2>3. client \in [Client -> ClientState]
    BY <1>2
  <2>4. may \in [Account -> SUBSET (0..MaxCommands)] /\ commands \in 0..MaxCommands /\ kills \in 0..MaxKills
    BY VaultAssumption
  <2>5. disturbed \in BOOLEAN
    OBVIOUS
  <2> QED  BY ONLY <1>1, <1>4, <2>1, <2>2, <2>3, <2>4, <2>5 DEF TypeOK
<1>9. Structure
  <2>1. \A c \in Client : client[c] = Idle
    OBVIOUS
  <2>2. ClientsSound
    BY <1>3, <2>1 DEF ClientsSound, Sound, Updates
  <2>3. AgentsOpened /\ WritesUpdate
    BY <1>5, <1>7 DEF AgentsOpened, WritesUpdate, MidUpdate, Alive, Serving
  <2>4. QueuesKept
    <3> SUFFICES ASSUME NEW a \in Agent, agent[a].state \in Serving PROVE Queued(agent[a].queue, a, client, may)
      BY DEF QueuesKept
    <3>1. agent[a].queue = << >>
      BY <1>5, <1>7 DEF MidUpdate, Serving
    <3> QED  BY <3>1 DEF Queued
  <2>5. NoneYet
    BY DEF NoneYet
  <2> QED  BY <2>2, <2>3, <2>4, <2>5 DEF Structure
<1>10. Calm
  <2>1. \A c \in Client : ~Hot(client[c]) /\ ~HasKey(client[c]) /\ client[c].at \notin {"fork", "changeWrite"}
    BY <1>3 DEF Hot, HasKey, Outdating, Starting, Rewriting
  <2>2. OneHot /\ AloneAtFork /\ ClientKeys /\ CopyCurrent
    BY <2>1 DEF OneHot, AloneAtFork, ClientKeys, CopyCurrent
  <2>3. OneAlive /\ AgentKeys /\ WriteCurrent /\ WrittenStays
    BY <1>1, <1>5, <1>7 DEF OneAlive, AgentKeys, WriteCurrent, WrittenStays, MidUpdate, Alive, Serving
  <2>4. NewestKey /\ KeepsMay
    BY <1>1 DEF NewestKey, KeepsMay
  <2> QED  BY <2>2, <2>3, <2>4 DEF Calm
<1> QED  BY <1>8, <1>9, <1>10 DEF VaultInv

LEMMA VaultStep == VaultInv /\ [Next]_vars => VaultInv'
<1> SUFFICES ASSUME VaultInv, [Next]_vars PROVE VaultInv'
  OBVIOUS
<1>1. ASSUME NEW c \in Client, Begin(c) \/ ClientStep(c) \/ KillClient(c) PROVE VaultInv'
  BY <1>1, BeginInv, ConnectInv, UnansweredInv, CheckInv, DeriveInv, PingInv, ForkInv, PollInv,
     ChangeReadInv, ChangeWriteInv, SetupWriteInv, KillClientInv DEF ClientStep
<1>2. ASSUME NEW a \in Agent, AgentStep(a) \/ KillAgent(a) PROVE VaultInv'
  BY <1>2, BindInv, HandleInv, WriteInv, ReplyInv, ExpireInv, GoneInv DEF AgentStep
<1>3. ASSUME UNCHANGED vars PROVE VaultInv'
  BY <1>3 DEF vars, VaultInv, TypeOK, AgentState, ClientState, Structure, ClientsSound, AgentsOpened,
     QueuesKept, WritesUpdate, NoneYet, Calm, OneHot, AloneAtFork, OneAlive, NewestKey, ClientKeys,
     AgentKeys, CopyCurrent, WriteCurrent, WrittenStays, KeepsMay, SomeAlive
<1> QED  BY <1>1, <1>2, <1>3 DEF Next

\* In every state of every run the variables have their types, every request with an agent is
\* its sender's or abandoned, and while nothing has disturbed the vault at most one agent lives
\* and has the key of the file.
THEOREM VaultCorrect == Spec => []VaultInv
<1>1. Init => VaultInv
  BY InitInv
<1>2. VaultInv /\ [Next]_vars => VaultInv'
  BY VaultStep
<1> QED  BY <1>1, <1>2, PTL DEF Spec

\* Every variable keeps its type: no key is used before it is made, no request has a sender
\* that does not exist, and no account a secret that no command set.
THEOREM TypeCorrect == Spec => []TypeOK
<1>1. VaultInv => TypeOK
  BY DEF VaultInv
<1> QED  BY <1>1, VaultCorrect, PTL

\* Without two commands starting an agent at once, a stalled agent or a killed change, unlock()
\* never leaves two processes with the vault's key, whichever of them is killed or expires.
THEOREM OneAgentOnly == Spec => []OneAgent
<1>1. VaultInv => OneAgent
  BY DEF VaultInv, Calm, OneAlive, OneAgent
<1> QED  BY <1>1, VaultCorrect, PTL

\* Then a secret the agent has acknowledged is in the file until a later update of the same
\* entry, through kills, expiries, lost answers and changes of the passphrase.
THEOREM AcknowledgedKept == Spec => []KeepsAcknowledged
<1>1. VaultInv => KeepsAcknowledged
  BY DEF VaultInv, Calm, KeepsMay, KeepsAcknowledged
<1> QED  BY <1>1, VaultCorrect, PTL

\* No agent writes the file back under the passphrase that change_passphrase replaced.
THEOREM PassphraseKept == Spec => []PassphraseSticks
<1>1. VaultInv => PassphraseSticks
  BY DEF VaultInv, Calm, NewestKey, PassphraseSticks
<1> QED  BY <1>1, VaultCorrect, PTL

\* While no change of the passphrase runs, the agent that has the socket's path opens the file.
THEOREM ServingAgentOpens == Spec => []AgentOpens
<1>1. ASSUME VaultInv, ~disturbed, NEW a \in Agent, Reachable(a), \A c \in Client : client[c].cmd # "change"
      PROVE  agent[a].key = file.key
  <2>1. agent[a].state \in Serving /\ agent[a].state \in Alive
    BY <1>1 DEF Reachable, Alive
  <2>2. file # Nobody
    BY <1>1, <2>1 DEF VaultInv, Structure, AgentsOpened
  <2>3. \A c \in Client : ~Outdating(client[c])
    BY <1>1 DEF Outdating
  <2> QED  BY <1>1, <2>1, <2>2, <2>3 DEF VaultInv, Calm, AgentKeys, NewestKey
<1>2. VaultInv => AgentOpens
  BY <1>1 DEF AgentOpens
<1> QED  BY <1>2, VaultCorrect, PTL

-----------------------------------------------------------------------------
(* The vault as registers.  A client that rests has no command, which the  *)
(* registers need to know: a client asks for one update at a time.         *)

IdleRests == \A c \in Client : client[c].at = "idle" => client[c].cmd = "none"

\* What a command's own steps do to its client: the command goes on, or is over.
GoesOn(old, new) ==
    new.cmd = old.cmd /\ new.account = old.account /\ new.secret = old.secret /\ new.at # "idle"

LEMMA Going ==
    ASSUME VaultInv, NEW c \in Client, NEW w, w # "idle", Goto(c, w)
    PROVE  /\ GoesOn(client[c], client'[c])
           /\ \A d \in Client \ {c} : client'[d] = client[d]
<1>1. client[c] \in ClientState /\ client \in [Client -> ClientState]
  BY DEF VaultInv, TypeOK
<1> DEFINE new == [client[c] EXCEPT !.at = w, !.to = Nobody]
<1>2. new.cmd = client[c].cmd /\ new.account = client[c].account /\ new.secret = client[c].secret /\ new.at = w
  BY <1>1 DEF ClientState
<1>3. client' = [client EXCEPT ![c] = new]
  BY DEF Goto
<1> HIDE DEF new
<1>4. client'[c] = new /\ \A d \in Client \ {c} : client'[d] = client[d]
  BY <1>1, <1>3
<1> QED  BY <1>2, <1>4 DEF GoesOn

LEMMA Ending ==
    ASSUME VaultInv, NEW c \in Client, End(c)
    PROVE  /\ client'[c] = Idle /\ Idle.at = "idle" /\ Idle.cmd = "none"
           /\ \A d \in Client \ {c} : client'[d] = client[d]
BY DEF VaultInv, TypeOK, End, Idle

\* A client whose record is replaced, as a whole.
LEMMA Replacing ==
    ASSUME VaultInv, NEW c \in Client, NEW new, client' = [client EXCEPT ![c] = new]
    PROVE  client'[c] = new /\ \A d \in Client \ {c} : client'[d] = client[d]
BY DEF VaultInv, TypeOK

LEMMA NoAnswerGoes ==
    ASSUME VaultInv, NEW c \in Client, NoAnswer(c)
    PROVE  /\ client'[c] = Idle \/ GoesOn(client[c], client'[c])
           /\ \A d \in Client \ {c} : client'[d] = client[d]
<1>1. client[c] \in ClientState
  BY DEF VaultInv, TypeOK
<1>2. CASE End(c)
  BY <1>2, Ending
<1>3. CASE Goto(c, "ping")
  BY <1>3, Going
<1>4. CASE client' = [client EXCEPT ![c].at = "derive", ![c].to = Nobody, ![c].retried = TRUE]
  <2> DEFINE new == [client[c] EXCEPT !.at = "derive", !.to = Nobody, !.retried = TRUE]
  <2>1. GoesOn(client[c], new)
    BY <1>1 DEF GoesOn, ClientState
  <2>2. client' = [client EXCEPT ![c] = new]
    BY <1>4
  <2> HIDE DEF new
  <2> QED  BY <2>1, <2>2, Replacing
<1> QED  BY <1>2, <1>3, <1>4 DEF NoAnswer

LEMMA UnlockedGoes ==
    ASSUME VaultInv, NEW c \in Client, Unlocked(c)
    PROVE  /\ client'[c] = Idle \/ GoesOn(client[c], client'[c])
           /\ \A d \in Client \ {c} : client'[d] = client[d]
<1>1. client[c] \in ClientState
  BY DEF VaultInv, TypeOK
<1>2. CASE End(c)
  BY <1>2, Ending
<1>3. CASE client' = [client EXCEPT ![c].at = "connect", ![c].key = 0]
  <2> DEFINE new == [client[c] EXCEPT !.at = "connect", !.key = 0]
  <2>1. GoesOn(client[c], new)
    BY <1>1 DEF GoesOn, ClientState
  <2>2. client' = [client EXCEPT ![c] = new]
    BY <1>3
  <2> HIDE DEF new
  <2> QED  BY <2>1, <2>2, Replacing
<1> QED  BY <1>2, <1>3 DEF Unlocked

\* A file written anew by its client.
LEMMA WritingGoes ==
    ASSUME VaultInv, NEW c \in Client, NEW w, w # "idle",
           client' = [client EXCEPT ![c].at = w, ![c].key = FreshKey]
    PROVE  /\ GoesOn(client[c], client'[c])
           /\ \A d \in Client \ {c} : client'[d] = client[d]
<1>1. client[c] \in ClientState
  BY DEF VaultInv, TypeOK
<1> DEFINE new == [client[c] EXCEPT !.at = w, !.key = FreshKey]
<1>2. GoesOn(client[c], new)
  BY <1>1 DEF GoesOn, ClientState
<1>3. client' = [client EXCEPT ![c] = new]
  OBVIOUS
<1> HIDE DEF new
<1> QED  BY <1>2, <1>3, Replacing

LEMMA ConnectGoes ==
    ASSUME VaultInv, NEW c \in Client, Connect(c)
    PROVE  /\ client'[c] = Idle \/ GoesOn(client[c], client'[c])
           /\ \A d \in Client \ {c} : client'[d] = client[d]
<1>1. client[c] \in ClientState
  BY DEF VaultInv, TypeOK
<1>2. CASE NoAnswer(c)
  BY <1>2, NoAnswerGoes
<1>3. CASE client' = [client EXCEPT ![c].at = "await", ![c].to = path]
  <2> DEFINE new == [client[c] EXCEPT !.at = "await", !.to = path]
  <2>1. GoesOn(client[c], new)
    BY <1>1 DEF GoesOn, ClientState
  <2>2. client' = [client EXCEPT ![c] = new]
    BY <1>3
  <2> HIDE DEF new
  <2> QED  BY <2>1, <2>2, Replacing
<1> QED  BY <1>2, <1>3 DEF Connect

LEMMA DeriveGoes ==
    ASSUME VaultInv, NEW c \in Client, Derive(c)
    PROVE  /\ client'[c] = Idle \/ GoesOn(client[c], client'[c])
           /\ \A d \in Client \ {c} : client'[d] = client[d]
<1>1. client[c] \in ClientState
  BY DEF VaultInv, TypeOK
<1>2. CASE End(c)
  BY <1>2, Ending
<1>3. CASE client' = [client EXCEPT ![c].at = "ping", ![c].key = file.key]
  <2> DEFINE new == [client[c] EXCEPT !.at = "ping", !.key = file.key]
  <2>1. GoesOn(client[c], new)
    BY <1>1 DEF GoesOn, ClientState
  <2>2. client' = [client EXCEPT ![c] = new]
    BY <1>3
  <2> HIDE DEF new
  <2> QED  BY <2>1, <2>2, Replacing
<1> QED  BY <1>2, <1>3 DEF Derive

LEMMA ChangeReadGoes ==
    ASSUME VaultInv, NEW c \in Client, ChangeRead(c)
    PROVE  /\ client'[c] = Idle \/ GoesOn(client[c], client'[c])
           /\ \A d \in Client \ {c} : client'[d] = client[d]
<1>1. client[c] \in ClientState
  BY DEF VaultInv, TypeOK
<1>2. CASE End(c)
  BY <1>2, Ending
<1>3. CASE client' = [client EXCEPT ![c].at = "changeWrite", ![c].copy = file.data]
  <2> DEFINE new == [client[c] EXCEPT !.at = "changeWrite", !.copy = file.data]
  <2>1. GoesOn(client[c], new)
    BY <1>1 DEF GoesOn, ClientState
  <2>2. client' = [client EXCEPT ![c] = new]
    BY <1>3
  <2> HIDE DEF new
  <2> QED  BY <2>1, <2>2, Replacing
<1> QED  BY <1>2, <1>3 DEF ChangeRead

\* The command of a client that takes a step, or is killed, goes on or is over.
LEMMA ClientGoes ==
    ASSUME VaultInv, NEW c \in Client, ClientStep(c) \/ KillClient(c)
    PROVE  /\ client'[c] = Idle \/ GoesOn(client[c], client'[c])
           /\ \A d \in Client \ {c} : client'[d] = client[d]
<1>1. CASE Connect(c) \/ Derive(c) \/ ChangeRead(c)
  BY <1>1, ConnectGoes, DeriveGoes, ChangeReadGoes
<1>2. CASE Unanswered(c)
  BY <1>2, NoAnswerGoes DEF Unanswered
<1>3. CASE Check(c) \/ Ping(c) \/ Poll(c) \/ Fork(c)
  <2>1. \/ End(c) \/ Unlocked(c) \/ Goto(c, "derive") \/ Goto(c, "fork") \/ Goto(c, "poll")
    BY <1>3 DEF Check, Ping, Poll, Fork
  <2> QED  BY <2>1, Ending, UnlockedGoes, Going
<1>4. CASE ChangeWrite(c) \/ SetupWrite(c)
  <2>1. \/ End(c)
        \/ client' = [client EXCEPT ![c].at = "connect", ![c].key = FreshKey]
        \/ client' = [client EXCEPT ![c].at = "ping", ![c].key = FreshKey]
    BY <1>4 DEF ChangeWrite, SetupWrite
  <2> QED  BY <2>1, Ending, WritingGoes
<1>5. CASE KillClient(c)
  BY <1>5, Ending DEF KillClient
<1> QED  BY <1>1, <1>2, <1>3, <1>4, <1>5 DEF ClientStep

\* A command begins: its client is busy with it from then on.
LEMMA BeginGoes ==
    ASSUME VaultInv, NEW c \in Client, Begin(c)
    PROVE  \E cmd \in CommandName, x \in Account : \E secret \in 0..MaxCommands :
             /\ client'[c].cmd = cmd /\ client'[c].account = x /\ client'[c].secret = secret
             /\ client'[c].at # "idle"
             /\ \A d \in Client \ {c} : client'[d] = client[d]
             /\ may' = IF cmd \in Updates THEN [may EXCEPT ![x] = @ \cup {secret}] ELSE may
<1> DEFINE secret(cmd) == IF cmd = "set" THEN commands + 1 ELSE 0
           new(cmd, x) == [Idle EXCEPT !.cmd = cmd, !.at = FirstStep(cmd), !.account = x,
                                       !.secret = secret(cmd)]
<1>1. PICK cmd \in CommandName, x \in Account :
         /\ client' = [client EXCEPT ![c] = new(cmd, x)]
         /\ may' = IF cmd \in Updates THEN [may EXCEPT ![x] = @ \cup {secret(cmd)}] ELSE may
  BY DEF Begin
<1>2. secret(cmd) \in 0..MaxCommands
  BY VaultAssumption DEF Begin, VaultInv, TypeOK
<1>3. FirstStep(cmd) # "idle"
  BY DEF FirstStep
<1>4. /\ new(cmd, x).cmd = cmd /\ new(cmd, x).account = x /\ new(cmd, x).secret = secret(cmd)
      /\ new(cmd, x).at # "idle"
  BY <1>3 DEF Idle
<1> HIDE DEF new, secret
<1>5. client'[c] = new(cmd, x) /\ \A d \in Client \ {c} : client'[d] = client[d]
  BY <1>1, Replacing
<1> QED  BY <1>1, <1>2, <1>4, <1>5

\* The client an agent answers is done, or goes on to start an agent.
LEMMA AnswerGoes ==
    ASSUME VaultInv, NEW a \in Agent, NEW c \in Client,
           client' = [client EXCEPT ![c] = IF @.cmd = "change" THEN [@ EXCEPT !.at = "ping", !.to = Nobody]
                                           ELSE Idle]
    PROVE  /\ IF client[c].cmd = "change" THEN GoesOn(client[c], client'[c]) ELSE client'[c] = Idle
           /\ \A d \in Client \ {c} : client'[d] = client[d]
<1>1. client[c] \in ClientState
  BY DEF VaultInv, TypeOK
<1>2. CASE client[c].cmd = "change"
  <2> DEFINE new == [client[c] EXCEPT !.at = "ping", !.to = Nobody]
  <2>1. GoesOn(client[c], new)
    BY <1>1 DEF GoesOn, ClientState
  <2>2. client' = [client EXCEPT ![c] = new]
    BY <1>2
  <2> HIDE DEF new
  <2> QED  BY <1>2, <2>1, <2>2, Replacing
<1>3. CASE client[c].cmd # "change"
  <2>1. client' = [client EXCEPT ![c] = Idle]
    BY <1>3
  <2> QED  BY <1>3, <2>1, Replacing
<1> QED  BY <1>2, <1>3

LEMMA AgentGoes ==
    ASSUME VaultInv, NEW a \in Agent, AgentStep(a) \/ KillAgent(a)
    PROVE  \/ UNCHANGED client
           \/ \E c \in Client :
                /\ client'[c] = Idle \/ GoesOn(client[c], client'[c])
                /\ \A d \in Client \ {c} : client'[d] = client[d]
<1>1. CASE UNCHANGED client
  BY <1>1
<1>2. CASE ~UNCHANGED client
  <2>1. PICK stop \in BOOLEAN, accepted \in BOOLEAN : Answer(a, stop, accepted) /\ agent[a].queue # << >>
    <3>1. CASE Handle(a)
      <4>1. Answer(a, Head(agent[a].queue).op = "lock", Opens(agent[a].key))
        BY <1>2, <3>1 DEF Handle
      <4> QED  BY <3>1, <4>1 DEF Handle, Opens
    <3>2. CASE Write(a)
      <4>1. agent[a].queue # << >>
        BY <3>2 DEF Write, VaultInv, Structure, WritesUpdate, MidUpdate
      <4> QED  BY <1>2, <3>2, <4>1 DEF Write
    <3>3. CASE Reply(a)
      <4>1. agent[a].queue # << >>
        BY <3>3 DEF Reply, VaultInv, Structure, WritesUpdate, MidUpdate
      <4> QED  BY <3>3, <4>1 DEF Reply
    <3> QED  BY <1>2, <3>1, <3>2, <3>3 DEF AgentStep, Bind, Expire, Finish, KillAgent
  <2> DEFINE r == Head(agent[a].queue)
  <2>2. r \in Request
    BY <2>1 DEF VaultInv, TypeOK, AgentState
  <2>3. r.from # Nobody
    BY <1>2, <2>1 DEF Answer
  <2>4. r.from \in Client
    BY <2>2, <2>3 DEF Request
  <2>5. client' = [client EXCEPT ![r.from] = IF @.cmd = "change" THEN [@ EXCEPT !.at = "ping", !.to = Nobody]
                                             ELSE Idle]
    BY <2>1, <2>3 DEF Answer
  <2> HIDE DEF r
  <2> QED  BY <2>4, <2>5, AnswerGoes
<1> QED  BY <1>1, <1>2

LEMMA RestsStep == VaultInv /\ IdleRests /\ [Next]_vars => IdleRests'
<1> SUFFICES ASSUME VaultInv, IdleRests, [Next]_vars PROVE IdleRests'
  OBVIOUS
<1>1. Idle.cmd = "none"
  BY DEF Idle
<1>2. ASSUME NEW c \in Client, client'[c] = Idle \/ GoesOn(client[c], client'[c]) \/ client'[c].at # "idle",
             \A d \in Client \ {c} : client'[d] = client[d]
      PROVE  IdleRests'
  BY <1>1, <1>2 DEF IdleRests, GoesOn
<1>3. CASE UNCHANGED client
  BY <1>3 DEF IdleRests
<1>4. ASSUME NEW c \in Client, Begin(c) PROVE IdleRests'
  BY <1>2, <1>4, BeginGoes
<1>5. ASSUME NEW c \in Client, ClientStep(c) \/ KillClient(c) PROVE IdleRests'
  BY <1>2, <1>5, ClientGoes
<1>6. ASSUME NEW a \in Agent, AgentStep(a) \/ KillAgent(a) PROVE IdleRests'
  BY <1>2, <1>3, <1>6, AgentGoes
<1> QED  BY <1>3, <1>4, <1>5, <1>6 DEF Next, vars

-----------------------------------------------------------------------------
(* What the mapping makes of a step *)

RegistersStep == [Registers!Next]_(Registers!vars)

\* Once the vault is disturbed, nothing is promised.
LEMMA DisturbedStep == ASSUME disturbed' = TRUE PROVE RegistersStep
BY DEF RegistersStep, Registers!Next, Registers!Disturbed

\* Updates given up are the same when the agents that have them, or will have, are.
LEMMA AdriftKept ==
    ASSUME \A a \in Agent : \A u : Stray(a, u)' <=> Stray(a, u),
           \A a \in Agent : Doomed(a)' <=> Doomed(a)
    PROVE  Adrift' = Adrift
BY DEF Adrift

\* Waiting behind others does not change who is first.
LEMMA HeadOfAppend ==
    ASSUME NEW S, NEW q \in Seq(S), q # << >>, NEW r
    PROVE  Head(Append(q, r)) = Head(q)
OBVIOUS

\* An agent that goes on has the same first request to answer, or none yet.
LEMMA DoomedKept ==
    ASSUME VaultInv, NEW a \in Agent, agent'[a].state = agent[a].state,
           \E r : agent'[a].queue \in {agent[a].queue, Append(agent[a].queue, r)}
    PROVE  Doomed(a)' <=> Doomed(a)
<1>1. CASE agent[a].state = "answering"
  <2>1. agent[a].queue \in Seq(Request) /\ agent[a].queue # << >>
    BY <1>1 DEF VaultInv, TypeOK, AgentState, Structure, WritesUpdate, MidUpdate
  <2>2. PICK r : agent'[a].queue \in {agent[a].queue, Append(agent[a].queue, r)}
    OBVIOUS
  <2>3. Head(Append(agent[a].queue, r)) = Head(agent[a].queue)
    BY <2>1, HeadOfAppend
  <2>4. Head(agent'[a].queue) = Head(agent[a].queue)
    BY <2>2, <2>3
  <2> QED  BY <2>4 DEF Doomed
<1>2. CASE agent[a].state # "answering"
  BY <1>2 DEF Doomed
<1> QED  BY <1>1, <1>2

LEMMA WantedKept ==
    ASSUME NEW c \in Client, GoesOn(client[c], client'[c])
    PROVE  Wanted(c)' = Wanted(c)
BY DEF GoesOn, Wanted

\* A client's command goes on or is over, and nothing else is seen of the step but that its
\* update may be left behind.
LEMMA GivesUp ==
    ASSUME NEW c \in Client,
           client'[c] = Idle \/ GoesOn(client[c], client'[c]),
           \A d \in Client \ {c} : client'[d] = client[d],
           UNCHANGED <<file, may, disturbed>>,
           Adrift' = Adrift \/ (client'[c] = Idle /\ Adrift' \in {Adrift \cup Wanted(c), {}})
    PROVE  RegistersStep
<1>1. Key' = Key /\ OnDisk' = OnDisk
  BY DEF Key, OnDisk
<1>2. \A d \in Client \ {c} : Wanted(d)' = Wanted(d)
  BY DEF Wanted
<1>3. CASE client'[c] = Idle
  <2>1. Wanted(c)' = {}
    BY <1>3 DEF Wanted, Idle, Updates
  <2>2. Asking' = [Asking EXCEPT ![c] = {}]
    BY <1>2, <2>1 DEF Asking
  <2>3. Asking[c] = Wanted(c)
    BY DEF Asking
  <2>4. Registers!GiveUp(c)
    BY <1>1, <2>2, <2>3 DEF Registers!GiveUp
  <2> QED  BY <2>4 DEF RegistersStep, Registers!Next
<1>4. CASE GoesOn(client[c], client'[c]) /\ Adrift' = Adrift
  <2>1. Wanted(c)' = Wanted(c)
    BY <1>4, WantedKept
  <2>2. Asking' = Asking
    BY <1>2, <2>1 DEF Asking
  <2> QED  BY <1>1, <1>4, <2>2 DEF RegistersStep, Registers!vars
<1> QED  BY <1>3, <1>4

-----------------------------------------------------------------------------
(* Clients, seen as users of the registers *)

\* Asking whether an agent runs leaves no update behind.
LEMMA QuietAdrift ==
    ASSUME VaultInv, Quiet, UNCHANGED file
    PROVE  Adrift' = Adrift
<1>0. \A a \in Agent : Doomed(a)' <=> Doomed(a)
  <2> SUFFICES ASSUME NEW a \in Agent PROVE Doomed(a)' <=> Doomed(a)
    OBVIOUS
  <2>1. /\ agent'[a].state = agent[a].state
        /\ \E r : agent'[a].queue \in {agent[a].queue, Append(agent[a].queue, r)}
    BY DEF Quiet
  <2> QED  BY <2>1, DoomedKept
<1> SUFFICES ASSUME NEW a \in Agent, NEW u PROVE Stray(a, u)' <=> Stray(a, u)
  BY <1>0, AdriftKept
<1>1. CASE agent'[a] = agent[a]
  BY <1>1 DEF Stray, Opens
<1>2. CASE /\ agent'[a].state = agent[a].state /\ agent'[a].key = agent[a].key
           /\ agent'[a].queue = Append(agent[a].queue, PingRequest)
  <2> DEFINE q == agent[a].queue
  <2>1. q \in Seq(Request)
    BY DEF VaultInv, TypeOK, AgentState
  <2>2. /\ DOMAIN Append(q, PingRequest) = DOMAIN q \cup {Len(q) + 1}
        /\ \A i \in DOMAIN q : Append(q, PingRequest)[i] = q[i]
        /\ Append(q, PingRequest)[Len(q) + 1] = PingRequest
    BY <2>1
  <2>3. PingRequest.op \notin Updates
    BY DEF PingRequest, Updates
  <2> HIDE DEF PingRequest
  <2> QED  BY <1>2, <2>2, <2>3 DEF Stray, Opens
<1> QED  BY <1>1, <1>2 DEF Quiet

\* Steps in which a client asks for an agent, prompts, reads, or does not write after all.
LEMMA QuietAsRegisters ==
    ASSUME VaultInv, NEW c \in Client, ClientStep(c), Quiet,
           UNCHANGED <<file, may, disturbed>>
    PROVE  RegistersStep
<1>1. Adrift' = Adrift
  BY QuietAdrift
<1> QED  BY ONLY VaultInv, c \in Client, ClientStep(c), UNCHANGED <<file, may, disturbed>>, <1>1,
         ClientGoes, GivesUp

\* A request that waits for its answer is not given up.
LEMMA SentAsRegisters ==
    ASSUME VaultInv, NEW c \in Client, Connect(c), ~Refused,
           UNCHANGED <<file, may, disturbed>>
    PROVE  RegistersStep
<1> DEFINE r == [from |-> c, account |-> client[c].account, secret |-> client[c].secret,
                 op |-> IF client[c].cmd \in Requests THEN client[c].cmd ELSE "lock"]
           q == agent[path].queue
<1>1. path \in Agent /\ q \in Seq(Request)
  BY DEF Refused, Reachable, VaultInv, TypeOK, AgentState
<1>2. agent' = [agent EXCEPT ![path].queue = Append(q, r)]
  BY DEF Connect
<1>3. r.from # Nobody
  BY VaultAssumption
<1> HIDE DEF r
<1>4. /\ agent'[path].state = agent[path].state /\ agent'[path].key = agent[path].key
      /\ agent'[path].queue = Append(q, r)
      /\ \A b \in Agent \ {path} : agent'[b] = agent[b]
  BY <1>1, <1>2 DEF VaultInv, TypeOK, AgentState
<1>5. /\ DOMAIN Append(q, r) = DOMAIN q \cup {Len(q) + 1}
      /\ \A i \in DOMAIN q : Append(q, r)[i] = q[i]
      /\ Append(q, r)[Len(q) + 1] = r
  BY <1>1
<1>6. ASSUME NEW a \in Agent, NEW u PROVE Stray(a, u)' <=> Stray(a, u)
  <2> DEFINE Fits(m) == m.from = Nobody /\ m.op \in Updates
                        /\ u = [account |-> m.account, secret |-> m.secret]
  <2>1. CASE a = path
    <3>1. (\E i \in DOMAIN Append(q, r) : Fits(Append(q, r)[i])) <=> \E i \in DOMAIN q : Fits(q[i])
      <4>1. ~Fits(r)
        BY <1>3
      <4> HIDE DEF Fits, q
      <4> QED  BY ONLY <1>5, <4>1
    <3>2. agent'[a].state = agent[a].state /\ agent'[a].queue = Append(q, r) /\ agent[a].queue = q
      BY <1>4, <2>1
    <3>3. Opens(agent[a].key)' <=> Opens(agent[a].key)
      BY <1>4, <2>1 DEF Opens
    <3>4. Stray(a, u)' <=>
             /\ agent[a].state \in Serving /\ Opens(agent[a].key)
             /\ \E i \in DOMAIN Append(q, r) : Fits(Append(q, r)[i])
      BY ONLY <3>2, <3>3 DEF Stray
    <3>5. Stray(a, u) <=>
             /\ agent[a].state \in Serving /\ Opens(agent[a].key)
             /\ \E i \in DOMAIN q : Fits(q[i])
      BY ONLY <3>2 DEF Stray
    <3> HIDE DEF Fits, q
    <3> QED  BY ONLY <3>1, <3>4, <3>5
  <2>2. CASE a # path
    <3>1. agent'[a] = agent[a]
      BY <1>4, <2>2
    <3>2. Opens(agent[a].key)' <=> Opens(agent[a].key)
      BY <3>1 DEF Opens
    <3> QED  BY ONLY <3>1, <3>2 DEF Stray
  <2> QED  BY <2>1, <2>2
<1>7. Adrift' = Adrift
  <2>1. ASSUME NEW a \in Agent PROVE Doomed(a)' <=> Doomed(a)
    <3>1. /\ agent'[a].state = agent[a].state
          /\ \E m : agent'[a].queue \in {agent[a].queue, Append(agent[a].queue, m)}
      BY <1>4
    <3> QED  BY ONLY VaultInv, a \in Agent, <3>1, DoomedKept
  <2> QED  BY <1>6, <2>1, AdriftKept
<1>8. /\ client'[c] = Idle \/ GoesOn(client[c], client'[c])
      /\ \A d \in Client \ {c} : client'[d] = client[d]
  BY ConnectGoes
<1> QED  BY ONLY c \in Client, UNCHANGED <<file, may, disturbed>>, <1>7, <1>8, GivesUp

LEMMA ForkAsRegisters ==
    ASSUME VaultInv, NEW c \in Client, Fork(c)
    PROVE  RegistersStep
<1>1. UNCHANGED <<file, may, disturbed>>
  BY DEF Fork
<1>2. CASE UNCHANGED agent
  <2>1. \A a \in Agent : \A u : Stray(a, u)' <=> Stray(a, u)
    BY <1>1, <1>2 DEF Stray, Opens
  <2>2. Adrift' = Adrift
    BY <1>2, <2>1, AdriftKept DEF Doomed
  <2>3. ClientStep(c)
    BY DEF ClientStep
  <2> QED  BY ONLY VaultInv, c \in Client, <1>1, <2>2, <2>3, ClientGoes, GivesUp
<1>3. CASE ~UNCHANGED agent
  <2> DEFINE new == [Gone EXCEPT !.state = "up", !.key = client[c].key]
  <2>1. PICK b \in Agent : Fresh(b) /\ agent' = [agent EXCEPT ![b] = new]
    BY <1>3 DEF Fork
  <2>2. new.state = "up"
    BY DEF Gone
  <2> HIDE DEF new
  <2>3. agent'[b] = new /\ \A a \in Agent \ {b} : agent'[a] = agent[a]
    BY <2>1 DEF VaultInv, TypeOK
  <2>4. ASSUME NEW a \in Agent, NEW u PROVE Stray(a, u)' <=> Stray(a, u)
    <3>1. CASE a = b
      BY <2>1, <2>2, <2>3, <3>1 DEF Stray, Fresh, MidUpdate, Serving
    <3>2. CASE a # b
      BY <1>1, <2>3, <3>2 DEF Stray, Opens
    <3> QED  BY <3>1, <3>2
  <2>5. Adrift' = Adrift
    <3>1. \A a \in Agent : Doomed(a)' <=> Doomed(a)
      BY <2>1, <2>2, <2>3 DEF Doomed, Fresh
    <3> QED  BY <2>4, <3>1, AdriftKept
  <2>6. ClientStep(c)
    BY DEF ClientStep
  <2> QED  BY ONLY VaultInv, c \in Client, <1>1, <2>5, <2>6, ClientGoes, GivesUp
<1> QED  BY <1>2, <1>3

\* A killed client leaves the update behind that it waits for, if its agent has the request;
\* when the update is in the file already, the agent serves nothing more.
LEMMA AbandonAdrift ==
    ASSUME VaultInv, ~disturbed, NEW c \in Client, client[c].at = "await",
           agent' = Abandon(c, client[c].to), UNCHANGED file
    PROVE  Adrift' \in {Adrift, Adrift \cup Wanted(c), {}}
<1>0. PICK to \in Agent : to = client[c].to
  BY MovesTyped DEF Sound
<1> DEFINE q == agent[to].queue
           left == [i \in DOMAIN q |-> IF q[i].from = c THEN [q[i] EXCEPT !.from = Nobody] ELSE q[i]]
           u0 == [account |-> client[c].account, secret |-> client[c].secret]
<1>1. /\ to \in Agent /\ q \in Seq(Request) /\ c # Nobody /\ client[c] \in ClientState
      /\ agent \in [Agent -> AgentState]
  BY <1>0, MovesTyped, VaultAssumption DEF VaultInv, TypeOK, AgentState
<1>2. agent' = [agent EXCEPT ![to].queue = left]
  BY <1>0 DEF Abandon
<1>3. \A i \in DOMAIN q :
         /\ left[i].op = q[i].op /\ left[i].secret = q[i].secret /\ left[i].account = q[i].account
         /\ left[i].from = IF q[i].from = c THEN Nobody ELSE q[i].from
  <2> SUFFICES ASSUME NEW i \in DOMAIN q
               PROVE  /\ left[i].op = q[i].op /\ left[i].secret = q[i].secret
                      /\ left[i].account = q[i].account
                      /\ left[i].from = IF q[i].from = c THEN Nobody ELSE q[i].from
    OBVIOUS
  <2>1. q[i] \in Request
    <3> HIDE DEF q
    <3> QED  BY <1>1
  <2>2. left[i] = IF q[i].from = c THEN [q[i] EXCEPT !.from = Nobody] ELSE q[i]
    OBVIOUS
  <2> HIDE DEF q, left
  <2> QED  BY <2>1, <2>2 DEF Request
<1>4. DOMAIN left = DOMAIN q
  OBVIOUS
<1> HIDE DEF left
<1>5. /\ agent'[to].state = agent[to].state /\ agent'[to].key = agent[to].key /\ agent'[to].queue = left
      /\ \A b \in Agent \ {to} : agent'[b] = agent[b]
  BY <1>1, <1>2 DEF AgentState
<1>6. ASSUME NEW a \in Agent, a # to, NEW u PROVE Stray(a, u)' <=> Stray(a, u)
  BY <1>5, <1>6 DEF Stray, Opens
<1> DEFINE Taken == /\ agent[to].state \in Serving /\ Opens(agent[to].key)
                    /\ client[c].cmd \in Updates
                    /\ \E i \in DOMAIN q : q[i].from = c
<1>7. ASSUME agent[to].state \in Serving, NEW i \in DOMAIN q, q[i].from = c
      PROVE  /\ q[i].account = client[c].account /\ q[i].secret = client[c].secret
             /\ q[i].op \in Updates <=> client[c].cmd \in Updates
  <2>1. Queued(q, to, client, may)
    BY <1>1, <1>7 DEF VaultInv, Structure, QueuesKept
  <2>2. AskedBy(q[i], to, client[c])
    <3> HIDE DEF q
    <3> QED  BY <1>1, <1>7, <2>1 DEF Queued
  <2> QED  BY <2>2 DEF AskedBy, Requests, Updates
<1>8. ASSUME NEW u PROVE Stray(to, u)' <=> Stray(to, u) \/ (Taken /\ u = u0)
  <2> HIDE DEF q, u0
  <2>1. ASSUME Stray(to, u)' PROVE Stray(to, u) \/ (Taken /\ u = u0)
    <3>1. agent[to].state \in Serving /\ Opens(agent[to].key)
      BY <1>5, <2>1 DEF Stray, Opens
    <3>2. PICK i \in DOMAIN left : /\ left[i].from = Nobody /\ left[i].op \in Updates
                                   /\ u = [account |-> left[i].account, secret |-> left[i].secret]
      BY <1>5, <2>1 DEF Stray
    <3>3. i \in DOMAIN q /\ q[i].op \in Updates
          /\ u = [account |-> q[i].account, secret |-> q[i].secret]
      BY <1>3, <1>4, <3>2
    <3>4. CASE q[i].from = c
      <4>1. client[c].cmd \in Updates /\ u = u0
        BY <1>7, <3>1, <3>3, <3>4 DEF u0
      <4> QED  BY <3>1, <3>3, <3>4, <4>1
    <3>5. CASE q[i].from # c
      BY <1>3, <3>1, <3>2, <3>3, <3>5 DEF Stray, q
    <3> QED  BY <3>4, <3>5
  <2>2. ASSUME Stray(to, u) PROVE Stray(to, u)'
    <3>1. PICK i \in DOMAIN q : /\ q[i].from = Nobody /\ q[i].op \in Updates
                                /\ u = [account |-> q[i].account, secret |-> q[i].secret]
      BY <2>2 DEF Stray, q
    <3>2. i \in DOMAIN left /\ left[i].from = Nobody /\ left[i].op \in Updates
          /\ u = [account |-> left[i].account, secret |-> left[i].secret]
      BY <1>3, <1>4, <3>1
    <3> QED  BY <1>5, <2>2, <3>2 DEF Stray, Opens
  <2>3. ASSUME Taken, u = u0 PROVE Stray(to, u)'
    <3>1. PICK i \in DOMAIN q : q[i].from = c
      BY <2>3
    <3>2. i \in DOMAIN left /\ left[i].from = Nobody /\ left[i].op \in Updates
          /\ u = [account |-> left[i].account, secret |-> left[i].secret]
      BY <1>3, <1>4, <1>7, <2>3, <3>1 DEF u0
    <3> QED  BY <1>5, <2>3, <3>2 DEF Stray, Opens
  <2> QED  BY <2>1, <2>2, <2>3
<1>9. \A a \in Agent \ {to} : Doomed(a)' <=> Doomed(a)
  BY <1>5 DEF Doomed
<1>10. Doomed(to) => Doomed(to)'
  <2> HIDE DEF q
  <2>1. ASSUME agent[to].state = "answering" PROVE q # << >> /\ Head(q) = q[1] /\ Head(left) = left[1] /\ 1 \in DOMAIN q
    <3>1. q # << >>
      BY <1>1, <2>1 DEF q, VaultInv, Structure, WritesUpdate, MidUpdate
    <3> QED  BY <1>1, <1>4, <3>1
  <2>2. ASSUME Doomed(to) PROVE Doomed(to)'
    <3>1. agent[to].state = "answering" /\ Head(q).from = Nobody
      BY <2>2 DEF Doomed, q
    <3>2. Head(left).from = Nobody
      BY <1>3, <2>1, <3>1
    <3> QED  BY <1>5, <3>1, <3>2 DEF Doomed
  <2> QED  BY <2>2
<1>11. CASE Doomed(to)'
  <2>1. agent[to].state \in Alive
    BY <1>5, <1>11 DEF Doomed, Alive, MidUpdate, Serving
  <2>2. \A b \in Agent \ {to} : agent'[b].state \notin Serving
    BY <1>1, <1>5, <2>1 DEF VaultInv, Calm, OneAlive, Alive
  <2>3. \A b \in Agent : \A u : ~(Stray(b, u)' /\ ~Doomed(b)')
    BY <1>11, <2>2 DEF Stray
  <2> QED  BY <2>3 DEF Adrift
<1>12. CASE ~Doomed(to)' /\ ~Taken
  <2>1. \A a \in Agent : \A u : Stray(a, u)' <=> Stray(a, u)
    BY <1>6, <1>8, <1>12
  <2>2. \A a \in Agent : Doomed(a)' <=> Doomed(a)
    BY <1>9, <1>10, <1>12
  <2> QED  BY <2>1, <2>2, AdriftKept
<1>13. CASE ~Doomed(to)' /\ Taken
  <2>1. Wanted(c) = {u0}
    BY <1>13 DEF Wanted
  <2>2. u0 \in [account: Account, secret: 0..MaxCommands]
    BY <1>1 DEF ClientState
  <2> HIDE DEF Taken, u0
  <2>3. ~Doomed(to) /\ ~Doomed(to)'
    BY <1>10, <1>13
  <2>4. \A u : (\E a \in Agent : Stray(a, u)' /\ ~Doomed(a)')
                 <=> (\E a \in Agent : Stray(a, u) /\ ~Doomed(a)) \/ u = u0
    BY <1>1, <1>6, <1>8, <1>9, <1>13, <2>3
  <2>5. Adrift' = Adrift \cup {u0}
    BY <2>2, <2>4 DEF Adrift
  <2> QED  BY <2>1, <2>5
<1> QED  BY <1>11, <1>12, <1>13

LEMMA KillAsRegisters ==
    ASSUME VaultInv, ~disturbed, NEW c \in Client, KillClient(c), UNCHANGED disturbed
    PROVE  RegistersStep
<1>1. UNCHANGED <<file, may, disturbed>> /\ End(c)
  BY DEF KillClient
<1>2. client'[c] = Idle /\ \A d \in Client \ {c} : client'[d] = client[d]
  BY <1>1, Ending
<1>3. Adrift' \in {Adrift, Adrift \cup Wanted(c), {}}
  <2>1. CASE client[c].at = "await"
    <3>1. agent' = Abandon(c, client[c].to)
      BY <2>1 DEF KillClient
    <3> QED  BY <1>1, <2>1, <3>1, AbandonAdrift
  <2>2. CASE client[c].at # "await"
    <3>1. \A a \in Agent : \A u : Stray(a, u)' <=> Stray(a, u)
      BY <1>1, <2>2 DEF KillClient, Stray, Opens
    <3>2. \A a \in Agent : Doomed(a)' <=> Doomed(a)
      BY <2>2 DEF KillClient, Doomed
    <3> QED  BY <3>1, <3>2, AdriftKept
  <2> QED  BY <2>1, <2>2
<1> QED  BY ONLY c \in Client, <1>1, <1>2, <1>3, GivesUp

LEMMA Undisturbed ==
    ASSUME NEW cond \in BOOLEAN, Disturb(cond), ~disturbed'
    PROVE  ~cond
BY DEF Disturb

\* A request that is refused or not answered leaves nothing behind, unless an agent stalls.
LEMMA UnheardAsRegisters ==
    ASSUME VaultInv, NEW c \in Client, Unanswered(c) \/ (Connect(c) /\ Refused),
           ~disturbed, UNCHANGED disturbed
    PROVE  RegistersStep
<1>1. UNCHANGED <<file, may, disturbed>> /\ ClientStep(c)
  BY DEF Unanswered, Connect, ClientStep
<1>2. UNCHANGED agent
  <2>1. CASE Connect(c) /\ Refused
    BY <2>1 DEF Connect
  <2>2. CASE Unanswered(c)
    <3>1. ~SomeAlive
      <4>1. Disturb(SomeAlive \/ (Contended(c) /\ client'[c].at \in Starting)) /\ ~disturbed'
        BY <2>2 DEF Unanswered
      <4> QED  BY ONLY <4>1, Undisturbed
    <3>2. client[c].to \in Agent
      BY <2>2, MovesTyped DEF Unanswered, Sound
    <3>3. agent[client[c].to].state \notin Serving
      BY <3>1, <3>2 DEF SomeAlive, Alive
    <3> QED  BY <2>2, <3>3 DEF Unanswered
  <2> QED  BY <2>1, <2>2
<1>3. Quiet
  BY <1>2 DEF Quiet
<1> QED  BY <1>1, <1>3, QuietAsRegisters

\* A file under a new key: no request that was given up is served from then on.
LEMMA RewriteAsRegisters ==
    ASSUME VaultInv, NEW c \in Client, ClientStep(c),
           ~disturbed, UNCHANGED <<agent, may, disturbed>>,
           NEW data, data = OnDisk, file' = [key |-> FreshKey, data |-> data],
           GoesOn(client[c], client'[c])
    PROVE  RegistersStep
<1>1. newest \in Nat /\ (file # Nobody => file.key = newest)
      /\ file \in {Nobody} \cup [key: 1..newest, data: Data]
      /\ \A a \in Agent : agent[a].key \in 0..newest
  BY DEF VaultInv, TypeOK, AgentState, Calm, NewestKey
<1>2. OnDisk \in Data
  BY <1>1, VaultAssumption DEF OnDisk, Data
<1>3. file'.key = newest + 1 /\ file'.data = data
  BY DEF FreshKey
<1>4. [key |-> FreshKey, data |-> data] \in [key: Nat, data: Data]
  BY <1>1, <1>2 DEF FreshKey
<1>5. file' # Nobody
  BY <1>4, VaultAssumption DEF Data
<1>6. Key' > Key
  BY <1>1, <1>3, <1>5 DEF Key
<1>7. OnDisk' = OnDisk
  <2>1. OnDisk' = [x \in Account |-> data[x]]
    BY <1>3, <1>5 DEF OnDisk
  <2> QED  BY <1>2, <2>1 DEF Data
<1>8. \A a \in Agent : \A u : ~Stray(a, u)'
  <2> SUFFICES ASSUME NEW a \in Agent PROVE ~Opens(agent[a].key)'
    BY DEF Stray
  <2>1. agent[a].key # file'.key
    BY <1>1, <1>3
  <2> QED  BY <2>1 DEF Opens
<1>9. Adrift' = {}
  BY <1>8 DEF Adrift
<1>10. Asking' = Asking
  <2>1. \A d \in Client \ {c} : client'[d] = client[d]
    BY ClientGoes
  <2>2. \A d \in Client \ {c} : Wanted(d)' = Wanted(d)
    BY <2>1 DEF Wanted
  <2>3. Wanted(c)' = Wanted(c)
    BY WantedKept
  <2> QED  BY <2>2, <2>3 DEF Asking
<1>11. Registers!Rekey
  BY <1>6, <1>7, <1>9, <1>10 DEF Registers!Rekey
<1> QED  BY <1>11 DEF RegistersStep, Registers!Next

LEMMA ChangeWriteAsRegisters ==
    ASSUME VaultInv, NEW c \in Client, ChangeWrite(c), ~disturbed, UNCHANGED disturbed
    PROVE  RegistersStep
<1>1. ClientStep(c) /\ UNCHANGED <<agent, may, disturbed>>
  BY DEF ClientStep, ChangeWrite
<1>2. CASE UNCHANGED file
  BY <1>1, <1>2, QuietAsRegisters DEF Quiet
<1>3. CASE /\ file' = [key |-> FreshKey, data |-> client[c].copy]
           /\ client' = [client EXCEPT ![c].at = "connect", ![c].key = FreshKey]
  <2>1. client[c].at = "changeWrite"
    BY DEF ChangeWrite
  <2>2. client[c].copy = file.data /\ file # Nobody
    BY <2>1, MovesTyped DEF VaultInv, Calm, CopyCurrent, Sound
  <2>3. file.data \in Data
    BY <2>2 DEF VaultInv, TypeOK
  <2>4. client[c].copy = OnDisk
    BY <2>2, <2>3 DEF OnDisk, Data
  <2>5. GoesOn(client[c], client'[c])
    BY <1>3, WritingGoes
  <2> QED  BY <1>1, <1>3, <2>4, <2>5, RewriteAsRegisters
<1> QED  BY <1>2, <1>3 DEF ChangeWrite

LEMMA SetupWriteAsRegisters ==
    ASSUME VaultInv, NEW c \in Client, SetupWrite(c), ~disturbed, UNCHANGED disturbed
    PROVE  RegistersStep
<1>1. ClientStep(c) /\ UNCHANGED <<agent, may, disturbed>>
  BY DEF ClientStep, SetupWrite
<1>2. CASE UNCHANGED file
  BY <1>1, <1>2, QuietAsRegisters DEF Quiet
<1>3. CASE /\ file' = [key |-> FreshKey, data |-> [x \in Account |-> 0]]
           /\ client' = [client EXCEPT ![c].at = "ping", ![c].key = FreshKey]
           /\ Disturb(Contended(c) \/ file # Nobody)
  <2>1. file = Nobody
    <3>1. Disturb(Contended(c) \/ file # Nobody) /\ ~disturbed'
      BY <1>3
    <3> QED  BY ONLY <3>1, Undisturbed
  <2>2. [x \in Account |-> 0] = OnDisk
    BY <2>1 DEF OnDisk
  <2>3. GoesOn(client[c], client'[c])
    BY <1>3, WritingGoes
  <2> QED  BY <1>1, <1>3, <2>2, <2>3, RewriteAsRegisters
<1> QED  BY <1>2, <1>3 DEF SetupWrite

\* A command that changes a secret asks for that, the others for nothing.
LEMMA BeginAsRegisters ==
    ASSUME VaultInv, IdleRests, NEW c \in Client, Begin(c), UNCHANGED disturbed
    PROVE  RegistersStep
<1>1. PICK cmd \in CommandName, x \in Account, secret \in 0..MaxCommands :
             /\ client'[c].cmd = cmd /\ client'[c].account = x /\ client'[c].secret = secret
             /\ \A d \in Client \ {c} : client'[d] = client[d]
             /\ may' = IF cmd \in Updates THEN [may EXCEPT ![x] = @ \cup {secret}] ELSE may
  BY BeginGoes
<1>2. UNCHANGED <<file, agent>> /\ client[c].at = "idle"
  BY DEF Begin
<1>3. Key' = Key /\ OnDisk' = OnDisk
  BY <1>2 DEF Key, OnDisk
<1>4. \A a \in Agent : \A u : Stray(a, u)' <=> Stray(a, u)
  BY <1>2 DEF Stray, Opens
<1>5. Adrift' = Adrift
  BY <1>2, <1>4, AdriftKept DEF Doomed
<1>6. Wanted(c) = {}
  BY <1>2 DEF IdleRests, Wanted, Updates
<1>7. \A d \in Client \ {c} : Wanted(d)' = Wanted(d)
  BY <1>1 DEF Wanted
<1>8. CASE cmd \in Updates
  <2> DEFINE u == [account |-> x, secret |-> secret]
  <2>1. u \in Registers!Update /\ u.account = x /\ u.secret = secret
    BY DEF Registers!Update
  <2>2. Wanted(c)' = {u}
    BY <1>1, <1>8 DEF Wanted
  <2>3. Asking[c] = {}
    BY <1>6 DEF Asking
  <2> HIDE DEF u
  <2>4. Asking' = [Asking EXCEPT ![c] = {u}]
    BY <1>7, <2>2 DEF Asking
  <2>5. may' = [may EXCEPT ![u.account] = @ \cup {u.secret}]
    BY <1>1, <1>8, <2>1
  <2>6. Registers!Ask(c, u)
    BY <1>3, <1>5, <2>3, <2>4, <2>5 DEF Registers!Ask
  <2> QED  BY <2>1, <2>6 DEF RegistersStep, Registers!Next
<1>9. CASE cmd \notin Updates
  <2>1. Wanted(c)' = {}
    BY <1>1, <1>9 DEF Wanted
  <2>2. Asking' = Asking
    BY <1>6, <1>7, <2>1 DEF Asking
  <2>3. may' = may
    BY <1>1, <1>9
  <2> QED  BY <1>3, <1>5, <2>2, <2>3 DEF RegistersStep, Registers!vars
<1> QED  BY <1>8, <1>9

LEMMA ClientAsRegisters ==
    ASSUME VaultInv, IdleRests, NEW c \in Client, Begin(c) \/ ClientStep(c) \/ KillClient(c),
           ~disturbed, UNCHANGED disturbed
    PROVE  RegistersStep
<1>1. CASE Begin(c)
  BY <1>1, BeginAsRegisters
<1>2. CASE Connect(c)
  <2>1. CASE ~Refused
    <3>1. UNCHANGED <<file, may, disturbed>>
      BY <1>2 DEF Connect
    <3> QED  BY <1>2, <2>1, <3>1, SentAsRegisters
  <2> QED  BY <1>2, <2>1, UnheardAsRegisters
<1>3. CASE Check(c) \/ Ping(c) \/ Poll(c)
  <2>1. UNCHANGED <<file, may, disturbed>> /\ (PingLost \/ UNCHANGED agent) /\ ClientStep(c)
    BY <1>3 DEF Check, Ping, Poll, ClientStep
  <2>2. Quiet
    BY <2>1, PingLostQuiet DEF VaultInv
  <2> QED  BY <2>1, <2>2, QuietAsRegisters
<1>4. CASE Derive(c) \/ ChangeRead(c)
  <2>1. UNCHANGED <<file, may, disturbed, agent>> /\ ClientStep(c)
    BY <1>4 DEF Derive, ChangeRead, ClientStep
  <2>2. Quiet
    BY <2>1 DEF Quiet
  <2> QED  BY <2>1, <2>2, QuietAsRegisters
<1>5. CASE Unanswered(c) \/ Fork(c) \/ ChangeWrite(c) \/ SetupWrite(c) \/ KillClient(c)
  BY <1>5, UnheardAsRegisters, ForkAsRegisters, ChangeWriteAsRegisters, SetupWriteAsRegisters,
     KillAsRegisters
<1> QED  BY <1>1, <1>2, <1>3, <1>4, <1>5 DEF ClientStep

-----------------------------------------------------------------------------
(* Agents, seen as what serves the registers *)

\* The only agent ends or serves no more: nothing that was given up can take effect.
LEMMA NoneAdrift ==
    ASSUME VaultInv, ~disturbed, NEW a \in Agent, agent[a].state \in Alive,
           \A b \in Agent \ {a} : agent'[b] = agent[b], agent'[a].state \notin Serving
    PROVE  Adrift' = {}
<1>1. \A b \in Agent \ {a} : agent[b].state \notin Alive
  BY DEF VaultInv, Calm, OneAlive
<1>2. \A b \in Agent : agent'[b].state \notin Serving
  BY <1>1 DEF Alive
<1> QED  BY <1>2 DEF Adrift, Stray

LEMMA LeavesAsRegisters ==
    ASSUME VaultInv, ~disturbed, NEW a \in Agent, agent[a].state \in Alive,
           NEW new, agent' = [agent EXCEPT ![a] = new], new.state \notin Serving,
           UNCHANGED <<file, client, may, disturbed>>
    PROVE  RegistersStep
<1>1. agent'[a] = new /\ \A b \in Agent \ {a} : agent'[b] = agent[b]
  BY DEF VaultInv, TypeOK
<1>2. Adrift' = {}
  BY <1>1, NoneAdrift
<1>3. Key' = Key /\ OnDisk' = OnDisk /\ Asking' = Asking
  BY DEF Key, OnDisk, Asking, Wanted
<1>4. Registers!Forget
  BY <1>2, <1>3 DEF Registers!Forget
<1> QED  BY <1>4 DEF RegistersStep, Registers!Next

\* An agent binds its socket, ends, or begins to write.
LEMMA AgentMovesAsRegisters ==
    ASSUME VaultInv, ~disturbed, NEW a \in Agent,
           Bind(a) \/ Expire(a) \/ Finish(a) \/ KillAgent(a), UNCHANGED disturbed
    PROVE  RegistersStep
<1>1. UNCHANGED <<file, client, may, disturbed>> /\ agent[a].state \in Alive /\ agent[a] \in AgentState
  BY DEF Bind, Expire, Finish, KillAgent, Alive, MidUpdate, Serving, VaultInv, TypeOK
<1>2. CASE agent' = [agent EXCEPT ![a].state = "ready"] /\ agent[a].state = "up"
  <2>1. /\ agent'[a].state = "ready" /\ agent'[a].queue = << >>
        /\ \A b \in Agent \ {a} : agent'[b] = agent[b]
    BY <1>1, <1>2 DEF VaultInv, TypeOK, AgentState, Structure, AgentsOpened
  <2>2. ASSUME NEW b \in Agent, NEW u PROVE Stray(b, u)' <=> Stray(b, u)
    BY <1>1, <1>2, <2>1 DEF Stray, Opens, MidUpdate, Serving
  <2>3. Adrift' = Adrift
    <3>1. \A b \in Agent : Doomed(b)' <=> Doomed(b)
      BY <1>2, <2>1 DEF Doomed
    <3> QED  BY <2>2, <3>1, AdriftKept
  <2>4. Key' = Key /\ OnDisk' = OnDisk /\ Asking' = Asking
    BY <1>1 DEF Key, OnDisk, Asking, Wanted
  <2> QED  BY <1>1, <2>3, <2>4 DEF RegistersStep, Registers!vars
<1>3. CASE agent' = [agent EXCEPT ![a].state = "closing"]
  <2> DEFINE new == [agent[a] EXCEPT !.state = "closing"]
  <2>1. new.state \notin Serving /\ agent' = [agent EXCEPT ![a] = new]
    BY <1>1, <1>3 DEF AgentState, MidUpdate, Serving
  <2> HIDE DEF new
  <2> QED  BY <1>1, <2>1, LeavesAsRegisters
<1>4. CASE agent' = [agent EXCEPT ![a] = Gone]
  <2>1. Gone.state \notin Serving
    BY DEF Gone, MidUpdate, Serving
  <2> QED  BY <1>1, <1>4, <2>1, LeavesAsRegisters
<1> QED  BY <1>2, <1>3, <1>4 DEF Bind, Expire, Finish, KillAgent

LEMMA BeginsWriteAsRegisters ==
    ASSUME VaultInv, NEW a \in Agent, agent[a].state = "ready", NEW copy,
           agent' = [agent EXCEPT ![a].state = "writing", ![a].copy = copy],
           UNCHANGED <<file, client, may, disturbed>>
    PROVE  RegistersStep
<1>1. agent[a] \in AgentState
  BY DEF VaultInv, TypeOK
<1> DEFINE new == [agent[a] EXCEPT !.state = "writing", !.copy = copy]
<1>2. new.state = "writing" /\ new.key = agent[a].key /\ new.queue = agent[a].queue
  BY <1>1 DEF AgentState
<1>3. agent' = [agent EXCEPT ![a] = new]
  OBVIOUS
<1> HIDE DEF new
<1>4. agent'[a] = new /\ \A b \in Agent \ {a} : agent'[b] = agent[b]
  BY <1>3 DEF VaultInv, TypeOK
<1>5. ASSUME NEW b \in Agent, NEW u PROVE Stray(b, u)' <=> Stray(b, u)
  <2>2. agent'[b].queue = agent[b].queue /\ agent'[b].key = agent[b].key
    BY <1>2, <1>4
  <2>3. agent'[b].state \in Serving <=> agent[b].state \in Serving
    BY <1>2, <1>4 DEF MidUpdate, Serving
  <2>4. Opens(agent[b].key)' <=> Opens(agent[b].key)
    BY <2>2 DEF Opens
  <2> QED  BY <2>2, <2>3, <2>4 DEF Stray
<1>6. Adrift' = Adrift
  <2>1. \A b \in Agent : Doomed(b)' <=> Doomed(b)
    BY <1>2, <1>4 DEF Doomed
  <2> QED  BY <1>5, <2>1, AdriftKept
<1>7. Key' = Key /\ OnDisk' = OnDisk /\ Asking' = Asking
  BY DEF Key, OnDisk, Asking, Wanted
<1> QED  BY <1>6, <1>7 DEF RegistersStep, Registers!vars

\* The secrets an acknowledged update leaves possible are its own and those of its rivals.
LEMMA SettledAsRivals ==
    ASSUME VaultInv, ~disturbed, NEW a \in Agent, agent[a].state \in Serving, Opens(agent[a].key),
           ~Doomed(a), NEW c \in Client, NEW u \in Registers!Update
    PROVE  Settled(c, u.account, u.secret)
              = {u.secret} \cup {v.secret : v \in Registers!Rivals(c, u)}
<1> DEFINE x == u.account
           R == Registers!Rivals(c, u)
           all == Settled(c, u.account, u.secret)
           hasClient(t) == \E d \in Client \ {c} :
                              client[d].cmd \in Updates /\ client[d].account = x /\ t = client[d].secret
           hasAgent(t) == \E b \in Agent : agent[b].state \in Serving /\ \E i \in DOMAIN agent[b].queue :
                              /\ agent[b].queue[i].from = Nobody /\ agent[b].queue[i].op \in Updates
                              /\ agent[b].queue[i].account = x /\ t = agent[b].queue[i].secret
<1>1. \A t : t \in all <=> t = u.secret \/ hasClient(t) \/ hasAgent(t)
  BY DEF Settled
<1>2. \A v : v \in R <=> v.account = x /\ (v \in Adrift \/ \E d \in Client \ {c} : v \in Wanted(d))
  BY DEF Registers!Rivals, Asking
<1>3. \A d \in Client : client[d] \in ClientState
  BY DEF VaultInv, TypeOK
<1>4. \A b \in Agent : agent[b].state \in Serving => Opens(agent[b].key) /\ ~Doomed(b)
  BY DEF VaultInv, Calm, OneAlive, Alive
<1>5. \A b \in Agent : \A i \in DOMAIN agent[b].queue : agent[b].queue[i] \in Request
  <2> SUFFICES ASSUME NEW b \in Agent, NEW i \in DOMAIN agent[b].queue PROVE agent[b].queue[i] \in Request
    OBVIOUS
  <2>1. agent[b].queue \in Seq(Request)
    BY DEF VaultInv, TypeOK, AgentState
  <2> QED  BY <2>1
<1> HIDE DEF all, R
<1>6. ASSUME NEW t, hasClient(t) PROVE \E v \in R : v.secret = t
  <2>1. PICK d \in Client \ {c} :
          client[d].cmd \in Updates /\ client[d].account = x /\ t = client[d].secret
    BY <1>6
  <2> DEFINE v == [account |-> client[d].account, secret |-> client[d].secret]
  <2>2. v \in Wanted(d) /\ v.account = x /\ v.secret = t
    BY <2>1 DEF Wanted
  <2> HIDE DEF v
  <2> QED  BY <1>2, <2>2
<1>7. ASSUME NEW t, hasAgent(t) PROVE \E v \in R : v.secret = t
  <2>1. PICK b \in Agent : agent[b].state \in Serving /\ \E i \in DOMAIN agent[b].queue :
                              /\ agent[b].queue[i].from = Nobody /\ agent[b].queue[i].op \in Updates
                              /\ agent[b].queue[i].account = x /\ t = agent[b].queue[i].secret
    BY <1>7
  <2>2. PICK i \in DOMAIN agent[b].queue :
                              /\ agent[b].queue[i].from = Nobody /\ agent[b].queue[i].op \in Updates
                              /\ agent[b].queue[i].account = x /\ t = agent[b].queue[i].secret
    BY <2>1
  <2> DEFINE v == [account |-> agent[b].queue[i].account, secret |-> agent[b].queue[i].secret]
  <2>3. v \in [account: Account, secret: 0..MaxCommands] /\ v.account = x /\ v.secret = t
    BY <1>5, <2>2 DEF Request
  <2>4. Stray(b, v) /\ ~Doomed(b)
    BY <1>4, <2>1, <2>2 DEF Stray
  <2> HIDE DEF v
  <2>5. v \in Adrift
    BY <2>3, <2>4 DEF Adrift
  <2> QED  BY <1>2, <2>3, <2>5
<1>8. ASSUME NEW v \in R PROVE hasClient(v.secret) \/ hasAgent(v.secret)
  <2>1. CASE v \in Adrift
    <3>1. PICK b \in Agent : Stray(b, v)
      BY <2>1 DEF Adrift
    <3> QED  BY <1>2, <3>1 DEF Stray
  <2>2. CASE \E d \in Client \ {c} : v \in Wanted(d)
    BY <1>2, <2>2 DEF Wanted
  <2> QED  BY <1>2, <2>1, <2>2
<1> HIDE DEF hasClient, hasAgent
<1>9. \A t : t \in all <=> t = u.secret \/ \E v \in R : t = v.secret
  BY <1>1, <1>6, <1>7, <1>8
<1>10. all = {u.secret} \cup {v.secret : v \in R}
  BY <1>9
<1> QED  BY <1>10 DEF all, R

\* What an update in the file, and nothing else, makes of the registers.
LEMMA OneWritten ==
    ASSUME VaultInv, file # Nobody, file' # Nobody, NEW x \in Account, NEW secret,
           file'.key = file.key, file'.data = [file.data EXCEPT ![x] = secret]
    PROVE  OnDisk' = [OnDisk EXCEPT ![x] = secret] /\ Key' = Key /\ Key # 0
<1>1. file \in [key: 1..newest, data: Data] /\ newest \in Nat
  BY DEF VaultInv, TypeOK
<1>2. file.data \in Data /\ file.key \in 1..newest
  BY <1>1
<1>3. OnDisk = file.data /\ OnDisk' = [y \in Account |-> file'.data[y]]
  BY <1>2 DEF OnDisk, Data
<1>4. OnDisk' = [file.data EXCEPT ![x] = secret]
  BY <1>2, <1>3 DEF Data
<1> QED  BY <1>1, <1>2, <1>3, <1>4 DEF Key

\* Serving a request with its client leaves those without one as they are.
LEMMA ServedAdrift ==
    ASSUME VaultInv, NEW a \in Agent, agent[a].state \in Serving, agent[a].queue # << >>,
           Head(agent[a].queue).from # Nobody,
           agent' = [agent EXCEPT ![a].queue = Tail(@), ![a].state = "ready"],
           UNCHANGED file
    PROVE  Adrift' = Adrift
<1> DEFINE q == agent[a].queue
<1>1. q \in Seq(Request) /\ agent[a] \in AgentState /\ q # << >>
  BY DEF VaultInv, TypeOK, AgentState
<1>2. /\ agent'[a].queue = Tail(q) /\ agent'[a].state = "ready" /\ agent'[a].key = agent[a].key
      /\ \A b \in Agent \ {a} : agent'[b] = agent[b]
  <2> DEFINE new == [agent[a] EXCEPT !.queue = Tail(q), !.state = "ready"]
  <2>1. new.queue = Tail(q) /\ new.state = "ready" /\ new.key = agent[a].key
    BY <1>1 DEF AgentState
  <2>2. agent' = [agent EXCEPT ![a] = new]
    OBVIOUS
  <2> HIDE DEF new, q
  <2>3. agent'[a] = new /\ \A b \in Agent \ {a} : agent'[b] = agent[b]
    BY <2>2 DEF VaultInv, TypeOK
  <2> QED  BY <2>1, <2>3
<1>3. \A k : Opens(k)' <=> Opens(k)
  BY DEF Opens
<1>4. q[1].from # Nobody
  BY <1>1
<1>5. /\ \A i \in DOMAIN q : i = 1 \/ (i - 1 \in DOMAIN Tail(q) /\ Tail(q)[i - 1] = q[i])
      /\ \A i \in DOMAIN Tail(q) : i + 1 \in DOMAIN q /\ Tail(q)[i] = q[i + 1]
  <2> HIDE DEF q
  <2> QED  BY <1>1
<1>6. ASSUME NEW u PROVE Stray(a, u)' <=> Stray(a, u)
  <2> DEFINE Fits(m) == m.from = Nobody /\ m.op \in Updates
                        /\ u = [account |-> m.account, secret |-> m.secret]
  <2>1. (\E i \in DOMAIN Tail(q) : Fits(Tail(q)[i])) <=> \E i \in DOMAIN q : Fits(q[i])
    <3>1. ~Fits(q[1])
      BY <1>4
    <3> HIDE DEF Fits, q
    <3> QED  BY <1>5, <3>1
  <2>2. Stray(a, u)' <=> Opens(agent[a].key)' /\ \E i \in DOMAIN Tail(q) : Fits(Tail(q)[i])
    BY <1>2 DEF Stray, MidUpdate, Serving, Opens
  <2>3. Stray(a, u) <=> Opens(agent[a].key) /\ \E i \in DOMAIN q : Fits(q[i])
    BY DEF Stray
  <2>4. Opens(agent[a].key)' <=> Opens(agent[a].key)
    BY <1>2 DEF Opens
  <2> HIDE DEF Fits, q
  <2> QED  BY <2>1, <2>2, <2>3, <2>4
<1>7. ASSUME NEW b \in Agent, b # a, NEW u PROVE Stray(b, u)' <=> Stray(b, u)
  <2>1. agent'[b] = agent[b]
    BY <1>2, <1>7
  <2>2. Opens(agent[b].key)' <=> Opens(agent[b].key)
    BY <2>1 DEF Opens
  <2> QED  BY ONLY <2>1, <2>2 DEF Stray
<1>8. \A b \in Agent : Doomed(b)' <=> Doomed(b)
  BY <1>2 DEF Doomed
<1> QED  BY <1>6, <1>7, <1>8, AdriftKept

\* An answer: it acknowledges an update that is in the file, or refuses a request; without a
\* client to hear it, it ends the agent.
LEMMA AnswerAsRegisters ==
    ASSUME VaultInv, ~disturbed, UNCHANGED disturbed,
           NEW a \in Agent, agent[a].state \in Serving, agent[a].queue # << >>,
           NEW stop \in BOOLEAN, NEW accepted \in BOOLEAN, Answer(a, stop, accepted),
           stop => Head(agent[a].queue).op = "lock", UNCHANGED file,
           accepted /\ Head(agent[a].queue).op \in Updates =>
              /\ Opens(agent[a].key)
              /\ file.data[Head(agent[a].queue).account] = Head(agent[a].queue).secret
    PROVE  RegistersStep
<1> DEFINE r == Head(agent[a].queue)
           u == [account |-> r.account, secret |-> r.secret]
           done == accepted /\ r.op \in Updates
<1>1. /\ agent[a].queue \in Seq(Request) /\ agent[a] \in AgentState /\ r \in Request
      /\ 1 \in DOMAIN agent[a].queue /\ r = agent[a].queue[1]
      /\ Queued(agent[a].queue, a, client, may) /\ agent[a].state \in Alive
  BY DEF VaultInv, TypeOK, AgentState, Structure, QueuesKept, Alive
<1>2. u \in Registers!Update /\ u.account = r.account /\ u.secret = r.secret /\ r.account \in Account
  BY <1>1 DEF Registers!Update, Request
<1>3. OnDisk' = OnDisk /\ Key' = Key
  BY DEF OnDisk, Key
<1>4. ASSUME done PROVE OnDisk[u.account] = u.secret /\ Key # 0
  <2>1. file \in [key: 1..newest, data: Data] /\ newest \in Nat /\ file # Nobody
    BY <1>4 DEF Opens, VaultInv, TypeOK
  <2>2. OnDisk[u.account] = file.data[u.account]
    BY <1>2, <2>1 DEF OnDisk
  <2> QED  BY <1>2, <1>4, <2>1, <2>2 DEF Key
<1>5. ASSUME r.from = Nobody \/ stop PROVE Adrift' = {}
  <2> DEFINE new == [agent[a] EXCEPT !.queue = Tail(agent[a].queue), !.state = "closing"]
  <2>1. agent' = [agent EXCEPT ![a] = new]
    BY <1>5 DEF Answer
  <2>2. new.state \notin Serving
    BY <1>1 DEF AgentState, MidUpdate, Serving
  <2> HIDE DEF new
  <2>3. agent'[a] = new /\ \A b \in Agent \ {a} : agent'[b] = agent[b]
    BY <2>1 DEF VaultInv, TypeOK
  <2> QED  BY <1>1, <2>2, <2>3, NoneAdrift
<1>6. CASE r.from = Nobody
  <2>1. Asking' = Asking /\ may' = may
    BY <1>6 DEF Answer, Asking, Wanted
  <2>2. Registers!Forget
    BY <1>3, <1>5, <1>6, <2>1 DEF Registers!Forget
  <2> QED  BY <2>2 DEF RegistersStep, Registers!Next
<1>7. CASE r.from # Nobody
  <2> PICK c \in Client : c = r.from
    BY <1>1, <1>7 DEF Request
  <2>1. c \in Client /\ AskedBy(r, a, client[c])
    BY <1>1, <1>7 DEF Queued
  <2>2. client' = [client EXCEPT ![c] = IF @.cmd = "change" THEN [@ EXCEPT !.at = "ping", !.to = Nobody]
                                        ELSE Idle]
    BY <1>7 DEF Answer
  <2>3. may' = IF done THEN [may EXCEPT ![r.account] = Settled(c, r.account, r.secret)] ELSE may
    BY <1>7 DEF Answer
  <2>4. ~stop => agent' = [agent EXCEPT ![a].queue = Tail(@), ![a].state = "ready"]
    BY <1>7 DEF Answer
  <2>5. r.op \in Updates <=> client[c].cmd \in Updates
    BY <2>1 DEF AskedBy, Requests, Updates
  <2>6. /\ IF client[c].cmd = "change" THEN GoesOn(client[c], client'[c]) ELSE client'[c] = Idle
        /\ \A d \in Client \ {c} : client'[d] = client[d]
    BY ONLY VaultInv, a \in Agent, <2>1, <2>2, AnswerGoes
  <2>7. Wanted(c)' = {}
    <3>1. client'[c].cmd = "change" \/ client'[c].cmd = "none"
      BY ONLY <2>6 DEF GoesOn, Idle
    <3> QED  BY ONLY <3>1 DEF Wanted, Updates
  <2>8. Asking' = [Asking EXCEPT ![c] = {}]
    BY <2>1, <2>6, <2>7 DEF Asking, Wanted
  <2>9. CASE done
    <3>1. ~stop
      BY <2>9 DEF Updates
    <3>2. Adrift' = Adrift
      <4>1. r.from # Nobody
        BY <1>7
      <4> QED  BY <2>4, <3>1, <4>1, ServedAdrift
    <3>3. Opens(agent[a].key) /\ ~Doomed(a)
      BY <1>7, <2>9 DEF Doomed
    <3>4. u \in Asking[c]
      BY <2>1, <2>5, <2>9 DEF Asking, Wanted, AskedBy
    <3>5. may' = [may EXCEPT ![u.account] = Settled(c, u.account, u.secret)]
      BY <1>2, <2>3, <2>9
    <3>6. OnDisk' = OnDisk /\ Key' = Key /\ OnDisk[u.account] = u.secret /\ Key # 0
      BY <1>3, <1>4, <2>9
    <3> HIDE DEF u, r, done
    <3>7. Settled(c, u.account, u.secret)
             = {u.secret} \cup {v.secret : v \in Registers!Rivals(c, u)}
      BY <1>2, <2>1, <3>3, SettledAsRivals
    <3>8. Registers!Acknowledge(c, u)
      BY <2>8, <3>2, <3>4, <3>5, <3>6, <3>7 DEF Registers!Acknowledge
    <3> QED  BY <1>2, <2>1, <3>8 DEF RegistersStep, Registers!Next
  <2>10. CASE ~done /\ ~stop
    <3>1. Adrift' = Adrift
      <4>1. r.from # Nobody
        BY <1>7
      <4> QED  BY <2>4, <2>10, <4>1, ServedAdrift
    <3>2. may' = may
      BY <2>3, <2>10
    <3>3. Registers!GiveUp(c)
      BY <1>3, <2>8, <3>1, <3>2 DEF Registers!GiveUp
    <3> QED  BY <2>1, <3>3 DEF RegistersStep, Registers!Next
  <2>11. CASE ~done /\ stop
    <3>1. Wanted(c) = {}
      BY <2>5, <2>11 DEF Wanted, Updates
    <3>2. Asking' = Asking
      BY <2>1, <2>8, <3>1 DEF Asking
    <3>3. may' = may /\ Adrift' = {}
      BY <1>5, <2>3, <2>11
    <3>4. Registers!Forget
      BY <1>3, <3>2, <3>3 DEF Registers!Forget
    <3> QED  BY <3>4 DEF RegistersStep, Registers!Next
  <2>12. done => ~stop
    BY DEF Updates
  <2> QED  BY <2>9, <2>10, <2>11, <2>12
<1> QED  BY <1>6, <1>7

LEMMA HandleAsRegisters ==
    ASSUME VaultInv, ~disturbed, UNCHANGED disturbed, NEW a \in Agent, Handle(a)
    PROVE  RegistersStep
<1> DEFINE r == Head(agent[a].queue)
           opens == Opens(agent[a].key)
           writes == /\ opens /\ r.op \in Updates
                     /\ r.op = "delete" => file.data[r.account] # 0
<1>1. /\ agent[a].state = "ready" /\ agent[a].queue # << >> /\ agent[a].state \in Serving
      /\ UNCHANGED file
      /\ IF writes
         THEN /\ agent' = [agent EXCEPT ![a].state = "writing",
                             ![a].copy = [file.data EXCEPT ![r.account] = r.secret]]
              /\ UNCHANGED <<client, may>>
         ELSE Answer(a, r.op = "lock", opens)
  BY DEF Handle, MidUpdate, Serving
<1>2. CASE writes
  <2> DEFINE copy == [file.data EXCEPT ![r.account] = r.secret]
  <2>1. agent' = [agent EXCEPT ![a].state = "writing", ![a].copy = copy] /\ UNCHANGED <<client, may>>
    BY <1>1, <1>2
  <2> HIDE DEF copy
  <2> QED  BY <1>1, <2>1, BeginsWriteAsRegisters
<1>3. CASE ~writes
  <2>1. Answer(a, r.op = "lock", opens) /\ opens \in BOOLEAN /\ (r.op = "lock") \in BOOLEAN
    BY <1>1, <1>3 DEF Opens
  <2>2. opens /\ r.op \in Updates => opens /\ file.data[r.account] = r.secret
    <3>1. agent[a].queue \in Seq(Request) /\ Queued(agent[a].queue, a, client, may)
      BY <1>1 DEF VaultInv, TypeOK, AgentState, Structure, QueuesKept
    <3>2. 1 \in DOMAIN agent[a].queue /\ r = agent[a].queue[1]
      BY <1>1, <3>1
    <3> QED  BY <1>3, <3>1, <3>2 DEF Queued, Updates
  <2> HIDE DEF opens, writes
  <2> QED  BY <1>1, <2>1, <2>2, AnswerAsRegisters DEF opens
<1> QED  BY <1>2, <1>3

\* The file is replaced: the update is in effect before its client learns of it, or it is one
\* that was given up, and the agent serves nothing after it.
LEMMA LandsAsRegisters ==
    ASSUME VaultInv, ~disturbed, NEW a \in Agent, agent[a].state = "writing",
           file' = [key |-> agent[a].key, data |-> agent[a].copy],
           agent' = [agent EXCEPT ![a].state = "answering"],
           UNCHANGED <<client, may, disturbed>>
    PROVE  RegistersStep
<1> DEFINE r == Head(agent[a].queue)
           u == [account |-> r.account, secret |-> r.secret]
           new == [agent[a] EXCEPT !.state = "answering"]
<1>1. /\ agent[a] \in AgentState /\ agent[a].queue # << >> /\ agent[a].queue \in Seq(Request)
      /\ r.op \in Updates /\ file # Nobody /\ file \in [key: 1..newest, data: Data] /\ newest \in Nat
      /\ Queued(agent[a].queue, a, client, may) /\ agent[a].state \in Alive
  BY DEF VaultInv, TypeOK, AgentState, Structure, WritesUpdate, AgentsOpened, QueuesKept, Alive,
         MidUpdate, Serving
<1>2. 1 \in DOMAIN agent[a].queue /\ r = agent[a].queue[1] /\ r \in Request
  BY <1>1
<1>3. u \in Registers!Update /\ u.account = r.account /\ u.secret = r.secret /\ r.account \in Account
  BY <1>2 DEF Registers!Update, Request
<1>4. /\ agent[a].key = newest /\ file.key = newest
      /\ agent[a].copy = [file.data EXCEPT ![r.account] = r.secret]
  BY <1>1 DEF VaultInv, Calm, WriteCurrent, MidUpdate, NewestKey
<1>5. file' # Nobody /\ file'.key = file.key /\ file'.data = [file.data EXCEPT ![r.account] = r.secret]
  <2>1. file' \in [key: Nat, data: [Account -> 0..MaxCommands]]
    BY <1>1, <1>4 DEF AgentState, Data
  <2>2. file' # Nobody
    BY <2>1, VaultAssumption
  <2> QED  BY <1>4, <2>2
<1>6. OnDisk' = [OnDisk EXCEPT ![u.account] = u.secret] /\ Key' = Key /\ Key # 0
  BY <1>1, <1>3, <1>5, OneWritten
<1>7. new.state = "answering" /\ new.queue = agent[a].queue /\ new.key = agent[a].key
      /\ agent' = [agent EXCEPT ![a] = new]
  BY <1>1 DEF AgentState
<1> HIDE DEF new
<1>8. agent'[a] = new /\ \A b \in Agent \ {a} : agent'[b] = agent[b]
  BY <1>7 DEF VaultInv, TypeOK
<1>9. Asking' = Asking
  BY DEF Asking, Wanted
<1>10. CASE r.from = Nobody
  <2>1. Stray(a, u) /\ ~Doomed(a)
    BY <1>1, <1>2, <1>4, <1>10 DEF Stray, Opens, Doomed, MidUpdate, Serving
  <2> HIDE DEF u
  <2>2. u \in Adrift
    BY <1>3, <2>1 DEF Adrift, Registers!Update
  <2>3. Doomed(a)'
    BY <1>7, <1>8, <1>10 DEF Doomed
  <2>4. \A b \in Agent \ {a} : agent'[b].state \notin Serving
    BY <1>1, <1>8 DEF VaultInv, Calm, OneAlive, Alive
  <2>5. Adrift' = {}
    BY <2>3, <2>4 DEF Adrift, Stray
  <2>6. UNCHANGED <<may, disturbed>>
    OBVIOUS
  <2>7. Registers!TakeEffect(u)
    BY ONLY <1>6, <1>9, <2>2, <2>5, <2>6 DEF Registers!TakeEffect
  <2> QED  BY <1>3, <2>7 DEF RegistersStep, Registers!Next
<1>11. CASE r.from # Nobody
  <2> PICK c \in Client : c = r.from
    BY <1>2, <1>11 DEF Request
  <2>1. AskedBy(r, a, client[c])
    BY <1>1, <1>2, <1>11 DEF Queued
  <2>2. u \in Asking[c]
    BY <1>1, <2>1 DEF Asking, Wanted, AskedBy, Requests, Updates
  <2>3. \A b \in Agent : Doomed(b)' <=> Doomed(b)
    BY <1>7, <1>8, <1>11 DEF Doomed
  <2>4. ASSUME NEW b \in Agent, NEW v PROVE Stray(b, v)' <=> Stray(b, v)
    <3>1. /\ agent'[b].queue = agent[b].queue /\ agent'[b].key = agent[b].key
          /\ agent'[b].state \in Serving <=> agent[b].state \in Serving
      BY <1>7, <1>8 DEF MidUpdate, Serving
    <3>2. Opens(agent[b].key)' <=> Opens(agent[b].key)
      BY <1>1, <1>5, <3>1 DEF Opens
    <3> QED  BY ONLY <3>1, <3>2 DEF Stray
  <2>5. Adrift' = Adrift
    BY <2>3, <2>4, AdriftKept
  <2> HIDE DEF u
  <2>6. UNCHANGED <<may, disturbed>>
    OBVIOUS
  <2>7. Registers!Land(c, u)
    BY ONLY <1>6, <1>9, <2>2, <2>5, <2>6 DEF Registers!Land
  <2> QED  BY <1>3, <2>7 DEF RegistersStep, Registers!Next
<1> QED  BY <1>10, <1>11

LEMMA WriteAsRegisters ==
    ASSUME VaultInv, ~disturbed, UNCHANGED disturbed, NEW a \in Agent, Write(a)
    PROVE  RegistersStep
<1>1. agent[a].state = "writing" /\ agent[a].state \in Serving /\ FALSE \in BOOLEAN
  BY DEF Write, MidUpdate, Serving
<1>2. agent[a].queue # << >>
  BY <1>1 DEF VaultInv, Structure, WritesUpdate, MidUpdate
<1>3. CASE /\ file' = [key |-> agent[a].key, data |-> agent[a].copy]
           /\ agent' = [agent EXCEPT ![a].state = "answering"] /\ UNCHANGED <<client, may>>
  BY <1>1, <1>3, LandsAsRegisters
<1>4. CASE UNCHANGED file /\ Answer(a, FALSE, FALSE)
  BY <1>1, <1>2, <1>4, AnswerAsRegisters
<1> QED  BY <1>3, <1>4 DEF Write

LEMMA ReplyAsRegisters ==
    ASSUME VaultInv, ~disturbed, UNCHANGED disturbed, NEW a \in Agent, Reply(a)
    PROVE  RegistersStep
<1>1. agent[a].state = "answering" /\ agent[a].state \in Serving /\ UNCHANGED file /\ FALSE \in BOOLEAN
  BY DEF Reply, MidUpdate, Serving
<1>2. agent[a].queue # << >> /\ file # Nobody
  BY <1>1 DEF VaultInv, Structure, WritesUpdate, AgentsOpened, MidUpdate, Alive
<1>3. Opens(agent[a].key) /\ file.data[Head(agent[a].queue).account] = Head(agent[a].queue).secret
  BY <1>1, <1>2 DEF VaultInv, Calm, WriteCurrent, WrittenStays, NewestKey, MidUpdate, Opens
<1>4. PICK accepted \in BOOLEAN : Answer(a, FALSE, accepted)
  BY DEF Reply
<1> QED  BY <1>1, <1>2, <1>3, <1>4, AnswerAsRegisters

LEMMA AgentAsRegisters ==
    ASSUME VaultInv, ~disturbed, UNCHANGED disturbed, NEW a \in Agent, AgentStep(a) \/ KillAgent(a)
    PROVE  RegistersStep
BY AgentMovesAsRegisters, HandleAsRegisters, WriteAsRegisters, ReplyAsRegisters DEF AgentStep

-----------------------------------------------------------------------------
(* The vault implements the registers *)

LEMMA InitAsRegisters == Init => Registers!Init /\ IdleRests
<1> SUFFICES ASSUME Init PROVE Registers!Init /\ IdleRests
  OBVIOUS
<1>1. Idle.cmd = "none" /\ Gone.queue = << >> /\ Gone.state \notin Serving
  BY DEF Idle, Gone, MidUpdate, Serving
<1>2. \A c \in Client : client[c] = Idle
  BY DEF Init
<1>3. IdleRests
  BY <1>1, <1>2 DEF IdleRests
<1>4. Asking = [c \in Client |-> {}]
  BY <1>1, <1>2 DEF Asking, Wanted, Updates
<1>5. \A a \in Agent : agent[a].queue = << >>
  BY <1>1 DEF Init, Gone
<1>6. Adrift = {}
  BY <1>5 DEF Adrift, Stray
<1>7. Key \in {0, 1} /\ OnDisk = [x \in Account |-> 0]
  BY VaultAssumption DEF Init, Key, OnDisk
<1>8. may = [x \in Account |-> {0}] /\ disturbed = FALSE
  BY DEF Init
<1> QED  BY <1>3, <1>4, <1>6, <1>7, <1>8 DEF Registers!Init

LEMMA StepsAsRegisters == VaultInv /\ VaultInv' /\ IdleRests /\ [Next]_vars => RegistersStep
<1> SUFFICES ASSUME VaultInv, VaultInv', IdleRests, [Next]_vars PROVE RegistersStep
  OBVIOUS
<1>1. disturbed \in BOOLEAN /\ disturbed' \in BOOLEAN
  BY DEF VaultInv, TypeOK
<1>2. CASE disturbed'
  BY <1>1, <1>2, DisturbedStep
<1>3. CASE UNCHANGED vars
  BY <1>3 DEF vars, RegistersStep, Registers!vars, Key, OnDisk, Asking, Wanted, Adrift, Doomed, Stray, Opens
<1>4. CASE Next /\ ~disturbed'
  <2>1. ~disturbed
    BY <1>4 DEF Next, ClientStep, AgentStep, Begin, Connect, Unanswered, Check, Derive, Ping, Fork, Poll,
                ChangeRead, ChangeWrite, SetupWrite, KillClient, KillAgent, Bind, Handle, Write, Reply, Expire,
                Finish, Disturb
  <2>2. UNCHANGED disturbed
    BY <1>1, <1>4, <2>1
  <2> QED  BY <1>4, <2>1, <2>2, ClientAsRegisters, AgentAsRegisters DEF Next
<1> QED  BY <1>2, <1>3, <1>4

\* Every run of the vault is one of the registers, for any number of clients, agents,
\* accounts, commands and kills: what _handle_request acknowledges is in the file when _serve
\* answers, and stays there; what is not answered may be in it; of the requests given up one
\* at most takes effect, and none after change_passphrase has written the file anew.
THEOREM VaultImplementsRegisters == Spec => ImplementsRegisters
<1>1. Init => Registers!Init /\ IdleRests
  BY InitAsRegisters
<1>2. VaultInv /\ IdleRests /\ [Next]_vars => IdleRests'
  BY RestsStep
<1>3. VaultInv /\ VaultInv' /\ IdleRests /\ [Next]_vars => [Registers!Next]_(Registers!vars)
  BY StepsAsRegisters DEF RegistersStep
<1> QED  BY <1>1, <1>2, <1>3, VaultCorrect, PTL DEF Spec, ImplementsRegisters, Registers!Spec

-----------------------------------------------------------------------------
(* What the registers promise                                              *)

\* The updates asked for and given up are possible, as is what the registers hold.
AllPossible ==
    /\ disturbed \in BOOLEAN
    /\ ~disturbed =>
        /\ may \in [Account -> SUBSET (0..MaxCommands)]
        /\ DOMAIN Asking = Client
        /\ \A c \in Client : Asking[c] \subseteq Registers!Update
        /\ Adrift \subseteq Registers!Update
        /\ DOMAIN OnDisk = Account
        /\ \A x \in Account : OnDisk[x] \in may[x]
        /\ \A c \in Client : \A u \in Asking[c] : u.secret \in may[u.account]
        /\ \A u \in Adrift : u.secret \in may[u.account]

LEMMA AllPossibleInit == Registers!Init => AllPossible
<1> SUFFICES ASSUME Registers!Init PROVE AllPossible
  OBVIOUS
<1>1. /\ OnDisk = [x \in Account |-> 0] /\ may = [x \in Account |-> {0}]
      /\ Asking = [c \in Client |-> {}] /\ Adrift = {} /\ disturbed = FALSE
  BY DEF Registers!Init
<1>2. 0 \in 0..MaxCommands
  BY VaultAssumption
<1> QED  BY ONLY <1>1, <1>2 DEF AllPossible

LEMMA AllPossibleStep == AllPossible /\ [Registers!Next]_(Registers!vars) => AllPossible'
<1> SUFFICES ASSUME AllPossible, [Registers!Next]_(Registers!vars) PROVE AllPossible'
  OBVIOUS
<1>1. CASE Registers!Disturbed
  BY ONLY <1>1 DEF Registers!Disturbed, AllPossible
<1>2. CASE UNCHANGED disturbed /\ disturbed
  BY ONLY AllPossible, <1>2 DEF AllPossible
<1>3. CASE UNCHANGED disturbed /\ ~disturbed
  <2>1. /\ may \in [Account -> SUBSET (0..MaxCommands)]
        /\ DOMAIN Asking = Client
        /\ \A c \in Client : Asking[c] \subseteq Registers!Update
        /\ Adrift \subseteq Registers!Update
        /\ DOMAIN OnDisk = Account
        /\ \A x \in Account : OnDisk[x] \in may[x]
        /\ \A c \in Client : \A u \in Asking[c] : u.secret \in may[u.account]
        /\ \A u \in Adrift : u.secret \in may[u.account]
    BY <1>3 DEF AllPossible
  <2>2. /\ disturbed' \in BOOLEAN
        /\ \A u \in Registers!Update : u.account \in Account /\ u.secret \in 0..MaxCommands
    BY <1>3 DEF AllPossible, Registers!Update
  <2>3. CASE UNCHANGED <<may, Asking, Adrift, OnDisk>>
    BY ONLY <2>1, <2>2, <2>3 DEF AllPossible
  <2>4. ASSUME NEW c \in Client, NEW u \in Registers!Update, Registers!Ask(c, u) PROVE AllPossible'
    <3>1. /\ Asking' = [Asking EXCEPT ![c] = {u}] /\ Adrift' = Adrift /\ OnDisk' = OnDisk
          /\ may' = [may EXCEPT ![u.account] = @ \cup {u.secret}]
      BY <2>4 DEF Registers!Ask
    <3>2. /\ may' \in [Account -> SUBSET (0..MaxCommands)] /\ u.secret \in may'[u.account]
          /\ \A x \in Account : may[x] \subseteq may'[x]
      BY ONLY <2>1, <2>2, <3>1, u \in Registers!Update
    <3> QED  BY ONLY <2>1, <2>2, <3>1, <3>2, u \in Registers!Update, c \in Client DEF AllPossible
  <2>5. ASSUME NEW c \in Client, NEW u \in Registers!Update, Registers!Acknowledge(c, u) PROVE AllPossible'
    <3> DEFINE R == Registers!Rivals(c, u)
    <3>1. /\ Asking' = [Asking EXCEPT ![c] = {}] /\ Adrift' = Adrift
          /\ OnDisk' = OnDisk /\ OnDisk[u.account] = u.secret
          /\ may' = [may EXCEPT ![u.account] = {u.secret} \cup {v.secret : v \in R}]
      BY <2>5 DEF Registers!Acknowledge
    <3>2. /\ \A v \in R : v \in Registers!Update
          /\ \A v \in Adrift : v.account = u.account => v \in R
          /\ \A d \in Client \ {c} : \A v \in Asking[d] : v.account = u.account => v \in R
      BY ONLY <2>1 DEF Registers!Rivals
    <3> HIDE DEF R
    <3>3. /\ may' \in [Account -> SUBSET (0..MaxCommands)]
          /\ \A x \in Account : x # u.account => may'[x] = may[x]
          /\ u.secret \in may'[u.account] /\ \A v \in R : v.secret \in may'[u.account]
      BY ONLY <2>1, <2>2, <3>1, <3>2, u \in Registers!Update
    <3>4. \A x \in Account : OnDisk'[x] \in may'[x]
      BY ONLY <2>1, <2>2, <3>1, <3>3, u \in Registers!Update
    <3>5. \A v \in Adrift' : v.secret \in may'[v.account]
      BY ONLY <2>1, <2>2, <3>1, <3>2, <3>3
    <3>6. \A d \in Client : \A v \in Asking'[d] : v.secret \in may'[v.account]
      BY ONLY <2>1, <2>2, <3>1, <3>2, <3>3
    <3>7. \A d \in Client : Asking'[d] \subseteq Registers!Update
      BY ONLY <2>1, <3>1
    <3> QED  BY ONLY <2>1, <2>2, <3>1, <3>3, <3>4, <3>5, <3>6, <3>7 DEF AllPossible
  <2>11. ASSUME NEW c \in Client, NEW u \in Registers!Update, Registers!Land(c, u) PROVE AllPossible'
    <3>1. /\ Asking' = Asking /\ Adrift' = Adrift /\ may' = may /\ u \in Asking[c]
          /\ OnDisk' = [OnDisk EXCEPT ![u.account] = u.secret]
      BY <2>11 DEF Registers!Land
    <3>2. \A x \in Account : OnDisk'[x] \in may'[x]
      BY ONLY <2>1, <3>1, c \in Client
    <3> QED  BY ONLY <2>1, <2>2, <3>1, <3>2 DEF AllPossible
  <2>6. ASSUME NEW c \in Client, Registers!GiveUp(c) PROVE AllPossible'
    <3>1. /\ Asking' = [Asking EXCEPT ![c] = {}] /\ Adrift' \subseteq Adrift \cup Asking[c]
          /\ OnDisk' = OnDisk /\ may' = may
      BY <2>6 DEF Registers!GiveUp
    <3> QED  BY ONLY <2>1, <2>2, <3>1, c \in Client DEF AllPossible
  <2>7. ASSUME NEW u \in Registers!Update, Registers!TakeEffect(u) PROVE AllPossible'
    <3>1. /\ Asking' = Asking /\ Adrift' = {} /\ may' = may /\ u \in Adrift
          /\ OnDisk' = [OnDisk EXCEPT ![u.account] = u.secret]
      BY <2>7 DEF Registers!TakeEffect
    <3>2. \A x \in Account : OnDisk'[x] \in may'[x]
      BY ONLY <2>1, <3>1
    <3> QED  BY ONLY <2>1, <2>2, <3>1, <3>2 DEF AllPossible
  <2>8. CASE Registers!Forget \/ Registers!Rekey
    <3>1. UNCHANGED <<may, Asking, OnDisk>> /\ Adrift' = {}
      BY <2>8 DEF Registers!Forget, Registers!Rekey
    <3> QED  BY ONLY <2>1, <2>2, <3>1 DEF AllPossible
  <2>9. UNCHANGED Registers!vars => UNCHANGED <<may, Asking, Adrift, OnDisk>>
    BY DEF Registers!vars
  <2>10. ~Registers!Disturbed
    BY <1>3, <2>2 DEF Registers!Disturbed
  <2> QED  BY <2>3, <2>4, <2>5, <2>6, <2>7, <2>8, <2>9, <2>10, <2>11 DEF Registers!Next
<1>4. Registers!Disturbed \/ UNCHANGED disturbed
  BY DEF Registers!Next, Registers!vars, Registers!Ask, Registers!Land, Registers!Acknowledge, Registers!GiveUp,
         Registers!TakeEffect, Registers!Forget, Registers!Rekey
<1>5. disturbed \in BOOLEAN
  BY DEF AllPossible
<1> QED  BY <1>1, <1>2, <1>3, <1>4, <1>5

\* The registers keep what is acknowledged: each holds the secret acknowledged last, or one
\* that was asked for and has not been answered since.  So does the vault's file, by the
\* theorem before.
THEOREM RegistersKeep == Registers!Spec => []Registers!Kept
<1>1. Registers!Init => AllPossible
  BY AllPossibleInit
<1>2. AllPossible /\ [Registers!Next]_(Registers!vars) => AllPossible'
  BY AllPossibleStep
<1>3. AllPossible => Registers!Kept
  BY DEF AllPossible, Registers!Kept
<1> QED  BY <1>1, <1>2, <1>3, PTL DEF Registers!Spec
=============================================================================
