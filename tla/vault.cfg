SPECIFICATION Spec
CONSTANTS
    Nobody = Nobody
    Client = {c1, c2}
    Agent = {a1, a2}
    Account = {x1}
    MaxCommands = 2
    MaxKills = 1
INVARIANTS TypeOK OneAgent KeepsAcknowledged PassphraseSticks AgentOpens
PROPERTIES CommandsEnd ImplementsRegisters
CHECK_DEADLOCK FALSE
