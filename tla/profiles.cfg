SPECIFICATION Spec
CONSTANTS
    s1 = s1  s2 = s2  home = home  other = other
    Shell = {s1, s2}
    Integrated = {s1}
    Profile = {d, p}
    Default = d
    Account = {u, o}
    Personal = u
    Store = {vault, plaintext}
    Implicit = {vault}
    Target = {t}
    Url = {home, other}
    Env <- MCEnv
    MaxCommands = 2
    MaxKills = 1
    None = None
INVARIANTS TypeOK DefaultKnown Paired
PROPERTIES SelectionSurvives ShellsApart ApiUrlStays
CHECK_DEADLOCK FALSE
