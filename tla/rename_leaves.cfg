SPECIFICATION Spec
CONSTANTS
    s1 = s1  s2 = s2  home = home  other = other
    Shell = {s1}
    Integrated = {}
    Profile = {d, p}
    Default = d
    Account = {u}
    Personal = u
    Store = {vault, plaintext}
    Implicit = {vault}
    Target = {t}
    Url = {home, other}
    Env <- MCEnvOne
    MaxCommands = 1
    MaxKills = 0
    None = None
PROPERTY SignOutRemoves
CHECK_DEADLOCK FALSE
