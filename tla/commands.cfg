SPECIFICATION Spec
CONSTANTS
    RetryAfter = {3, 20, 40}
    Size = 5
    PageLimit = 2
    MaxPages = 4
    NoCursor = NoCursor
    Expires = 14
    Interval = {2, 5}
    Wait = {1, 8, 40}
    Duration = {0, 1, 3, 15}
    Never = Never
    File = {f1, f2}
    MaxEdits = 2
    WaitSeconds = 12
    NoFile = NoFile
    Repository = {r1, r2}
    Name = {n1, n2, n3}
    MaxChanges = 1
    Nothing = Nothing
    ToolSelects = ToolSelects
    Releases = 4
    NextSeries = 4
    NoPackage = NoPackage
    Updates = 2
    NoVersion = NoVersion
    Runner = {p1, p2}
    Runtime <- MCRuntime
    Commands = 3
    Nowhere = Nowhere
    Worker = {w1, w2}
    Owner = {o1, o2}
    Tried <- MCTried
    Plain = "plaintext"
    Preferred = {"auto", "plaintext"}
    MaxLogins = 2
    Absent = Absent
    Checker = {c1, c2}
    Release <- MCRelease
    Manifest <- MCManifest
    Machine = {amd64, arm64}
    MaxDay = 4
    MaxChecks = 3
    NoRelease = NoRelease
INVARIANTS TypeOK SentSafely ListingExact PollsOnTime StoredAsDeclared WorksOnShown CredentialsWithRun ArgumentsUnderstood ManagedKept WindowsKept RuntimesWhole EntriesKept ManifestsFresh ReleaseChosen
PROPERTY CommandsEnd
CHECK_DEADLOCK FALSE
