SPECIFICATION FairSpec
CONSTANTS
    p1 = p1
    p2 = p2
    p3 = p3
    web = web
    apps = apps
    every = every
    Proc = {p1, p2, p3}
    Name = {web, apps, all}
    All = all
    Pattern = {every}
    NameOf <- MCNameOf
    NamespaceOf <- MCNamespaceOf
    Matched <- MCMatched
    Action = {"start", "stop", "restart", "reload", "delete"}
    Req = {r1}
    None = None
INVARIANTS
    TypeOK
    EntryMeansDone
PROPERTIES
    
    StartAllSparesRunning
    RequestsEnd
