CONSTANTS
    Enctypes = {17, 18}
    Preferred = 18
    Length <- MCLength
    Classes <- MCClasses
    UnicodeClasses <- MCClasses
    HistoryName <- history
    AclEntries <- MCAclEntries
    Modules <- MCModules
    AdminPrincipal <- admin
    Dictionary = {"x"}
    Conns = {1, 2}
    Sessions <- MCSessions
    Requests <- MCRequests
    HookVetoes <- MCHookVetoes
    Modes = {"modules", "acl", "admin"}
    InitDatabase <- MCInitDatabase
    MaxOps = 3
    MaxNow = 2
    MaxCommands = 6
SPECIFICATION AllSpec
INVARIANTS LogComplete KvnoCoversKeys NoReuse DumpRecoverable
PROPERTIES PolicyKept Confined
CHECK_DEADLOCK FALSE
