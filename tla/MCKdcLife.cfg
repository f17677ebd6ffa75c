CONSTANTS
    Realm <- Home
    RealmOf <- MCRealmOf
    Leads <- MCLeads
    Aliases <- MCAliases
    CookieLife = 1
    TokenLife = 1
    MaxReplays = 2
    Servers <- MCChain
    Database <- MCDatabases
    Foreign <- MCForeign
    ASRequests <- MCASRequests
    TGSRequests <- MCTGSRequests
    Revised <- MCRevise
    MaxTime <- MCMaxTime
    MaxHeld <- MCMaxHeld
    MaxRevisions <- MCMaxRevisions
SPECIFICATION Spec
CHECK_DEADLOCK FALSE
INVARIANT LifeBounded
