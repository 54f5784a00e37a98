\* Two clients, and either batches of saves and deletions of two records, or
\* saves of two records of one group, under both policies.
SPECIFICATION EitherSpec
CONSTANTS
    r1 = r1
    r2 = r2
    g = g
    Keys <- AllKeys
    Groups <- Group
    Aggregated <- Users
    Payloads <- Data
    Clients = {c1, c2}
    VersionLimit = 3
    Policies <- BothPolicies
    Deletions = FALSE
    MaxChanges = 5
SYMMETRY Symmetric
INVARIANTS
    TypeOK
    LogReplaysToStore
    ChangesAreChained
    HeldBoundsStore
    NoLostUpdate
    ConflictIsGenuine
    IndexIsTotal
CHECK_DEADLOCK FALSE
