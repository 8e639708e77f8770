SPECIFICATION FairSpec
CONSTANTS
    e1 = e1
    clear = clear
    delete = delete
    Entry = {e1, e2}
    Reader = {r1, r2}
    Purger = {clear, delete}
    Target <- MCTarget
    Clearer = {clear}
    Ttl <- MCTtl
    PageLimit = 1
    NoTtl = NoTtl
    None = None
INVARIANTS
    TypeOK
    UnexpiringIsExplained
    HitsNotInflated
PROPERTIES
    ImplementsVectorStore
    ExpiryOnlyRunsDown
    StoredEntryExpires
CHECK_DEADLOCK FALSE
