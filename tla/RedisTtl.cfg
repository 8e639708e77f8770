SPECIFICATION Spec
CONSTANTS
    e1 = e1
    clear = clear
    delete = delete
    Entry = {e1}
    Reader = {r1}
    Purger = {clear}
    Target <- MCTarget
    Clearer = {clear}
    Ttl <- MCTtl
    PageLimit = 1
    NoTtl = NoTtl
    None = None
INVARIANTS
    EveryEntryHasTtl
CHECK_DEADLOCK FALSE
