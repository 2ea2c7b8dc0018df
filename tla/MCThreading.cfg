SPECIFICATION MCSpec
CONSTANTS
    p1 = p1
    p2 = p2
    c1 = c1
    c2 = c2
    k = k
    owner = owner
    ui = ui
    Threads <- MCThreads
    CanCall <- MCCanCall
    MaxJobs = 2
    PushLimit = 4
    Controllers = {owner, ui}
    MayCall <- MCMayCall
INVARIANTS TypesOK NoLostWakeup FlagsTellTheTruth OneItemAfterStop
PROPERTIES ImplementsFifo StopFinishes
