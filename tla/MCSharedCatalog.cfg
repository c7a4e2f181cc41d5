SPECIFICATION FairSpec
CONSTANTS
    list = list
    send = send
    linear = linear
    slack = slack
    v1 = v1
    v2 = v2
    router = router
    t1 = t1
    t2 = t2
    command = command
    None = None
    Failed = Failed
    Caps = {list, send}
    Servers = {linear}
    ServerOf <- OneServer
    Schemas = {v1, v2}
    Executors = {router}
    Threads = {t1, t2}
    ExecutorOf <- MCExecutorOf
    Refreshers = {}
    Configured <- MCConfigured
    Access <- MCAccess
    ReadOnly = {router}
    Visible <- SendHidden
    MaxUpgrades = 1
    MaxVersion = 2
INVARIANTS
    TypeOK
    CacheIsTheFile
PROPERTIES
    LocksReleased
