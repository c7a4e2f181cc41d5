SPECIFICATION Spec
CONSTANTS
    list = list
    send = send
    linear = linear
    slack = slack
    v1 = v1
    v2 = v2
    router = router
    t1 = t1
    t2 = t2
    command = command
    None = None
    Failed = Failed
    Caps = {list, send}
    Servers = {linear, slack}
    ServerOf <- MCServerOf
    Schemas = {v1, v2}
    Executors = {router}
    Threads = {t1}
    ExecutorOf <- MCExecutorOf
    Refreshers = {command}
    Configured <- MCConfigured
    Access <- MCAccess
    ReadOnly = {router}
    Visible <- MCVisible
    MaxUpgrades = 1
    MaxVersion = 2
INVARIANTS
    CallsAreCurrent
PROPERTIES
    OtherServersKept
    OutageKeepsTools
SYMMETRY MCSymmetry
