SPECIFICATION Spec
CONSTANTS
    t1 = t1
    t2 = t2
    b1 = b1
    b2 = b2
    page = page
    Root = root
    Tabs = {t1, t2}
    Browsers = {b1, b2}
    BrowserOf <- OneEach
    Goals = {root, page}
    MaxFlowCookies = 1
    PerSecond = 1
    Faults = {"restart", "expiry", "eviction"}
    MaxFlows = 2
INVARIANTS
    OnlyStarter
    OneLiveSession
PROPERTIES
    RetriedOnce
