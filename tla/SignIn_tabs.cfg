\* The sign-ins are bounded: when they are used up, nothing more need happen.
CHECK_DEADLOCK FALSE
SPECIFICATION Spec
CONSTANTS
    t1 = t1
    t2 = t2
    b1 = b1
    b2 = b2
    page = page
    Root = root
    Tabs = {t1, t2}
    Browsers = {b1}
    BrowserOf <- SameBrowser
    Goals = {root, page}
    MaxFlowCookies = 2
    PerSecond = 1
    Faults = {"closed"}
    MaxFlows = 3
SYMMETRY TabsAlike
INVARIANTS
    LandsWhereAsked
PROPERTIES
    SignInSurvives
    FailureKeepsSession
