SPECIFICATION FairSpec
CONSTANTS
    t2 = t2
    t1 = t1
    dib0700 = dib0700
    em28xx = em28xx
    hotplug = hotplug
    Users = {hotplug, em28xx, dib0700}
    Threads = {t1, t2}
    MaxOpens = 1
    Overlap = FALSE
INVARIANTS
    Singleton
    ContextInUse
PROPERTIES
    ReleaseReturns
