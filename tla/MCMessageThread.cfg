CONSTANTS
    t1 = t1
    t2 = t2
    Threads = {t1, t2}
    None = None
    Failed = Failed
    Other = Other
    Limit = 4
    MaxFetches = 2
    MaxTexts = 2
    MaxPosts = 1
    MaxFaults = 1
SPECIFICATION FairPanelSpec
INVARIANTS PanelTypeOK TextInOnePlace
PROPERTY PanelConverges
CHECK_DEADLOCK FALSE
