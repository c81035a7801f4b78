CONSTANTS
    t1 = t1
    t2 = t2
    t3 = t3
    w1 = w1
    w2 = w2
    Tasks = {t1, t2, t3}
    Handled = {t1, t2}
    Wrapped = {t2}
    Workers = {w1, w2}
    MaxRetries = 1
    MaxDrain = 2
    MaxCrashes = 1
    MaxOutages = 1
    NoTask = NoTask
SPECIFICATION FairSpec
INVARIANTS TypeOK QueuedTaskNeverVanishes GivenUpOnlyAfterLastRetry EachAttemptRunsOnce
PROPERTY QueuedTaskIsSettled
