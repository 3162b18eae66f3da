\* Two workers, channels shorter than the load.
SPECIFICATION FairSpec
CONSTANTS
    Workers = {w1, w2}
    Target = 4
    ChanCap = 1
    MaxTries = 2
INVARIANTS
    TypeOK
    Accounting
    OnceInItsBank
    NoneLeftBehind
PROPERTIES
    Returns
CHECK_DEADLOCK FALSE
