\* Expected violation: a batch limit written 2.0 limits nothing.
SPECIFICATION Spec
CONSTANTS
    Files = {f1}
    Entries <- FloatLimit
    MaxLog = 4
    MaxEdits = 0
    None = None
    Unread = Unread
    NoBlock = NoBlock
    logistic = logistic
    v1 = v1
    v2 = v2
INVARIANTS
    LimitEnforced
