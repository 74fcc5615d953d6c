\* Three files of any content, two edits at any time, restarts.
SPECIFICATION Spec
CONSTANTS
    Files = {f1, f2, f3}
    Entries <- Directory
    MaxLog = 4
    MaxEdits = 2
    None = None
    Unread = Unread
    NoBlock = NoBlock
    logistic = logistic
    v1 = v1
    v2 = v2
SYMMETRY PathSymmetry
INVARIANTS
    TypeOK
    AllOrNothing
    RefusesForCause
    LevelsSuffice
