SPECIFICATION Spec
CONSTANTS
    Inodes = {i1, i2, i3, i4}
    NoFile = NoFile
    Base = 10
    Times <- MCTimes
    RtcReset = 11
SYMMETRY MCSymmetry
INVARIANTS
    TypeOK
    NoInventedTime
PROPERTY SavedTimeIsNotLost
