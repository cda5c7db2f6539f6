SPECIFICATION Spec
CONSTANTS
    Inodes = {i1, i2, i3, i4}
    NoFile = NoFile
    Base = 10
    Times <- MCShortTimes
    RtcReset = 2
SYMMETRY MCSymmetry
INVARIANT NoInventedTime
