SPECIFICATION StampedSpec
CONSTANTS
    Regular = {k1, k2, k3}
    RegularSize = 6
    kbig = kbig
    a = a
    b = b
    Keys <- MCKeys
    NoKey = NoKey
    NameSize <- MCNameSize
    Atoms <- MCAtoms
    Certs = {}
    NoCert = NoCert
    MaxVarCount = 2
    MaxNameSize = 6
    MaxDataSize = 2
    DataIn <- MCDataIn
    AttrsIn <- MCAttrsIn
    Timestamps = {1}
    BufferSizes = {1, 2}
    TerminatedNames = FALSE
SYMMETRY MCSymmetry
PROPERTIES StampedOnSuccess
