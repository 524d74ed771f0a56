SPECIFICATION Spec
CONSTANTS
    a = a
    Keys = {k1, k2, k3, k4}
    NoKey = NoKey
    NameSize <- MCNameSize
    Atoms = {a}
    Certs = {}
    NoCert = NoCert
    MaxVarCount = 3
    MaxNameSize = 4
    MaxDataSize = 2
    DataIn <- MCDataIn
    AttrsIn <- MCAttrsIn
INVARIANTS WalkComplete WalkInv
PROPERTIES NoRepeat WalkEnds
