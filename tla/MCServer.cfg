SPECIFICATION Spec
CONSTANTS
    c1 = c1
    c2 = c2
    x = x
    priv = priv
    ord = ord
    PK = PK
    KEK = KEK
    DB = DB
    SigDbs = {DB}
    SecureBoot = SecureBoot
    SetupMode = SetupMode
    DeployedMode = DeployedMode
    SignatureSupport = SignatureSupport
    AuditMode = AuditMode
    RequestKeys = {PK, priv, ord}
    TerminatedNames = FALSE
    NamedCerts = {c1, c2}
    XapiAnswers = {TRUE}
    SbSettings = {TRUE, FALSE}
    Requests <- MCRequests
    AuthFiles <- MCAuthFiles
    Keys <- MCKeys
    NoKey = NoKey
    NameSize <- MCNameSize
    Atoms <- MCAtoms
    Certs <- MCCerts
    NoCert = NoCert
    MaxVarCount = 8
    MaxNameSize = 4
    MaxDataSize = 2
INVARIANTS TypeOK ModeVariablesAgree PrivateOwner NothingUnsaved
PROPERTIES StartRestoresAll PushIsCurrent
