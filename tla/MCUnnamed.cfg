SPECIFICATION Spec
CONSTANTS
    c1 = c1
    c2 = c2
    x = x
    priv = priv
    ord = ord
    PK = PK
    KEK = KEK
    DB = DB
    SigDbs = {DB}
    SecureBoot = SecureBoot
    SetupMode = SetupMode
    DeployedMode = DeployedMode
    SignatureSupport = SignatureSupport
    AuditMode = AuditMode
    RequestKeys = {PK, KEK, DB}
    TerminatedNames = FALSE
    NamedCerts = {c1}
    XapiAnswers = {TRUE}
    SbSettings = {FALSE}
    Requests <- MCRequests
    AuthFiles <- MCAuthFiles
    Keys <- MCKeys
    NoKey = NoKey
    NameSize <- MCNameSize
    Atoms <- MCAtoms
    Certs <- MCCerts
    NoCert = NoCert
    MaxVarCount = 10
    MaxNameSize = 4
    MaxDataSize = 2
INVARIANTS ModeMatchesPK
