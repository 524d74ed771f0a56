SPECIFICATION HSpec
CONSTANTS
    c1 = c1
    c2 = c2
    priv = priv
    WriteKinds = {{}, {"AP"}}
    PK = PK
    KEK = KEK
    DB = DB
    SigDbs = {DB}
    SecureBoot = SecureBoot
    SetupMode = SetupMode
    DeployedMode = DeployedMode
    SignatureSupport = SignatureSupport
    AuditMode = AuditMode
    NamedCerts = {c1, c2}
    XapiAnswers = {FALSE}
    SbSettings = {FALSE}
    Requests <- MCRequests
    AuthFiles <- MCAuthFiles
    Keys <- MCKeys
    NoKey = NoKey
    NameSize <- MCNameSize
    Atoms <- MCAtoms
    Certs <- MCCerts
    NoCert = NoCert
    MaxVarCount = 9
    MaxNameSize = 4
    MaxDataSize = 2
INVARIANTS OldTimestampRefused
