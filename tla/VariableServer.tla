--------------------------- MODULE VariableServer ----------------------------
(***************************************************************************)
(* uefistored as its guest and its host see it: SetVariable requests       *)
(* (src/src/xen_variable_server.c), the push of the non-volatile variables *)
(* to XAPI after a write (src/src/xapi.c), and start-up from what XAPI     *)
(* kept and from the host's certificates (main, authlib.c).                *)
(***************************************************************************)
EXTENDS AuthOps

CONSTANTS
    Requests,     \* the SetVariable requests the guest may send
    AuthFiles,    \* possible contents of /var/lib/uefistored at a start
    XapiAnswers,  \* whether a call to XAPI may succeed, may fail, or both
    SbSettings    \* what platform/secureboot may say when the daemon starts

\* A file that can be opened: the write it asks for, unless it has no bytes.
AuthFile == [write : Request, empty : BOOLEAN]

ASSUME ServerAssumption ==
    /\ Requests \subseteq Request
    /\ \A files \in AuthFiles :
           /\ files \in Seq(AuthFile)
           /\ \A i \in DOMAIN files : files[i].write.key \in SecureBootKeys /\ ~files[i].write.nul
    /\ XapiAnswers \subseteq BOOLEAN
    /\ SbSettings \subseteq BOOLEAN

VARIABLES
    plat,     \* storage, setup_mode and secure_boot_enabled
    running,  \* whether the daemon is in its handler loop
    xapi      \* the variable list in the XAPI database, external

vars == <<plat, running, xapi>>

NoPlatform == [s |-> EmptyTable, mode |-> "SETUP", sb |-> FALSE]

-----------------------------------------------------------------------------
(***************************************************************************)
(* Persistence, one call at a time                                         *)
(***************************************************************************)
\* What the loop over the table adds for slot i.
Collect(list, s, i) ==
    IF i \in Occupied(s) /\ "NV" \in s.slots[i].attrs
    THEN Append(list, variable_copy(s.slots[i])) ELSE list

\* The list after each slot.
Collected(s) ==
    LET list[n \in 0 .. MaxVarCount] ==
            IF n = 0 THEN <<>> ELSE Collect(list[n - 1], s, n - 1)
    IN  list

\* As if the end of the table were reached one slot earlier still.
retrieve_nonvolatile_vars_Short(s) == Collected(s)[MaxVarCount - 2]

\* The variables storage_iter hands out, in slot order: all but the one in the
\* last slot, each without its timestamp and signer.
retrieve_nonvolatile_vars(s) == Collected(s)[MaxVarCount - 1]

\* xapi_set: an empty list builds no message.  The result is ignored by all
\* callers.
xapi_set(s, ok) ==
    LET list == retrieve_nonvolatile_vars(s)
    IN  IF ok /\ list # <<>> THEN list ELSE xapi

Restore(r, v) == IF r.st # "SUCCESS" THEN r ELSE RestoreVariable(r.s, v)

\* The table after each variable of a list.
Restored(list) ==
    LET after[n \in 0 .. Len(list)] ==
            IF n = 0 THEN Result("SUCCESS", EmptyTable)
            ELSE Restore(after[n - 1], list[n])
    IN  after

\* xapi_init: what was kept goes through the table again, and the daemon
\* asserts that each variable is stored.  A failed pull counts as no variables.
xapi_init(ok) ==
    LET list == IF ok THEN xapi ELSE <<>> IN Restored(list)[Len(list)]

-----------------------------------------------------------------------------
(***************************************************************************)
(* SetVariable                                                             *)
(***************************************************************************)
\* The size of the name is compared too.
is_ro(n) == ~n.nul /\ n.key \in ModeKeys

evaluate_attrs(attrs) ==
    IF "HR" \in attrs THEN "UNSUPPORTED"
    ELSE IF "RT" \in attrs /\ "BS" \notin attrs THEN "INVALID_PARAMETER"
    ELSE IF {"AT", "AW"} \subseteq attrs THEN "SECURITY_VIOLATION"
    ELSE IF "AW" \in attrs THEN "UNSUPPORTED"
    ELSE "SUCCESS"

handle_set_variable(p, r) ==
    IF "RT" \in r.attrs /\ "BS" \notin r.attrs THEN Outcome("INVALID_PARAMETER", p)
    ELSE IF is_ro(Name(r)) THEN Outcome("WRITE_PROTECTED", p)
    ELSE IF evaluate_attrs(r.attrs) # "SUCCESS"
    THEN Outcome(evaluate_attrs(r.attrs), p)
    ELSE IF "AT" \in r.attrs \/ is_secure_boot_variable(Name(r))
    THEN auth_lib_process_variable(p, r)
    ELSE OnTable(p, storage_set(p.s, Name(r), r.data, r.attrs))

Push(s) == \E ok \in XapiAnswers : xapi' = xapi_set(s, ok)

\* As if the table were pushed before the request is carried out.
Finish_PushFirst(o, r) ==
    /\ plat' = o.p
    /\ IF o.st = "SUCCESS" /\ "NV" \in r.attrs THEN Push(plat.s) ELSE UNCHANGED xapi

Finish(o, r) ==
    /\ plat' = o.p
    /\ IF o.st = "SUCCESS" /\ "NV" \in r.attrs THEN Push(o.p.s) ELSE UNCHANGED xapi

SetVariable(r) ==
    /\ running
    /\ Finish(handle_set_variable(plat, r), r)
    /\ UNCHANGED running

-----------------------------------------------------------------------------
(***************************************************************************)
(* Start and end of the process                                            *)
(***************************************************************************)
\* As if the files were all read.
auth_lib_load_All(files) == DOMAIN files

\* auth_lib_load: the files that are read.  Without a KEK file that is all
\* but the PK; a KEK file with no bytes is one.
auth_lib_load(files) ==
    {i \in DOMAIN files :
        files[i].write.key # PK \/ \E j \in DOMAIN files : files[j].write.key = KEK}

\* Variables that exist are not overwritten, and a file without bytes is
\* skipped; the first failure ends the start.
LoadFile(o, f, read) ==
    IF \/ o.st # "SUCCESS" \/ storage_exists(o.p.s, Name(f.write))
       \/ ~read \/ f.empty
    THEN o
    ELSE auth_lib_process_variable(o.p, f.write)

\* The platform after each file.
Loaded(p, files, read) ==
    LET after[n \in 0 .. Len(files)] ==
            IF n = 0 THEN Outcome("SUCCESS", p)
            ELSE LoadFile(after[n - 1], files[n], n \in read)
    IN  after

load_auth_files(p, files, read) == Loaded(p, files, read)[Len(files)]

auth_lib_initialize(p, files, read) ==
    LET Own(q, k, data) == OnTable(q, storage_set(q.s, Plain(k), data, VolatileAttrs))
        Setup(q) == update_platform_mode(q, "SETUP")
        LoadFiles(q) == load_auth_files(q, files, read)
        User(q) == IF storage_exists(q.s, Plain(PK)) THEN update_platform_mode(q, "USER")
                   ELSE Outcome("SUCCESS", q)
        Audit(q) == Own(q, AuditMode, <<0>>)
    IN  Then(Then(Then(Then(Own(p, SignatureSupport, <<1>>),
                            Setup), LoadFiles), User), Audit)

\* The host required secure boot and the platform cannot provide it.
SecureBootMissing(p) ==
    /\ p.sb
    /\ \/ find_variable(p.s, Plain(SecureBoot)).data # <<1>>
       \/ \E k \in {PK, KEK, DB} : ~storage_exists(p.s, Plain(k))

EnterLoop(o) == /\ running' = TRUE
                /\ plat' = o.p
                /\ Push(o.p.s)

GiveUp == UNCHANGED <<running, plat>>

AfterAuth(o) == IF o.st = "SUCCESS" /\ ~SecureBootMissing(o.p) THEN EnterLoop(o)
                ELSE GiveUp /\ UNCHANGED xapi

\* The assertion of xapi_init ends the process through the signal handler,
\* which pushes what has been stored so far.
AfterInit(init, files, sb) ==
    IF init.st = "SUCCESS"
    THEN AfterAuth(auth_lib_initialize([NoPlatform EXCEPT !.s = init.s, !.sb = sb],
                                       files, auth_lib_load(files)))
    ELSE GiveUp /\ Push(init.s)

\* main up to the handler loop.  A start that fails leaves no process.
Start(files, pulled, sb) ==
    /\ ~running
    /\ AfterInit(xapi_init(pulled), files, sb)

\* The process ends between two requests without running its signal handler.
Kill ==
    /\ running
    /\ running' = FALSE
    /\ plat' = NoPlatform
    /\ UNCHANGED xapi

Init == /\ plat = NoPlatform
        /\ running = FALSE
        /\ xapi = <<>>

Next == \/ \E r \in Requests : SetVariable(r)
        \/ \E files \in AuthFiles, pulled \in XapiAnswers, sb \in SbSettings :
               Start(files, pulled, sb)
        \/ Kill

Spec == Init /\ [][Next]_vars

-----------------------------------------------------------------------------
(***************************************************************************)
(* Properties                                                              *)
(***************************************************************************)
Has(p, k) == storage_exists(p.s, Plain(k))
Var(p, k) == find_variable(p.s, Plain(k))
Content(p, k) == IF Has(p, k) THEN Var(p, k).data ELSE <<>>

\* The platform and the persisted list keep their types.
TypeOK == /\ plat \in Platform
          /\ running \in BOOLEAN
          /\ xapi \in Seq(Variable)

\* A guest that does not count the terminating NUL of its names.  A name that
\* counts it is unlike every name in is_ro, is_secure_boot_variable and the
\* table, and is stored without it.  All but TypeOK and PushIsCurrent of the
\* properties below are for such a guest.
PlainNames == \A r \in Requests : ~r.nul

\* The platform is in user mode exactly when a PK is enrolled, across
\* enrolment, replacement, deletion and restart.
ModeMatchesPK == running => (plat.mode = "USER" <=> Has(plat, PK))

\* SecureBoot, SetupMode and DeployedMode always tell the guest the mode the
\* daemon is in, however full the table is: is_ro keeps the guest's writes from
\* them.
ModeVariablesAgree ==
    running =>
        /\ Content(plat, SecureBoot) = Flag(plat.mode = "USER" /\ plat.sb)
        /\ Content(plat, SetupMode) = Flag(plat.mode = "SETUP")
        /\ Content(plat, DeployedMode) = Flag(plat.mode = "SETUP")

\* The next four are about every request in every reachable state: what
\* handle_set_variable would do with it.
Anchor == Content(plat, PK)[1]

ByOwner(r, q) ==
    LET Changes(k) == Content(q, k) # Content(plat, k)
    IN  /\ Changes(PK) \/ Changes(KEK) => r.verifies /\ r.signer = Anchor
        /\ (\E k \in SigDbs : Changes(k)) =>
               r.verifies /\ r.signer \in {Anchor} \cup Range(Content(plat, KEK))

\* In user mode the trust anchors only change by the hand of their owner: PK
\* and KEK by the holder of the PK, the databases by the PK or a KEK.
TrustChain ==
    running /\ plat.mode = "USER" =>
        \A r \in Requests : ByOwner(r, handle_set_variable(plat, r).p)

ByCreator(r, q) ==
    \A k \in Keys \ ({PK, KEK} \cup SigDbs) :
        /\ Has(plat, k) /\ "AT" \in Var(plat, k).attrs
        /\ Has(q, k) /\ Var(q, k) # Var(plat, k)
        => r.verifies /\ r.signer = Var(plat, k).cert

\* A private authenticated variable is only rewritten by the signer that
\* created it.
PrivateOwner ==
    running => \A r \in Requests : ByCreator(r, handle_set_variable(plat, r).p)

Harmless(o) == o.st # "SUCCESS" => o.p = plat

\* A write that is refused leaves the platform as it was.
RefusalChangesNothing ==
    running => \A r \in Requests : Harmless(handle_set_variable(plat, r))

StampsAdvance(r, q) ==
    \/ "AP" \in r.attrs
    \/ \A k \in Keys :
           (plat.mode = "USER" \/ k = PK) /\ Has(plat, k) /\ Has(q, k) =>
               ~(Var(q, k).timestamp < Var(plat, k).timestamp)

\* In user mode, and for the PK in any mode, the stored timestamp of a
\* variable moves back only by an append.
StampBackOnlyByAppend ==
    running => \A r \in Requests : StampsAdvance(r, handle_set_variable(plat, r).p)

NonVolatile(p) == {<<p.s.slots[i].key, p.s.slots[i].data, p.s.slots[i].attrs>> :
                      i \in {j \in Occupied(p.s) : "NV" \in p.s.slots[j].attrs}}
Persisted == {<<xapi[i].key, xapi[i].data, xapi[i].attrs>> : i \in DOMAIN xapi}

\* Between two requests XAPI holds every non-volatile variable of the table
\* with its data, when the calls to it succeed and the last slot is free.
NothingUnsaved ==
    running /\ MaxVarCount - 1 \notin Occupied(plat.s) =>
        NonVolatile(plat) \subseteq Persisted

\* The same whichever slots are in use: variable_list_bytes is to "Return all
\* variables in storage as a list of bytes" (xapi.c:426).
AllSaved == running => NonVolatile(plat) \subseteq Persisted

\* A start brings back every variable that XAPI held, with its data and
\* attributes.
StartRestoresAll ==
    [][~running /\ running' =>
          \A i \in DOMAIN xapi :
              /\ Has(plat', xapi[i].key)
              /\ Var(plat', xapi[i].key).data = xapi[i].data
              /\ Var(plat', xapi[i].key).attrs = xapi[i].attrs]_vars

Kept(p) == {<<p.s.slots[i].key, p.s.slots[i].data, p.s.slots[i].attrs>> :
               i \in {j \in Occupied(p.s) : j < MaxVarCount - 1 /\ "NV" \in p.s.slots[j].attrs}}

\* What is pushed is the table as the request leaves it, whichever attributes
\* the request had and whatever XAPI held before: nothing that was deleted or
\* replaced since the last push goes to XAPI again.
PushIsCurrent == [][running' /\ xapi' # xapi => Persisted' = Kept(plat')]_vars

\* A start takes the PK from its file only together with a KEK, so that it
\* does not leave a platform in user mode whose databases nobody but the PK
\* can change (auth_lib_load).  A KEK file without bytes is outside this: it
\* counts as loaded, and load_auth_files then skips it.
PkComesWithKek ==
    [][~running /\ running' =>
          \A files \in AuthFiles, pulled \in XapiAnswers, sb \in SbSettings :
              /\ Start(files, pulled, sb)
              /\ \A i \in DOMAIN files : files[i].write.key = KEK => ~files[i].empty
              /\ Has(plat', PK)
              /\ \A e \in Persisted : e[1] # PK
              => Has(plat', KEK)]_vars
=============================================================================
