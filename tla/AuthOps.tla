------------------------------ MODULE AuthOps --------------------------------
(***************************************************************************)
(* Authenticated variables (src/src/uefi/auth.c, authlib.c, utils.c) as    *)
(* operators on a platform: the variable table, setup_mode, and            *)
(* secure_boot_enabled as read from xenstore when the daemon started.      *)
(*                                                                         *)
(* The data of PK, KEK and the signature databases is a sequence of        *)
(* certificates, one per signature; an atom that is no certificate stands  *)
(* for a malformed signature.  A write carries an authentication           *)
(* descriptor: its timestamp, its signer, and whether the PKCS#7 signature *)
(* verifies over the name, GUID, attributes, timestamp and payload.        *)
(***************************************************************************)
EXTENDS StorageOps

CONSTANTS
    PK, KEK,             \* the platform key and the key exchange keys
    DB, SigDbs,          \* db, and the set of db, dbx and dbt
    SecureBoot, SetupMode, DeployedMode, SignatureSupport, AuditMode,
    NamedCerts           \* certificates whose subject has a common name

ModeKeys == {SecureBoot, SetupMode, DeployedMode, SignatureSupport, AuditMode}

\* The names are those of the source, and no two of them are the same.
ASSUME AuthAssumption ==
    /\ {PK, KEK} \cup SigDbs \cup ModeKeys \subseteq Keys
    /\ PK # KEK /\ PK \notin SigDbs /\ KEK \notin SigDbs
    /\ ({PK, KEK} \cup SigDbs) \cap ModeKeys = {}
    /\ SecureBoot \notin {SetupMode, DeployedMode, SignatureSupport, AuditMode}
    /\ SetupMode \notin {DeployedMode, SignatureSupport, AuditMode}
    /\ DeployedMode \notin {SignatureSupport, AuditMode}
    /\ SignatureSupport # AuditMode
    /\ Certs \cup {0, 1} \subseteq Atoms
    /\ DB \in SigDbs
    /\ NamedCerts \subseteq Certs

\* A SetVariable request: nul tells whether its name counts a terminating NUL,
\* data is the payload, without the descriptor.
Request == [key : Keys, nul : BOOLEAN, attrs : SUBSET Attrs, data : Seq(Atoms),
            ts : Nat, signer : Certs, verifies : BOOLEAN]

\* The name and size the request hands to the table.
Name(r) == [key |-> r.key, nul |-> r.nul]

Platform == [s : Table, mode : {"SETUP", "USER"}, sb : BOOLEAN]
Outcome(st, p) == [st |-> st, p |-> p]
OnTable(p, r) == Outcome(r.st, [p EXCEPT !.s = r.s])

\* The next step of a function that returns at the first failure.
Then(o, F(_)) == IF o.st = "SUCCESS" THEN F(o.p) ELSE o

SecureBootKeys == {PK, KEK} \cup SigDbs

\* The size of the name is compared too.
is_secure_boot_variable(n) == ~n.nul /\ n.key \in SecureBootKeys

-----------------------------------------------------------------------------
Flag(b) == IF b THEN <<1>> ELSE <<0>>
VolatileAttrs == {"BS", "RT"}

Report(p, k, b) == OnTable(p, storage_set(p.s, Plain(k), Flag(b), VolatileAttrs))

\* As if SetupMode were written from the mode that ends.
update_platform_mode_Late(p, mode) ==
    LET WriteSetupMode(q) == Report(q, SetupMode, p.mode = "SETUP")
        WriteDeployedMode(q) == Report(q, DeployedMode, mode = "SETUP")
    IN  Then(Then(Report([p EXCEPT !.mode = mode], SecureBoot, mode = "USER" /\ p.sb),
                  WriteSetupMode), WriteDeployedMode)

\* The three variables that tell the guest the mode, in the order they are
\* written; the first failure ends the update.
update_platform_mode(p, mode) ==
    LET WriteSetupMode(q) == Report(q, SetupMode, mode = "SETUP")
        WriteDeployedMode(q) == Report(q, DeployedMode, mode = "SETUP")
    IN  Then(Then(Report([p EXCEPT !.mode = mode], SecureBoot, mode = "USER" /\ p.sb),
                  WriteSetupMode), WriteDeployedMode)

-----------------------------------------------------------------------------
(***************************************************************************)
(* Verification                                                            *)
(***************************************************************************)
\* Here, and in auth_lib_process_variable, names are compared without their
\* size.
check_signature_list_format(k, payload) ==
    IF /\ k \in SecureBootKeys
       /\ \/ \E i \in DOMAIN payload : payload[i] \notin Certs
          \/ k = PK /\ Len(payload) > 1
    THEN "INVALID_PARAMETER"
    ELSE "SUCCESS"

verify_payload(r) == r.verifies /\ r.data # <<>> /\ r.data[1] = r.signer

\* The signer of a request is the certificate its chain leads to.  For the
\* PK no chaining is allowed: it is the first certificate of the stored PK.
verify_pk(s, r) == /\ r.verifies
                   /\ storage_exists(s, Plain(PK))
                   /\ find_variable(s, Plain(PK)).data[1] = r.signer

\* As if any certificate that verifies the signature were trusted.
verify_kek_AnyCert(s, r) == r.verifies /\ storage_exists(s, Plain(KEK))

verify_kek(s, r) == /\ r.verifies
                    /\ storage_exists(s, Plain(KEK))
                    /\ r.signer \in Range(find_variable(s, Plain(KEK)).data)

\* sha256_priv_sig needs the common name of the signer.
sha256_from_auth(r) == IF r.signer \in NamedCerts THEN "SUCCESS"
                       ELSE "SECURITY_VIOLATION"

\* As if the digest were not compared (auth_enforce off).
verify_priv_AnySigner(s, r) == r.verifies /\ r.signer \in NamedCerts

verify_priv(s, r) ==
    /\ r.verifies
    /\ r.signer \in NamedCerts
    /\ storage_exists(s, Name(r)) =>
           find_variable(s, Name(r)).cert = r.signer

Verified(s, r, type) == CASE type = "PAYLOAD" -> verify_payload(r)
                          [] type = "PK"      -> verify_pk(s, r)
                          [] type = "KEK"     -> verify_kek(s, r)
                          [] type = "PRIV"    -> verify_priv(s, r)

\* As if only appends were checked.
Stale_AppendOnly(s, r) == /\ storage_exists(s, Name(r))
                          /\ "AP" \in r.attrs
                          /\ r.ts <= find_variable(s, Name(r)).timestamp

\* The timestamp must be later than that of the stored variable, except for
\* an append.
Stale(s, r) == /\ storage_exists(s, Name(r))
               /\ "AP" \notin r.attrs
               /\ r.ts <= find_variable(s, Name(r)).timestamp

verify_time_based_payload(s, r, type) ==
    IF Stale(s, r) \/ ~Verified(s, r, type) THEN "SECURITY_VIOLATION"
    ELSE check_signature_list_format(r.key, r.data)

-----------------------------------------------------------------------------
(***************************************************************************)
(* Update                                                                  *)
(***************************************************************************)
\* The signatures that are not in the old list, in their order.
KeepNew(list, c, old) == IF c \in Range(old) THEN list ELSE Append(list, c)

FilterSignatureList(old, new) ==
    LET kept[n \in 0 .. Len(new)] ==
            IF n = 0 THEN <<>> ELSE KeepNew(kept[n - 1], new[n], old)
    IN  kept[Len(new)]

auth_internal_update_variable_with_timestamp(s, r) ==
    LET filtered == /\ storage_exists(s, Name(r))
                    /\ "AP" \in r.attrs
                    /\ r.key \in {KEK} \cup SigDbs
        data == IF filtered
                THEN FilterSignatureList(find_variable(s, Name(r)).data, r.data)
                ELSE r.data
    IN  IF filtered /\ data = <<>> THEN Result("SUCCESS", s)
        ELSE storage_set_with_timestamp(s, Name(r), data, r.attrs, r.ts)

Answer(st, s, del) == [st |-> st, s |-> s, del |-> del]

\* What follows a successful update: the signer is recorded, and a failure to
\* compute its digest is the status of the whole call.
RecordSigner(s, r) ==
    LET i == Min(Matches(s, Name(r)))
    IN  IF ~storage_exists(s, Name(r)) THEN Answer("NOT_FOUND", s, FALSE)
        ELSE IF sha256_from_auth(r) # "SUCCESS"
        THEN Answer(sha256_from_auth(r), s, FALSE)
        ELSE Answer("SUCCESS", PutSlot(s, i, [s.slots[i] EXCEPT !.cert = r.signer], 0),
                    FALSE)

AfterUpdate(u, r, is_del) ==
    IF u.st # "SUCCESS" THEN Answer(u.st, u.s, FALSE)
    ELSE IF is_del THEN Answer("SUCCESS", u.s, TRUE)
    ELSE RecordSigner(u.s, r)

\* del tells the caller of a deletion.
verify_time_based_payload_and_update(s, r, type) ==
    LET is_del == /\ storage_exists(s, Name(r))
                  /\ r.data = <<>>
                  /\ "AP" \notin r.attrs
        verdict == verify_time_based_payload(s, r, type)
    IN  IF verdict # "SUCCESS" THEN Answer(verdict, s, FALSE)
        ELSE AfterUpdate(auth_internal_update_variable_with_timestamp(s, r), r, is_del)

\* As if the format were checked after the update.
SetupModeUpdate_CheckLast(s, r) ==
    LET u == auth_internal_update_variable_with_timestamp(s, r)
        format == check_signature_list_format(r.key, r.data)
    IN  IF format # "SUCCESS" THEN Result(format, u.s) ELSE u

\* In setup mode the payload is stored without verification.
SetupModeUpdate(s, r) ==
    IF check_signature_list_format(r.key, r.data) # "SUCCESS"
    THEN Result(check_signature_list_format(r.key, r.data), s)
    ELSE auth_internal_update_variable_with_timestamp(s, r)

\* As if deleting the PK did not return to setup mode.
FollowPK_NoSetup(p, v) ==
    IF v.st = "SUCCESS" /\ p.mode = "SETUP" /\ ~v.del
    THEN update_platform_mode([p EXCEPT !.s = v.s], "USER")
    ELSE OnTable(p, v)

\* Enrolling or deleting the PK changes the mode.
FollowPK(p, v) ==
    IF v.st = "SUCCESS" /\ (p.mode = "SETUP" <=> ~v.del)
    THEN update_platform_mode([p EXCEPT !.s = v.s],
                              IF v.del THEN "SETUP" ELSE "USER")
    ELSE OnTable(p, v)

process_var_with_pk(p, r, is_pk) ==
    IF ~({"NV", "AT"} \subseteq r.attrs) THEN Outcome("INVALID_PARAMETER", p)
    ELSE IF is_pk
    THEN FollowPK(p, verify_time_based_payload_and_update(p.s, r,
                         IF p.mode = "SETUP" THEN "PAYLOAD" ELSE "PK"))
    ELSE IF p.mode = "SETUP" THEN OnTable(p, SetupModeUpdate(p.s, r))
    ELSE OnTable(p, verify_time_based_payload_and_update(p.s, r, "PK"))

process_var_with_kek(p, r) ==
    IF ~({"NV", "AT"} \subseteq r.attrs) THEN Outcome("INVALID_PARAMETER", p)
    ELSE IF p.mode = "USER"
    THEN OnTable(p, verify_time_based_payload_and_update(p.s, r, "KEK"))
    ELSE OnTable(p, SetupModeUpdate(p.s, r))

is_delete_auth_variable(v, r) ==
    v.attrs = r.attrs /\ "AT" \in r.attrs /\ r.data = <<>>

\* Only reached with AT set: handle_set_variable sends every other variable
\* to storage_set and rejects AW.
process_variable(p, r) ==
    IF /\ storage_exists(p.s, Name(r))
       /\ is_delete_auth_variable(find_variable(p.s, Name(r)), r)
    THEN OnTable(p, storage_set(p.s, Name(r), <<>>, {}))
    ELSE OnTable(p, verify_time_based_payload_and_update(p.s, r, "PRIV"))

\* db, dbx and dbt fall back to the KEK when the PK path fails.
OrWithKek(first, r) == IF first.st = "SUCCESS" THEN first
                       ELSE process_var_with_kek(first.p, r)

auth_lib_process_variable(p, r) ==
    CASE r.key \in {PK, KEK} -> process_var_with_pk(p, r, r.key = PK)
      [] r.key \in SigDbs -> OrWithKek(process_var_with_pk(p, r, FALSE), r)
      [] OTHER -> process_variable(p, r)
=============================================================================
