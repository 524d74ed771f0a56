-------------------------- MODULE TimestampHistory ---------------------------
(***************************************************************************)
(* VariableServer with a history: the latest timestamp each authenticated  *)
(* variable has carried since it was created.  The server itself only      *)
(* knows the timestamp of the last accepted write.                         *)
(***************************************************************************)
EXTENDS VariableServer

VARIABLE mark

Unverified(k) == plat.mode = "SETUP" /\ k \in {KEK} \cup SigDbs

\* In setup mode the timestamps of KEK and the databases are not checked, so
\* their history starts again with each write.
Later(k) ==
    IF ~running' \/ ~Has(plat', k) THEN 0
    ELSE IF Unverified(k) \/ Var(plat', k).timestamp > mark[k]
    THEN Var(plat', k).timestamp
    ELSE mark[k]

HInit == Init /\ mark = [k \in Keys |-> 0]

HNext == Next /\ mark' = [k \in Keys |-> Later(k)]

HSpec == HInit /\ [][HNext]_<<vars, mark>>

\* New data for an authenticated variable is refused unless its timestamp is
\* later than every one the variable has carried: "SetVariable with the old
\* data and one old timestamp, the expect status should be
\* EFI_SECURITY_VIOLATION" (tests/src/test_auth_func.c:669).
OldTimestampRefused ==
    running =>
        \A r \in Requests :
            /\ "AT" \in r.attrs /\ "AP" \notin r.attrs /\ r.data # <<>>
            /\ Has(plat, r.key) /\ ~Unverified(r.key)
            /\ r.ts <= mark[r.key]
            => handle_set_variable(plat, r).st # "SUCCESS"
=============================================================================
