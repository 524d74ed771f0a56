-------------------------- MODULE MCVariableServer ---------------------------
(* The server with two certificates that may become PK, KEK, database      *)
(* entry or owner of a private variable, and one ordinary variable.        *)
EXTENDS VariableServer

CONSTANTS
    c1, c2, x, priv, ord,
    RequestKeys,      \* the variables the requests are about
    TerminatedNames   \* whether the guest may count a terminating NUL

MCKeys == {PK, KEK, DB, priv, ord} \cup ModeKeys
MCNameSize == [k \in MCKeys |-> 1]
MCCerts == {c1, c2}
MCAtoms == {c1, c2, x, 0, 1}

AT == {"NV", "BS", "RT", "AT"}
Req(k, attrs, data, ts, signer, ok) ==
    [key |-> k, nul |-> FALSE, attrs |-> attrs, data |-> data, ts |-> ts,
     signer |-> signer, verifies |-> ok]

\* Writes, appends and deletions of the authenticated variables.
Signed(k, attrs, datas, stamps) ==
    {Req(k, attrs, data, ts, signer, TRUE) :
        data \in datas, ts \in stamps, signer \in {c1, c2}}
AuthRequests ==
    {r \in Signed(PK, AT, {<<>>, <<c1>>}, {1})
           \cup Signed(PK, AT, {<<>>, <<c2>>}, {2})
           \cup Signed(KEK, AT, {<<>>, <<c2>>}, {1})
           \cup Signed(DB, AT, {<<>>, <<c1>>}, {1})
           \cup Signed(DB, AT \cup {"AP"}, {<<c2>>}, {2})
           \cup Signed(priv, AT, {<<>>, <<c1>>}, {1, 2})
           \cup Signed(priv, AT \cup {"AP"}, {<<c2>>}, {1}) : r.key \in RequestKeys}

\* Requests that fail one of the checks.
BadRequests ==
    {Req(k, AT, <<c2>>, 2, c1, FALSE) : k \in RequestKeys}
    \cup {Req(k, AT, <<c1, x>>, 2, c1, TRUE) : k \in RequestKeys}
    \cup {Req(k, AT, <<c1, c2>>, 2, c1, TRUE) : k \in RequestKeys \ {DB}}
    \cup {Req(k, attrs, <<c1>>, 2, c1, TRUE) :
             k \in RequestKeys \cap {PK, priv},
             attrs \in {{"NV", "BS"}, {"NV", "RT"}, {"BS", "AW"}, {"BS", "HR"},
                       {"AT", "AW", "BS"}}}
    \cup {Req(SecureBoot, {"BS", "RT"}, <<1>>, 1, c1, TRUE)}

\* The ordinary variable, deleted with its attributes or with none.
OrdinaryRequests ==
    {Req(k, {"NV", "BS"}, data, 1, c1, FALSE) :
        k \in RequestKeys \cap {ord}, data \in {<<>>, <<x>>}}
    \cup {Req(k, {}, <<>>, 1, c1, FALSE) : k \in RequestKeys \cap {ord}}

WithNul(requests) == {[r EXCEPT !.nul = TRUE] : r \in requests}
MCRequests ==
    LET requests == AuthRequests \cup BadRequests \cup OrdinaryRequests
    IN  requests \cup (IF TerminatedNames THEN WithNul(requests) ELSE {})

File(k, cert) == [write |-> Req(k, AT, <<cert>>, 1, c1, TRUE), empty |-> FALSE]
Empty(k) == [write |-> Req(k, AT, <<>>, 1, c1, FALSE), empty |-> TRUE]
MCAuthFiles == {<<>>, <<File(DB, c2), File(KEK, c2), File(PK, c1)>>,
                <<File(DB, c2), File(PK, c1)>>, <<Empty(KEK), File(PK, c1)>>}
=============================================================================
