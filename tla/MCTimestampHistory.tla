------------------------- MODULE MCTimestampHistory --------------------------
(* Timestamps of a database and a private variable, written by one signer, *)
(* with and without appends.                                               *)
EXTENDS TimestampHistory

CONSTANTS c1, c2, priv, WriteKinds

MCKeys == {PK, KEK, DB, priv} \cup ModeKeys
MCNameSize == [k \in MCKeys |-> 1]
MCCerts == {c1, c2}
MCAtoms == {c1, c2, 0, 1}

AT == {"NV", "BS", "RT", "AT"}
Req(k, attrs, data, ts) ==
    [key |-> k, nul |-> FALSE, attrs |-> attrs, data |-> data, ts |-> ts,
     signer |-> c1, verifies |-> TRUE]
MCRequests ==
    {Req(k, AT \cup kind, data, ts) :
        k \in {DB, priv}, kind \in WriteKinds, data \in {<<>>, <<c1>>, <<c2>>},
        ts \in 1 .. 3}
    \cup {Req(k, AT, data, ts) :
        k \in {PK, KEK}, data \in {<<>>, <<c1>>}, ts \in {1}}
MCAuthFiles == {<<>>}
=============================================================================
