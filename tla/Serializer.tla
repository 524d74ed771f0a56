----------------------------- MODULE Serializer ------------------------------
(***************************************************************************)
(* The list of variables as it is kept in XAPI and in the save file        *)
(* (src/src/serializer.c, and from_bytes_to_vars of src/src/variable.c),   *)
(* as a sequence of fields: the header, of which only the count is ever    *)
(* read back, and for each variable its name, its data, and the rest,      *)
(* which has a fixed size.                                                 *)
(***************************************************************************)
EXTENDS StorageOps

serialize_var(v) ==
    <<v.key, v.data, [attrs |-> v.attrs, timestamp |-> v.timestamp, cert |-> v.cert]>>

serialize_variable_list(l) ==
    [f \in 1 .. 1 + 3 * Len(l) |->
        IF f = 1 THEN Len(l) ELSE serialize_var(l[(f + 1) \div 3])[1 + ((f - 2) % 3)]]

\* The j-th variable of the list.
unserialize_var_cached(b, j) ==
    [key |-> b[3 * j - 1], data |-> b[3 * j], attrs |-> b[3 * j + 1].attrs,
     timestamp |-> b[3 * j + 1].timestamp, cert |-> b[3 * j + 1].cert]

Decoded(ok, l) == [ok |-> ok, list |-> l]

\* As if a list that is cut gave the variables before the cut.
from_bytes_to_vars_Partial(b) ==
    IF b = <<>> THEN Decoded(FALSE, <<>>)
    ELSE Decoded(TRUE, [j \in 1 .. (Len(b) - 1) \div 3 |-> unserialize_var_cached(b, j)])

\* All or nothing: decoding as many variables as the header announces must
\* consume exactly what there is.  A list that is cut is decoded past its end,
\* and has then consumed more.
from_bytes_to_vars(b) ==
    IF \/ b = <<>>
       \/ b[1] > MaxVarCount
       \/ Len(b) # 1 + 3 * b[1]
       \/ \E j \in 1 .. b[1] : b[3 * j - 1] = NoKey \/ b[3 * j] = <<>>
    THEN Decoded(FALSE, <<>>)
    ELSE Decoded(TRUE, [j \in 1 .. b[1] |-> unserialize_var_cached(b, j)])
=============================================================================
