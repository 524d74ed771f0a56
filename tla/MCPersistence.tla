---------------------------- MODULE MCPersistence ----------------------------
(* One key with two values that are kept, and one with a value that may be *)
(* kept or not; both are also deleted.                                     *)
EXTENDS Persistence

CONSTANTS k1, k2, a, b

MCKeys == {k1, k2}
MCNameSize == [k \in MCKeys |-> 1]
MCAtoms == {a, b}
Kept == {"NV", "BS"}
MCWrites ==
    [name : {Plain(k1)}, data : {<<>>, <<a>>, <<b>>}, attrs : {Kept}]
    \cup [name : {Plain(k2)}, data : {<<>>, <<a>>}, attrs : {Kept, {"BS"}}]
=============================================================================
