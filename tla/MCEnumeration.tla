--------------------------- MODULE MCEnumeration -----------------------------
(* Walks over a table of three slots that four variables compete for.      *)
EXTENDS Enumeration, TLC

CONSTANT a

MCNameSize == [k \in Keys |-> 1]
MCAttrsIn == {{"BS"}, {"BS", "RT"}}
MCDataIn == {<<>>, <<a>>}
=============================================================================
