----------------------------- MODULE MCStorage ------------------------------
(* Storage with one key whose name is too long for the table.              *)
EXTENDS Storage

CONSTANTS Regular, RegularSize, kbig, a, b

MCKeys == Regular \cup {kbig}
MCNameSize == [k \in MCKeys |-> IF k = kbig THEN MaxNameSize + 1 ELSE RegularSize]
MCAtoms == {a, b}
MCDataIn == {<<>>, <<a>>, <<b>>, <<a, b>>, <<a, b, a>>}
MCAttrsIn == {{}, {"BS"}, {"BS", "AP"}, {"NV", "BS", "RT"}}
MCSymmetry == Permutations(Regular)
=============================================================================
