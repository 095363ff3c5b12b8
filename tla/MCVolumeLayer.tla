---------------------------- MODULE MCVolumeLayer ----------------------------
(* The volume layer; the store holds two interchangeable archives of one run, *)
(* a payload and a footer each; the status is of two DLEs on one landing list *)
(* of two; the catalog is of two archives of one run, on two reels and a disk: *)
(* in one part or two, footer and index with the last part or apart, with a    *)
(* part map or from before there was one.                                      *)
EXTENDS VolumeLayer

CONSTANTS a1, a2

MCArchives == {a1, a2}
MCRunOf == [a \in MCArchives |-> "r1"]
MCKinds == <<"part", "commit">>
MCArrays == [all |-> <<1, 2>>]
MCTypeOf == [d \in {1, 2} |-> "all"]
MCBackups == {<<1, "x">>, <<1, "y">>}
MCLayouts == {[parts |-> <<1>>, tail |-> 1, toc |-> TRUE],
              [parts |-> <<1, 2>>, tail |-> 2, toc |-> TRUE],
              [parts |-> <<2>>, tail |-> 1, toc |-> TRUE],
              [parts |-> <<2, 1>>, tail |-> 1, toc |-> FALSE]}
MCSymmetry == Permutations(MCArchives)
=============================================================================
