--------------------------- MODULE FileStoreSweep ---------------------------
(***************************************************************************)
(* The file store with one archive, a part and a footer, that is copied to *)
(* the medium twice, and no reclaim cut short: what the orphan sweep alone *)
(* leaves behind when it is interrupted or refused.                        *)
(***************************************************************************)
EXTENDS FileStore

CONSTANT a1

OneArchive == {a1}
OneRun == [a \in {a1} |-> "r1"]
PartAndFooter == <<"part", "commit">>
=============================================================================
