----------------------------- MODULE VolumeLayer -----------------------------
(***************************************************************************)
(* What the media hold and what is said of it: the file store of an        *)
(* address-identified medium; the catalog, with the scans that rebuild it; *)
(* and the status file of a run, which tells the copies being made.  A     *)
(* behaviour runs one of them, chosen at the start, over small constants.  *)
(* A machine that does not run waits in its first state.                   *)
(***************************************************************************)
EXTENDS FileStore, Status, Catalog, TLC

VARIABLE which

ASSUME VolumeLayerAssumption ==
  FileStoreAssumption /\ CatalogAssumption /\ StatusAssumption

-----------------------------------------------------------------------------
layerVars == <<which, vars, catalogVars, statusVars>>

LayerInit ==
  /\ Init /\ CatalogInit /\ StatusInit
  /\ which \in {"store", "catalog", "status"} /\ (which # "store" => ~cloud)

StoreStep == which = "store" /\ Next /\ UNCHANGED <<which, catalogVars, statusVars>>
CatalogStep == which = "catalog" /\ CatalogNext /\ UNCHANGED <<which, vars, statusVars>>
StatusStep == which = "status" /\ StatusNext /\ UNCHANGED <<which, vars, catalogVars>>
LayerNext == StoreStep \/ CatalogStep \/ StatusStep

LayerSpec == LayerInit /\ [][LayerNext]_layerVars
-----------------------------------------------------------------------------
\* Properties: of the file store, StoreIsWhole and RemovalsSpareCommitted (FileStore); of the
\* status, StatusIsTrue and DumpsStayEnded (Status); of the catalog, each part is spelled out
\* in its module.

\* The catalog (catalog.go, fill.go, ledger.go): a placement's run advertises it, the fill of
\* every volume is what its placements charge to it, and the ledger ends up saying what the
\* media hold; "feed tapes one at a time" (scan.go): reels fed one by one, in whatever order
\* and on top of whatever the catalog was, give what one scan of them all gives.
CatalogIsTrue == which = "catalog" =>
  /\ HeldIsAdvertised /\ FillIsCharged /\ LedgerCatchesUp
  /\ FeedingConverges
=============================================================================
