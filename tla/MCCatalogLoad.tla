--------------------------- MODULE MCCatalogLoad ---------------------------
(* Model values and bounds for checking CatalogLoad with TLC.             *)
EXTENDS CatalogLoad

CONSTANTS k1

MCKeys == {k1}
=============================================================================
