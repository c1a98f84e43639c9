--------------------------- MODULE MCSchemaWatch ---------------------------
(* Model values and bounds for checking SchemaWatch with TLC.             *)
EXTENDS SchemaWatch

CONSTANTS k1, k2

MCKeys == {k1}
MCKeys2 == {k1, k2}
=============================================================================
