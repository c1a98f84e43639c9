--------------------------- MODULE MCCacheStrategy ---------------------------
EXTENDS CacheStrategy

CONSTANTS f1, f2, f3

MCKeys == {f1, f2, f3}
MCSizes == {1, 2}
=============================================================================
