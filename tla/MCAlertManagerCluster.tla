------------------------ MODULE MCAlertManagerCluster ------------------------
EXTENDS AlertManagerCluster

CONSTANTS a1, a2, b1, ca, cb, none

MCNodes == {a1, a2, b1}
MCClusters == {ca, cb}
MCClusterOf == [n \in MCNodes |-> IF n = b1 THEN cb ELSE ca]
=============================================================================
