------------------------- MODULE AlertManagerCluster -------------------------
(***************************************************************************)
(* Start-up of the alert manager in a super cluster                       *)
(* (src/job/alert_manager.rs, run()). Every alert-manager node of every  *)
(* cluster runs run() when it boots. With the super cluster enabled it   *)
(* reads the job cluster recorded in the super cluster's key-value store;*)
(* if another cluster is recorded and that cluster is still in the super *)
(* cluster's cluster list, the node returns without starting the alert   *)
(* scheduler. Otherwise it records its own cluster and spawns the        *)
(* scheduler. Reading, listing and registering are separate awaits, so   *)
(* nodes booting at the same time interleave between them.               *)
(***************************************************************************)
EXTENDS Naturals, FiniteSets

CONSTANTS
    Nodes,       \* alert-manager nodes
    Clusters,    \* clusters of the super cluster
    ClusterOf,   \* ClusterOf[n]: the cluster node n belongs to
    Serialized,  \* TRUE: no two nodes are in run() at the same time
    MaxCrashes,  \* bound on node crashes
    StoreErrors, \* TRUE: super-cluster store calls may fail
    NoCluster    \* the empty job-cluster name

ASSUME ClusterOf \in [Nodes -> Clusters] /\ Serialized \in BOOLEAN
ASSUME MaxCrashes \in Nat /\ NoCluster \notin Clusters /\ StoreErrors \in BOOLEAN

VARIABLES
    jobCluster,  \* the job cluster recorded in the super-cluster store
    listed,      \* the clusters list_by_role_group returns
    pc,          \* pc[n]: where node n is
    seen,        \* seen[n]: the job cluster node n read
    crashes      \* crashes so far

vars == <<jobCluster, listed, pc, seen, crashes>>

InRun == {"check", "list", "register"}

Booting == {n \in Nodes : pc[n] \in InRun}

-----------------------------------------------------------------------------
(* A node of a listed cluster boots and enters run() as alert manager     *)
Boot(n) ==
    /\ pc[n] = "down"
    /\ ClusterOf[n] \in listed
    /\ Serialized => Booting = {}
    /\ pc' = [pc EXCEPT ![n] = "check"]
    /\ UNCHANGED <<jobCluster, listed, seen, crashes>>

(* Mutant: any recorded cluster, the node's own included, sent to the     *)
(* membership test                                                         *)
ReadJobClusterAnyRecorded(n) ==
    /\ pc[n] = "check"
    /\ \/ /\ seen' = [seen EXCEPT ![n] = jobCluster]
          /\ pc' = [pc EXCEPT ![n] = IF jobCluster # NoCluster THEN "list" ELSE "register"]
       \/ StoreErrors /\ pc' = [pc EXCEPT ![n] = "failed"] /\ UNCHANGED seen
    /\ UNCHANGED <<jobCluster, listed, crashes>>

(* get_job_cluster(); an error ends run() before anything is spawned     *)
ReadJobCluster(n) ==
    /\ pc[n] = "check"
    /\ \/ /\ seen' = [seen EXCEPT ![n] = jobCluster]
          /\ pc' = [pc EXCEPT ![n] =
                      IF jobCluster # NoCluster /\ jobCluster # ClusterOf[n]
                      THEN "list" ELSE "register"]
       \/ StoreErrors /\ pc' = [pc EXCEPT ![n] = "failed"] /\ UNCHANGED seen
    /\ UNCHANGED <<jobCluster, listed, crashes>>

(* Mutant: the membership test inverted                                   *)
ListClustersInverted(n) ==
    /\ pc[n] = "list"
    /\ pc' = [pc EXCEPT ![n] = IF seen[n] \notin listed THEN "standby" ELSE "register"]
    /\ UNCHANGED <<jobCluster, listed, seen, crashes>>

(* list_by_role_group(None): stand by when the recorded cluster is listed *)
ListClusters(n) ==
    /\ pc[n] = "list"
    /\ \/ pc' = [pc EXCEPT ![n] = IF seen[n] \in listed THEN "standby" ELSE "register"]
       \/ StoreErrors /\ pc' = [pc EXCEPT ![n] = "failed"]
    /\ UNCHANGED <<jobCluster, listed, seen, crashes>>

(* Mutant: the node's name recorded instead of its cluster's               *)
RegisterNodeName(n) ==
    /\ pc[n] = "register"
    /\ jobCluster' = n
    /\ pc' = [pc EXCEPT ![n] = "running"]
    /\ UNCHANGED <<listed, seen, crashes>>

(* register_job_cluster(local), then the scheduler is spawned              *)
Register(n) ==
    /\ pc[n] = "register"
    /\ \/ /\ jobCluster' = ClusterOf[n]
          /\ pc' = [pc EXCEPT ![n] = "running"]
       \/ StoreErrors /\ pc' = [pc EXCEPT ![n] = "failed"] /\ UNCHANGED jobCluster
    /\ UNCHANGED <<listed, seen, crashes>>

(* A node stops at any point, its spawned jobs with it                    *)
Crash(n) ==
    /\ pc[n] # "down"
    /\ crashes < MaxCrashes
    /\ pc' = [pc EXCEPT ![n] = "down"]
    /\ crashes' = crashes + 1
    /\ UNCHANGED <<jobCluster, listed, seen>>

(* A cluster all of whose nodes are down drops out of the cluster list,  *)
(* and comes back later.                                                   *)
Leave(c) ==
    /\ c \in listed
    /\ \A n \in Nodes : ClusterOf[n] = c => pc[n] = "down"
    /\ listed' = listed \ {c}
    /\ UNCHANGED <<jobCluster, pc, seen, crashes>>

Join(c) ==
    /\ c \notin listed
    /\ listed' = listed \cup {c}
    /\ UNCHANGED <<jobCluster, pc, seen, crashes>>

Step(n) == ReadJobCluster(n) \/ ListClusters(n) \/ Register(n)

Init ==
    /\ jobCluster \in Clusters \cup {NoCluster}
    /\ listed = Clusters
    /\ pc = [n \in Nodes |-> "down"]
    /\ seen = [n \in Nodes |-> NoCluster]
    /\ crashes = 0

Next ==
    \/ \E n \in Nodes : Boot(n) \/ Step(n) \/ Crash(n)
    \/ \E c \in Clusters : Leave(c) \/ Join(c)

Spec == Init /\ [][Next]_vars

(* A node that is down is started again by its deployment, and a node in *)
(* run() takes each of its awaits to completion; crashes and clusters    *)
(* leaving and joining the list are the environment's.                   *)
FairSpec == Spec /\ \A n \in Nodes : WF_vars(Boot(n)) /\ WF_vars(Step(n))

-----------------------------------------------------------------------------
TypeOK ==
    /\ jobCluster \in Clusters \cup {NoCluster}
    /\ listed \subseteq Clusters
    /\ pc \in [Nodes -> {"down", "check", "list", "register", "running",
                         "standby", "failed"}]
    /\ seen \in [Nodes -> Clusters \cup {NoCluster}]
    /\ crashes \in 0..MaxCrashes

(* The alert scheduler runs in one cluster of the super cluster at a time:*)
(* two nodes running it belong to the same cluster. This is what the     *)
(* job-cluster check of run() is for.                                      *)
SingleSchedulerCluster ==
    \A m, n \in Nodes :
        pc[m] = "running" /\ pc[n] = "running" => ClusterOf[m] = ClusterOf[n]

(* Once the cluster list settles with every cluster in it, the super       *)
(* cluster eventually keeps an alert scheduler running, or a node's run()  *)
(* has returned a store error to its caller: the job-cluster check of      *)
(* run() never leaves every node standing by, whichever cluster was         *)
(* recorded, crashed or booted first.                                      *)
SchedulerEventuallyRuns ==
    <>[](listed = Clusters) =>
        <>[](\E n \in Nodes : pc[n] \in {"running", "failed"})
=============================================================================
