--------------------------- MODULE MCLocalCluster ---------------------------
(***************************************************************************)
(* LocalCluster with a controller and a worker.                            *)
(***************************************************************************)
EXTENDS LocalCluster

MCMachines == << "dev-controller-0", "dev-worker-0" >>
=============================================================================
