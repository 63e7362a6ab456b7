------------------------------- MODULE MCPid1 -------------------------------
(***************************************************************************)
(* Pid1 with one workload descendant, a mount below another one and one    *)
(* that unmountOrder skips, and the two kinds of workload that leave etcd  *)
(* and do not.                                                             *)
(***************************************************************************)
EXTENDS Pid1

MCOrphans == {"pod"}

MCWorkloads ==
    { [k0s |-> TRUE,  cfgK0s |-> TRUE,  role |-> "controller", single |-> FALSE],
      [k0s |-> FALSE, cfgK0s |-> FALSE, role |-> "none", single |-> FALSE] }

MCMounts == { << >>, <<"run">>, <<"var">>, <<"var", "pod">> }

MCBootMounts == { << >>, <<"run">>, <<"var">> }

MCPseudoDirs == {"proc", "sys", "dev", "run", "tmp"}
=============================================================================
