---------------------------- MODULE MCDeployRunner ----------------------------
(* Symmetric handlers, request ids and approvals for the runs of            *)
(* DeployRunner.                                                            *)
EXTENDS DeployRunner, TLC

RunnerSymmetry == Permutations(Handlers) \cup Permutations(Requests) \cup Permutations(Approvals)
=============================================================================
