---------------------------- MODULE MCDeployments ----------------------------
(* Symmetry sets of the runs of Deployments. *)
EXTENDS Deployments, TLC

CheckinSymmetry == Permutations(Checkin)
AdminSymmetry == Permutations(Admin)
=============================================================================
