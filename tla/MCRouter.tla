------------------------------ MODULE MCRouter ------------------------------
(* Router with GCP first (the standing order), after a cluster, or left out. *)
EXTENDS Router, TLC

CONSTANTS gcp, nibi, mila

GcpFirst == << gcp, nibi, mila >>
ClusterFirst == << nibi, gcp >>
Clusters == << nibi, mila >>
Symmetry == Permutations(Call)
=============================================================================
