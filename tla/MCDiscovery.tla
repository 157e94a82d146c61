---------------------------- MODULE MCDiscovery ----------------------------
(* Small instances of Discovery for TLC. *)
EXTENDS Discovery, TLC

HostSymmetry == Permutations(Hosts)
=============================================================================
