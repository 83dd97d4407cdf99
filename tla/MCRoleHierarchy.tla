---------------------------- MODULE MCRoleHierarchy ----------------------------
(* Instances of RoleHierarchy for TLC: every graph on the given roles.      *)
EXTENDS RoleHierarchy, TLC

CONSTANTS r1, r2, r3, r4

RoleSymmetry == Permutations(Roles)
===============================================================================
