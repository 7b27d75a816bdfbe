-------------------------------- MODULE MCRoles -------------------------------
(* RolesSession for TLC: the roles are interchangeable. *)
EXTENDS RolesSession, TLC

RoleSymmetry == Permutations(RoleNames)
===============================================================================
