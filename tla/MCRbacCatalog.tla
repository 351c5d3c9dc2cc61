---------------------------- MODULE MCRbacCatalog ----------------------------
(* An instance of RbacCatalog for TLC: a release that adds a permission to   *)
(* the one that an earlier release gave its administrators.                 *)
EXTENDS RbacCatalog, TLC

CONSTANTS r1, r2, p1, p2, u1, s1, s2, admin, editor, first, added

MCGrants == [n \in {admin} |-> {first, added}]
MCSeededUsers == [u \in {u1} |-> admin]

Symmetry == Permutations(RoleIds) \cup Permutations(PermissionIds)
              \cup Permutations(Slots)
=============================================================================
