----------------------------- MODULE MCRequests -----------------------------
(* An instance of Requests for TLC: tokens of the two default roles, of a   *)
(* reader, of nobody, of every single area's own rights and of single rights. *)
EXTENDS Requests

MCPermissionSets ==
    {{}, AdminPermissions, StudentPermissions, ReadRights,
     Permissions \ ReadRights,
     {<<"movie", "create_own">>}, {<<"iam.users", "create">>},
     {<<"system", "reset.any">>}, AnyRights}
=============================================================================
