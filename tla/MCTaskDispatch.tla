--------------------------- MODULE MCTaskDispatch ---------------------------
(* Instances of TaskDispatch for TLC. *)
EXTENDS TaskDispatch

TenantScope == {"tenant"}
NoScopes == {}
=============================================================================
