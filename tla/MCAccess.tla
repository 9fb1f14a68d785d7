------------------------------ MODULE MCAccess ------------------------------
(***************************************************************************)
(* Three activation keys, the accounts they admit, two threads.  Each      *)
(* workload is a set of routes whose requests meet in the same rows.       *)
(***************************************************************************)
EXTENDS ApiKeys

MCWorkloads == {
    {"create_key", "update_key", "delete_key", "register", "disable"},
    {"login", "confirm_reset", "issue_reset"},
    {"login", "change_password", "disable"},
    {"admin_login", "create_admin"},
    {"issue_reset", "confirm_reset", "change_password"},
    {"create_api_key", "revoke_api_key"},
    {"create_api_key", "use_api_key", "change_password", "disable"}}
=============================================================================
