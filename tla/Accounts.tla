------------------------------ MODULE Accounts ------------------------------
(***************************************************************************)
(* Who may be logged in to a client: in the store of the web client and in *)
(* that of the mobile app, user is an account or null.                     *)
(***************************************************************************)
CONSTANTS Account, NoUser

ASSUME AccountsAssumption == NoUser \notin Account

=============================================================================
