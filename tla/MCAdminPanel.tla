---------------------------- MODULE MCAdminPanel ----------------------------
(* One browser on the admin panel, for TLC. *)
EXTENDS AdminPanel, TLC
=============================================================================
