---------------------------- MODULE MCAdminQueue ----------------------------
(* The limits 50 and 200 shrunk to 2 and 3; one that is missing, one above. *)
EXTENDS AdminQueue
MCLimitParams == {-1, 1, 3, 4}
=============================================================================
