--------------------------- MODULE MCCatalogProxy ---------------------------
(* Three hosts, the limit of 100 shrunk to 2, redirects to 3 calls. *)
EXTENDS CatalogProxy
MCLimitParams == {-1, 0, 2, 3}
=============================================================================
