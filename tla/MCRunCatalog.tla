---------------------------- MODULE MCRunCatalog ----------------------------
(* RunCatalog on small instances.                                           *)
EXTENDS RunCatalog, TLC

=============================================================================
