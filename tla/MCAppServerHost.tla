--------------------------- MODULE MCAppServerHost --------------------------
(***************************************************************************)
(* AppServerHost on small instances.                                       *)
(***************************************************************************)
EXTENDS AppServerHostRefinement
=============================================================================
